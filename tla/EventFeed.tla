------------------------------ MODULE EventFeed ------------------------------
(***************************************************************************)
(* What the event bus gives its subscribers: the events form one sequence, *)
(* and each subscriber walks it from its cursor in order, across           *)
(* reconnects, seeing no event twice and missing only loose ones.  An      *)
(* event becomes loose at an append, its own or a later one, and never     *)
(* because of what a subscriber does.                                      *)
(***************************************************************************)
EXTENDS Naturals

CONSTANTS Subscribers

VARIABLES
  log,     \* number of events in the log; event n is the nth
  cursor,  \* the last event each subscriber has been given
  loose    \* the events a subscriber may miss

vars == <<log, cursor, loose>>

Init ==
  /\ log = 0
  /\ cursor = [s \in Subscribers |-> 0]
  /\ loose = {}

Append ==
  /\ log' = log + 1
  /\ loose \subseteq loose'
  /\ loose' \subseteq 1..log'
  /\ UNCHANGED cursor

Deliver(s) == \E n \in 1..log :
  /\ cursor[s] < n
  /\ \A m \in 1..log : cursor[s] < m /\ m < n => m \in loose
  /\ cursor' = [cursor EXCEPT ![s] = n]
  /\ UNCHANGED <<log, loose>>

Next == Append \/ \E s \in Subscribers : Deliver(s)

Spec == Init /\ [][Next]_vars
=============================================================================
