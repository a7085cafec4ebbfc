------------------------------ MODULE EventBus ------------------------------
(***************************************************************************)
(* crates/valyria-events/src/bus.rs: events are INSERTed into SQLite (the  *)
(* rowid is the seq), then sent on a bounded broadcast channel of the      *)
(* process that appended them.  Insert and send are two steps of `append`: *)
(* the store actor serialises inserts, nothing orders the sends.           *)
(*                                                                         *)
(* A subscriber is EmbeddedClient::subscribe_events: it subscribes to the  *)
(* channel, reads the backlog, drains it, then follows the channel,        *)
(* dropping what is not newer than the last event given, and subscribes    *)
(* again when the channel tells it that it lagged.                         *)
(***************************************************************************)
EXTENDS Integers, Sequences

CONSTANTS
  Appenders,     \* tasks of this process that call EventBus::append
  Foreign,       \* the same in another process over the same database
  Subscribers,
  Capacity,      \* LIVE_CHANNEL_CAPACITY
  MaxEvents,     \* bound: events persisted in one behaviour
  MaxRestarts    \* bound: disconnects and restarts of the process

ASSUME BusAssumption ==
  /\ Appenders \intersect Foreign = {}
  /\ Capacity \in Nat \ {0}
  /\ MaxEvents \in Nat
  /\ MaxRestarts \in Nat

VARIABLES
  persisted,  \* highest rowid of the events table; its rows are 1..persisted
  sending,    \* per appender, the seq inserted and not yet sent (0: none)
  channel,    \* seqs sent on the live channel since the process started
  sub,        \* the subscriptions
  restarts,
  loose       \* history: events that nothing in the code orders (see Insert)

busVars == <<persisted, sending, channel, sub, restarts, loose>>

Phases == {"off", "subscribing", "on"}

Subscription ==
  [phase : Phases,
   pos   : Nat \ {0},  \* next index of `channel` this receiver reads
   next  : Nat \ {0},  \* the backlog not drained yet is next..upto
   upto  : Nat,
   last  : Nat]        \* last_delivered; `since` while subscribing

Off(last) == [phase |-> "off", pos |-> 1, next |-> 1, upto |-> 0, last |-> last]

BusInit ==
  /\ persisted = 0
  /\ sending = [a \in Appenders |-> 0]
  /\ channel = <<>>
  /\ sub = [s \in Subscribers |-> Off(0)]
  /\ restarts = 0
  /\ loose = {}

-----------------------------------------------------------------------------
(* append                                                                  *)

Unsent == {sending[b] : b \in {c \in Appenders : sending[c] # 0}}

\* `loose` notes what this insert overtakes: an event already inserted whose
\* send comes in any order with the send of the new one.
Insert(a) ==
  /\ sending[a] = 0
  /\ persisted < MaxEvents
  /\ persisted' = persisted + 1
  /\ sending' = [sending EXCEPT ![a] = persisted + 1]
  /\ loose' = loose \cup Unsent
  /\ UNCHANGED <<channel, sub, restarts>>

Send(a) ==
  /\ sending[a] # 0
  /\ channel' = Append(channel, sending[a])
  /\ sending' = [sending EXCEPT ![a] = 0]
  /\ UNCHANGED <<persisted, sub, restarts, loose>>

\* Another process appends: its send reaches only its own channel.
InsertElsewhere(f) ==
  /\ persisted < MaxEvents
  /\ persisted' = persisted + 1
  /\ loose' = loose \cup {persisted + 1}
  /\ UNCHANGED <<sending, channel, sub, restarts>>

-----------------------------------------------------------------------------
(* subscribe_since and Subscription::recv                                  *)

Subscribing(last) ==
  [phase |-> "subscribing", pos |-> Len(channel) + 1, next |-> 1, upto |-> 0, last |-> last]

\* The receiver is created before the backlog is read.
SubscribeLive(s) ==
  /\ sub[s].phase = "off"
  /\ sub' = [sub EXCEPT ![s] = Subscribing(@.last)]
  /\ UNCHANGED <<persisted, sending, channel, restarts, loose>>

\* Faulty variant of ReadBacklog: the newest row is left out.
ReadBacklogShort(s) ==
  /\ sub[s].phase = "subscribing"
  /\ sub' = [sub EXCEPT ![s] = [sub[s] EXCEPT !.phase = "on", !.next = sub[s].last + 1,
                                         !.upto = persisted - 1]]
  /\ UNCHANGED <<persisted, sending, channel, restarts, loose>>

ReadBacklog(s) ==
  /\ sub[s].phase = "subscribing"
  /\ sub' = [sub EXCEPT ![s] = [sub[s] EXCEPT !.phase = "on", !.next = sub[s].last + 1, !.upto = persisted]]
  /\ UNCHANGED <<persisted, sending, channel, restarts, loose>>

DeliverBacklog(s) ==
  /\ sub[s].phase = "on"
  /\ sub[s].next <= sub[s].upto
  /\ sub' = [sub EXCEPT ![s] = [sub[s] EXCEPT !.last = sub[s].next,
                                         !.next = sub[s].next + 1]]
  /\ UNCHANGED <<persisted, sending, channel, restarts, loose>>

\* The receiver has something to read and still has it in the buffer.
Drained(s) == sub[s].phase = "on" /\ sub[s].next > sub[s].upto
Lagged(s) == sub[s].pos + Capacity <= Len(channel)
Readable(s) == Drained(s) /\ sub[s].pos <= Len(channel) /\ ~Lagged(s)

DeliverLive(s) ==
  /\ Readable(s)
  /\ channel[sub[s].pos] > sub[s].last
  /\ sub' = [sub EXCEPT ![s] = [sub[s] EXCEPT !.last = channel[sub[s].pos],
                                         !.pos = sub[s].pos + 1]]
  /\ UNCHANGED <<persisted, sending, channel, restarts, loose>>

\* "already delivered from the backlog"
SkipLive(s) ==
  /\ Readable(s)
  /\ channel[sub[s].pos] <= sub[s].last
  /\ sub' = [sub EXCEPT ![s] = [sub[s] EXCEPT !.pos = sub[s].pos + 1]]
  /\ UNCHANGED <<persisted, sending, channel, restarts, loose>>

\* Faulty variant of Resubscribe: go on with the oldest message kept.
ResubscribeSkips(s) ==
  /\ Drained(s)
  /\ Lagged(s)
  /\ sub' = [sub EXCEPT ![s] = [sub[s] EXCEPT !.pos = Len(channel) - Capacity + 1]]
  /\ UNCHANGED <<persisted, sending, channel, restarts, loose>>

\* Delivery::Lagged: subscribe again from the last event given.
Resubscribe(s) ==
  /\ Drained(s)
  /\ Lagged(s)
  /\ sub' = [sub EXCEPT ![s] = Subscribing(@.last)]
  /\ UNCHANGED <<persisted, sending, channel, restarts, loose>>

-----------------------------------------------------------------------------
\* A client drops its stream; it may come back with its cursor.
Disconnect(s) ==
  /\ sub[s].phase # "off"
  /\ restarts < MaxRestarts
  /\ restarts' = restarts + 1
  /\ sub' = [sub EXCEPT ![s] = Off(@.last)]
  /\ UNCHANGED <<persisted, sending, channel, loose>>

\* The process dies: channel, receivers and unsent envelopes with it.
Restart ==
  /\ restarts < MaxRestarts
  /\ restarts' = restarts + 1
  /\ sending' = [a \in Appenders |-> 0]
  /\ channel' = <<>>
  /\ sub' = [s \in Subscribers |-> Off(sub[s].last)]
  /\ UNCHANGED <<persisted, loose>>

Receive(s) ==
  \/ ReadBacklog(s)
  \/ DeliverBacklog(s)
  \/ DeliverLive(s)
  \/ SkipLive(s)
  \/ Resubscribe(s)

BusNext ==
  \/ \E a \in Appenders : Insert(a) \/ Send(a)
  \/ \E f \in Foreign : InsertElsewhere(f)
  \/ \E s \in Subscribers : SubscribeLive(s) \/ Receive(s) \/ Disconnect(s)
  \/ Restart

BusSpec == BusInit /\ [][BusNext]_busVars

\* append runs to its end once begun; a connected stream keeps being polled.
Fairness ==
  /\ \A a \in Appenders : WF_busVars(Send(a))
  /\ \A s \in Subscribers : WF_busVars(Receive(s))

FairSpec == BusSpec /\ Fairness

-----------------------------------------------------------------------------
(* Properties                                                              *)

\* Every variable keeps its shape.
TypeOK ==
  /\ persisted \in Nat
  /\ sending \in [Appenders -> Nat]
  /\ channel \in Seq(Nat)
  /\ sub \in [Subscribers -> Subscription]
  /\ restarts \in Nat
  /\ loose \subseteq Nat

\* A subscriber is only ever given events that are in the durable log, also
\* across a restart between the insert and the send: durability comes first.
OnlyDurable ==
  /\ \A s \in Subscribers : sub[s].last <= persisted
  /\ \A i \in 1..Len(channel) : channel[i] <= persisted

\* A subscriber's cursor never goes back, so nothing is given again after a
\* later event, however sends interleave, streams drop and processes restart.
NeverBackwards ==
  [][\A s \in Subscribers : sub'[s].last >= sub[s].last]_busVars

\* The bus implements EventFeed: all a subscriber can miss is an event of
\* another process, or one that a later insert overtook before it was sent.
Feed == INSTANCE EventFeed WITH
  log    <- persisted,
  cursor <- [s \in Subscribers |-> sub[s].last]

GapFree == Feed!Spec

\* bus.rs: "gap-free ... no window in which an event could be missed": a
\* cursor moves over one event at a time.
NoEventMissed ==
  [][\A s \in Subscribers : sub'[s].last \in {sub[s].last, sub[s].last + 1}]_busVars

\* A connected subscriber is eventually given every event of its process's
\* log, whatever it lags by: it is never left waiting on the channel for an
\* event that went by while it subscribed.
EventuallyDelivered ==
  \A s \in Subscribers : \A n \in 1..MaxEvents :
    (sub[s].phase # "off" /\ persisted >= n /\ n \notin loose)
      ~> (sub[s].phase = "off" \/ sub[s].last >= n)
=============================================================================
