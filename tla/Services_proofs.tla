-------------------------- MODULE Services_proofs --------------------------
(***************************************************************************)
(* Theorems about what the drivers and the clients are served with: the    *)
(* subscribers of the event bus (EventBus), the snapshots of the knowledge *)
(* index (KnowledgeIndex), the prompt that is made of what was read and    *)
(* fits a model's window (ContextAssembly), and the permissions a tool     *)
(* call needs (ToolGate).                                                  *)
(*                                                                         *)
(* The bus, for any number of appenders, processes, subscribers and events *)
(* and any channel capacity: what is delivered is durable and in order,    *)
(* and the bus implements EventFeed.                                       *)
(*                                                                         *)
(* The index, for any number of pipelines, paths, contents and             *)
(* generations: a published generation answers the same for as long as it  *)
(* is known, a full sync leaves the index equal to its scan, and reads     *)
(* that take several calls do not mix generations.                         *)
(*                                                                         *)
(* The prompt, for any budgets, requests and token counts: the sections'   *)
(* caps are shared out by priority, nothing outgrows them or the window,   *)
(* and nothing is dropped that would fit in what is left.                  *)
(*                                                                         *)
(* The gate, for any tasks, clients, calls, modes and kills: whatever runs *)
(* without the user being asked had the right to (UnaskedByRight), and an  *)
(* answer runs the call it was about, once (AnswersFitPrompts).  For the   *)
(* first: as long as a task may still issue calls in the process it was    *)
(* created in, the mode in force for it is the one it was created with     *)
(* (Pinned), as spawn_driver drops the pin only of a task that is over,    *)
(* and a call without an outcome belongs to a task that is not (Working).  *)
(* Every grant held is one the user gave in this process (GrantsGiven).    *)
(* For the second: of a task no two clients answer at once and no kill cut *)
(* off, an approved answer is of the prompt that is open (OneAnswer), and  *)
(* neither a call about to run (Fresh) nor one asked about (Unrun) has run *)
(* before, because a call without an outcome and an open question exclude  *)
(* each other (Working).                                                   *)
(***************************************************************************)
EXTENDS EventBus, KnowledgeIndex, ContextAssembly, ToolGate, SequenceTheorems,
        FiniteSetTheorems, TLAPS


-----------------------------------------------------------------------------
(* The event bus.                                                          *)


\* The fields a subscription's steps write.
LEMMA SubscriptionFields ==
  ASSUME NEW r \in Subscription
  PROVE  /\ r.phase \in Phases /\ r.last \in Nat /\ r.upto \in Nat
         /\ r.pos \in Nat \ {0} /\ r.next \in Nat \ {0}
         /\ r.last + 1 \in Nat \ {0} /\ r.next + 1 \in Nat \ {0} /\ r.pos + 1 \in Nat \ {0}
BY DEF Subscription

LEMMA UpdateTyped ==
  ASSUME NEW r \in Subscription, NEW pos \in Nat \ {0}, NEW next \in Nat \ {0},
         NEW upto \in Nat, NEW last \in Nat
  PROVE  /\ [r EXCEPT !.phase = "on", !.next = next, !.upto = upto] \in Subscription
         /\ [r EXCEPT !.last = last, !.next = next] \in Subscription
         /\ [r EXCEPT !.last = last, !.pos = pos] \in Subscription
         /\ [r EXCEPT !.pos = pos] \in Subscription
BY DEF Subscription, Phases

\* Every variable keeps its shape.
THEOREM TypeCorrect == BusSpec => []TypeOK
<1>1. BusInit => TypeOK
  BY DEF BusInit, TypeOK, Subscription, Phases, Off
<1>2. TypeOK /\ [BusNext]_busVars => TypeOK'
  <2> SUFFICES ASSUME TypeOK, [BusNext]_busVars PROVE TypeOK'
    OBVIOUS
  <2> USE DEF TypeOK
  <2>1. ASSUME NEW a \in Appenders, Insert(a) PROVE TypeOK'
    <3>1. Unsent \subseteq Nat
      BY DEF Unsent
    <3>2. QED
      BY <2>1, <3>1 DEF Insert
  <2>2. ASSUME NEW a \in Appenders, Send(a) PROVE TypeOK'
    <3>1. sending[a] \in Nat
      OBVIOUS
    <3>2. QED
      BY <2>2, <3>1 DEF Send
  <2>3. ASSUME NEW f \in Foreign, InsertElsewhere(f) PROVE TypeOK'
    BY <2>3 DEF InsertElsewhere
  <2>4. ASSUME NEW s \in Subscribers, SubscribeLive(s) \/ Receive(s) \/ Disconnect(s) PROVE TypeOK'
    <3>0. sub[s] \in Subscription /\ Len(channel) \in Nat /\ persisted \in Nat
      OBVIOUS
    <3>1. ASSUME NEW r \in Subscription, sub' = [sub EXCEPT ![s] = r]
          PROVE  sub' \in [Subscribers -> Subscription]
      BY <3>1
    <3>2. Subscribing(sub[s].last) \in Subscription /\ Off(sub[s].last) \in Subscription
      BY <3>0 DEF Subscribing, Off, Subscription, Phases
    <3>3. CASE SubscribeLive(s) \/ Resubscribe(s) \/ Disconnect(s)
      <4>1. sub' \in [Subscribers -> Subscription]
        <5>1. CASE SubscribeLive(s) \/ Resubscribe(s)
          BY <3>1, <3>2, <5>1 DEF SubscribeLive, Resubscribe
        <5>2. CASE Disconnect(s)
          BY <3>1, <3>2, <5>2 DEF Disconnect
        <5>3. QED
          BY <3>3, <5>1, <5>2
      <4>2. UNCHANGED <<persisted, sending, channel, loose>> /\ restarts' \in Nat
        BY <3>3 DEF SubscribeLive, Resubscribe, Disconnect
      <4>3. QED
        BY <4>1, <4>2
    <3>4. CASE ReadBacklog(s)
      <4>1. [sub[s] EXCEPT !.phase = "on", !.next = sub[s].last + 1, !.upto = persisted] \in Subscription
        BY <3>0, SubscriptionFields, UpdateTyped
      <4>2. QED
        BY <3>1, <3>4, <4>1 DEF ReadBacklog
    <3>5. CASE DeliverBacklog(s)
      <4>1. [sub[s] EXCEPT !.last = sub[s].next, !.next = sub[s].next + 1] \in Subscription
        BY <3>0, SubscriptionFields, UpdateTyped
      <4>2. QED
        BY <3>1, <3>5, <4>1 DEF DeliverBacklog
    <3>6. CASE DeliverLive(s)
      <4>1. channel[sub[s].pos] \in Nat
        BY <3>0, <3>6 DEF DeliverLive, Readable, Subscription
      <4>2. [sub[s] EXCEPT !.last = channel[sub[s].pos], !.pos = sub[s].pos + 1] \in Subscription
        BY <3>0, <4>1, SubscriptionFields, UpdateTyped
      <4>3. QED
        BY <3>1, <3>6, <4>2 DEF DeliverLive
    <3>7. CASE SkipLive(s)
      <4>1. [sub[s] EXCEPT !.pos = sub[s].pos + 1] \in Subscription
        BY <3>0, SubscriptionFields, UpdateTyped
      <4>2. QED
        BY <3>1, <3>7, <4>1 DEF SkipLive
    <3>8. QED
      BY <2>4, <3>3, <3>4, <3>5, <3>6, <3>7 DEF Receive
  <2>6. ASSUME Restart PROVE TypeOK'
    <3>1. ASSUME NEW s \in Subscribers PROVE Off(sub[s].last) \in Subscription
      BY DEF Off, Subscription, Phases
    <3>2. QED
      BY <2>6, <3>1 DEF Restart
  <2>7. CASE UNCHANGED busVars
    BY <2>7 DEF busVars
  <2>8. QED
    BY <2>1, <2>2, <2>3, <2>4, <2>6, <2>7 DEF BusNext
<1>3. QED
  BY <1>1, <1>2, PTL DEF BusSpec

-----------------------------------------------------------------------------
(* Durability and order, whoever appends.                                  *)

\* Everything on its way to a subscriber has been inserted, and a backlog
\* that is not drained lies ahead of the cursor.
Durable ==
  /\ \A a \in Appenders : sending[a] <= persisted
  /\ \A i \in 1..Len(channel) : channel[i] <= persisted
  /\ \A s \in Subscribers : sub[s].last <= persisted /\ sub[s].upto <= persisted

Ahead == \A s \in Subscribers : sub[s].next <= sub[s].upto => sub[s].next = sub[s].last + 1

\* What a step does to one subscription.
LEMMA SubscriptionSteps ==
  ASSUME TypeOK, [BusNext]_busVars, NEW s \in Subscribers
  PROVE  \/ sub'[s] = sub[s]
         \/ sub'[s] = Off(sub[s].last)
         \/ sub'[s] = Subscribing(sub[s].last) /\ UNCHANGED <<persisted, sending, channel, loose>>
         \/ ReadBacklog(s) \/ DeliverBacklog(s) \/ DeliverLive(s) \/ SkipLive(s)
<1>1. ASSUME NEW r \in Subscribers, SubscribeLive(r) \/ Receive(r) \/ Disconnect(r), r # s
      PROVE  sub'[s] = sub[s]
  BY <1>1 DEF SubscribeLive, Receive, Disconnect, ReadBacklog, DeliverBacklog, DeliverLive,
              SkipLive, Resubscribe, TypeOK
<1>2. CASE SubscribeLive(s) \/ Disconnect(s) \/ Resubscribe(s)
  BY <1>2 DEF SubscribeLive, Disconnect, Resubscribe, TypeOK
<1>3. ASSUME NEW a \in Appenders, Insert(a) \/ Send(a) PROVE sub'[s] = sub[s]
  BY <1>3 DEF Insert, Send
<1>4. ASSUME NEW f \in Foreign, InsertElsewhere(f) PROVE sub'[s] = sub[s]
  BY <1>4 DEF InsertElsewhere
<1>5. CASE Restart
  BY <1>5 DEF Restart
<1>6. CASE UNCHANGED busVars
  BY <1>6 DEF busVars
<1>7. QED
  BY <1>1, <1>2, <1>3, <1>4, <1>5, <1>6 DEF BusNext, Receive

\* Steps neither take back a row nor lower a cursor.
LEMMA DurableKept ==
  ASSUME TypeOK, TypeOK', Durable, Ahead, [BusNext]_busVars
  PROVE  Durable' /\ Ahead' /\ persisted <= persisted'
         /\ \A s \in Subscribers : sub[s].last <= sub'[s].last
<1>0. /\ persisted \in Nat /\ persisted' \in Nat /\ Len(channel) \in Nat
      /\ \A a \in Appenders : sending[a] \in Nat
  BY DEF TypeOK
<1>1. persisted <= persisted'
  <2>1. persisted' \in {persisted, persisted + 1}
    BY DEF BusNext, Insert, Send, InsertElsewhere, SubscribeLive, Receive, ReadBacklog,
           DeliverBacklog, DeliverLive, SkipLive, Resubscribe, Disconnect, Restart, busVars
  <2>2. QED
    BY <1>0, <2>1
<1>2. \A a \in Appenders : sending'[a] <= persisted'
  <2>1. ASSUME NEW a \in Appenders PROVE sending'[a] \in {sending[a], 0, persisted'}
    BY DEF BusNext, Insert, Send, InsertElsewhere, SubscribeLive, Receive, ReadBacklog,
           DeliverBacklog, DeliverLive, SkipLive, Resubscribe, Disconnect, Restart, busVars, TypeOK
  <2>2. QED
    BY <1>0, <1>1, <2>1 DEF Durable
<1>3. \A i \in 1..Len(channel') : channel'[i] <= persisted'
  <2>1. \/ channel' = channel \/ channel' = <<>>
        \/ \E a \in Appenders : channel' = Append(channel, sending[a]) /\ persisted' = persisted
    BY DEF BusNext, Insert, Send, InsertElsewhere, SubscribeLive, Receive, ReadBacklog,
           DeliverBacklog, DeliverLive, SkipLive, Resubscribe, Disconnect, Restart, busVars
  <2>2. CASE channel' = channel
    <3>1. \A i \in 1..Len(channel) : channel[i] \in Nat
      BY DEF TypeOK
    <3>2. QED
      BY <1>0, <1>1, <2>2, <3>1 DEF Durable
  <2>3. CASE channel' = <<>>
    BY <2>3
  <2>4. ASSUME NEW a \in Appenders, channel' = Append(channel, sending[a]), persisted' = persisted
        PROVE  \A i \in 1..Len(channel') : channel'[i] <= persisted'
    BY <1>0, <2>4 DEF Durable, TypeOK
  <2>5. QED
    BY <2>1, <2>2, <2>3, <2>4
<1>4. ASSUME NEW s \in Subscribers
      PROVE  /\ sub'[s].last <= persisted' /\ sub'[s].upto <= persisted'
             /\ sub'[s].next <= sub'[s].upto => sub'[s].next = sub'[s].last + 1
             /\ sub[s].last <= sub'[s].last
  <2>0. /\ sub[s] \in Subscription /\ sub[s].last \in Nat /\ sub[s].upto \in Nat /\ sub[s].next \in Nat
        /\ sub[s].pos \in Nat \ {0}
        /\ sub[s].last <= persisted /\ sub[s].upto <= persisted
        /\ sub[s].next <= sub[s].upto => sub[s].next = sub[s].last + 1
    BY SubscriptionFields DEF TypeOK, Durable, Ahead
  <2>1. CASE sub'[s] = sub[s]
    BY <1>0, <1>1, <2>0, <2>1
  <2>2. CASE sub'[s] = Off(sub[s].last) \/ sub'[s] = Subscribing(sub[s].last)
    <3>1. sub'[s].last = sub[s].last /\ sub'[s].next = 1 /\ sub'[s].upto = 0
      BY <2>2 DEF Off, Subscribing
    <3>2. QED
      BY <1>0, <1>1, <2>0, <3>1
  <2>3. CASE ReadBacklog(s)
    <3>1. /\ sub'[s].last = sub[s].last /\ sub'[s].next = sub[s].last + 1
          /\ sub'[s].upto = persisted /\ persisted' = persisted
      BY <2>0, <2>3 DEF ReadBacklog, TypeOK, Subscription
    <3>2. QED
      BY <1>0, <2>0, <3>1
  <2>4. CASE DeliverBacklog(s)
    <3>1. /\ sub'[s].last = sub[s].next /\ sub'[s].next = sub[s].next + 1
          /\ sub'[s].upto = sub[s].upto /\ persisted' = persisted /\ sub[s].next <= sub[s].upto
      BY <2>0, <2>4 DEF DeliverBacklog, TypeOK, Subscription
    <3>2. QED
      BY <1>0, <2>0, <3>1
  <2>5. CASE DeliverLive(s)
    <3>1. /\ sub'[s].last = channel[sub[s].pos] /\ sub'[s].next = sub[s].next
          /\ sub'[s].upto = sub[s].upto /\ persisted' = persisted
          /\ sub[s].next > sub[s].upto /\ channel[sub[s].pos] > sub[s].last
          /\ sub[s].pos <= Len(channel)
      BY <2>0, <2>5 DEF DeliverLive, Readable, Drained, TypeOK, Subscription
    <3>2. channel[sub[s].pos] \in Nat /\ channel[sub[s].pos] <= persisted
      BY <1>0, <2>0, <3>1 DEF Durable, TypeOK
    <3>3. QED
      BY <1>0, <2>0, <3>1, <3>2
  <2>6. CASE SkipLive(s)
    <3>1. /\ sub'[s].last = sub[s].last /\ sub'[s].next = sub[s].next
          /\ sub'[s].upto = sub[s].upto /\ persisted' = persisted
      BY <2>0, <2>6 DEF SkipLive, TypeOK, Subscription
    <3>2. QED
      BY <1>0, <2>0, <3>1
  <2>7. QED
    BY <2>1, <2>2, <2>3, <2>4, <2>5, <2>6, SubscriptionSteps
<1>5. QED
  BY <1>1, <1>2, <1>3, <1>4 DEF Durable, Ahead

LEMMA DurableInit == ASSUME BusInit PROVE Durable /\ Ahead
BY DEF BusInit, Durable, Ahead, Off

\* A subscriber is only ever given events that are in the durable log, and
\* its cursor never goes back: for any number of appending tasks and
\* processes, and across disconnects and restarts.
THEOREM DurableAndInOrder == BusSpec => []OnlyDurable /\ NeverBackwards
<1>1. BusInit => Durable /\ Ahead
  BY DurableInit
<1>2. ASSUME TypeOK, TypeOK', Durable, Ahead, [BusNext]_busVars
      PROVE  Durable' /\ Ahead' /\ [\A s \in Subscribers : sub'[s].last >= sub[s].last]_busVars
  <2>1. ASSUME NEW s \in Subscribers PROVE sub[s].last \in Nat /\ sub'[s].last \in Nat
    <3>1. sub[s] \in Subscription /\ sub'[s] \in Subscription
      BY <1>2 DEF TypeOK
    <3>2. QED
      BY <3>1, SubscriptionFields
  <2>2. QED
    BY <1>2, <2>1, DurableKept
<1>3. Durable => OnlyDurable
  BY DEF Durable, OnlyDurable
<1>4. BusSpec => []TypeOK
  BY TypeCorrect
<1>5. QED
  BY <1>1, <1>2, <1>3, <1>4, PTL DEF BusSpec, NeverBackwards

-----------------------------------------------------------------------------
(* What a subscriber can miss.                                             *)

\* Two sends are out of order only where the overtaken event is loose.
SendsInOrder ==
  /\ \A a, b \in Appenders : sending[a] # 0 /\ sending[a] < sending[b] => sending[a] \in loose
  /\ \A a \in Appenders : \A i \in 1..Len(channel) :
       sending[a] # 0 /\ sending[a] < channel[i] => sending[a] \in loose
  /\ \A i, j \in 1..Len(channel) : i < j /\ channel[j] < channel[i] => channel[j] \in loose

\* Where an event that a connected subscriber has not been given still is.
InBacklog(s, n) == sub[s].next <= n /\ n <= sub[s].upto
InChannel(s, n) == \E i \in 1..Len(channel) : sub[s].pos <= i /\ channel[i] = n
InFlight(n) == \E a \in Appenders : sending[a] = n

OnItsWay(s, n) == InBacklog(s, n) \/ InChannel(s, n) \/ InFlight(n)

NothingLost ==
  /\ loose \subseteq 1..persisted
  /\ \A s \in Subscribers : sub[s].phase # "off" => sub[s].pos <= Len(channel) + 1
  /\ \A s \in Subscribers : sub[s].phase = "on" =>
       \A n \in 1..persisted : n > sub[s].last /\ n \notin loose => OnItsWay(s, n)

\* What a step does to the log, the sends and the loose events.
LEMMA AppendSteps ==
  ASSUME TypeOK, [BusNext]_busVars
  PROVE  \/ \E a \in Appenders : Insert(a) \/ Send(a)
         \/ \E f \in Foreign : InsertElsewhere(f)
         \/ Restart
         \/ UNCHANGED <<persisted, sending, channel, loose>>
BY DEF BusNext, SubscribeLive, Receive, ReadBacklog, DeliverBacklog, DeliverLive, SkipLive,
       Resubscribe, Disconnect, busVars

LEMMA SendsKept ==
  ASSUME TypeOK, TypeOK', Durable, SendsInOrder, [BusNext]_busVars
  PROVE  SendsInOrder'
<1>0. /\ persisted \in Nat /\ channel \in Seq(Nat) /\ Len(channel) \in Nat
      /\ \A a \in Appenders : sending[a] \in Nat /\ sending[a] <= persisted
      /\ \A i \in 1..Len(channel) : channel[i] \in Nat /\ channel[i] <= persisted
  BY DEF TypeOK, Durable
<1>1. ASSUME NEW a \in Appenders, Insert(a) PROVE SendsInOrder'
  <2>1. /\ channel' = channel /\ loose' = loose \cup Unsent
        /\ sending'[a] = persisted + 1 /\ \A b \in Appenders \ {a} : sending'[b] = sending[b]
    BY <1>1 DEF Insert, TypeOK
  <2>2. \A b \in Appenders \ {a} : sending[b] # 0 => sending[b] \in loose'
    BY <2>1 DEF Unsent
  <2>3. ASSUME NEW b \in Appenders, NEW c \in Appenders, sending'[b] # 0, sending'[b] < sending'[c]
        PROVE  sending'[b] \in loose'
    <3>1. b # a
      BY <1>0, <2>1, <2>3
    <3>2. QED
      BY <2>1, <2>2, <2>3, <3>1
  <2>4. ASSUME NEW b \in Appenders, NEW i \in 1..Len(channel), sending'[b] # 0, sending'[b] < channel[i]
        PROVE  sending'[b] \in loose'
    <3>1. b # a
      BY <1>0, <2>1, <2>4
    <3>2. QED
      BY <2>1, <2>2, <2>4, <3>1
  <2>5. QED
    BY <2>1, <2>3, <2>4 DEF SendsInOrder
<1>2. ASSUME NEW a \in Appenders, Send(a) PROVE SendsInOrder'
  <2>1. /\ sending[a] # 0 /\ sending'[a] = 0 /\ loose' = loose
        /\ \A b \in Appenders \ {a} : sending'[b] = sending[b]
        /\ Len(channel') = Len(channel) + 1 /\ channel'[Len(channel) + 1] = sending[a]
        /\ \A i \in 1..Len(channel) : channel'[i] = channel[i]
    BY <1>0, <1>2 DEF Send, TypeOK
  <2>2. \A i \in 1..Len(channel') : channel'[i] = IF i = Len(channel) + 1 THEN sending[a] ELSE channel[i]
    BY <1>0, <2>1
  <2>3. ASSUME NEW b \in Appenders, NEW c \in Appenders, sending'[b] # 0, sending'[b] < sending'[c]
        PROVE  sending'[b] \in loose'
    BY <1>0, <2>1, <2>3 DEF SendsInOrder
  <2>4. ASSUME NEW b \in Appenders, NEW i \in 1..Len(channel'), sending'[b] # 0, sending'[b] < channel'[i]
        PROVE  sending'[b] \in loose'
    <3>1. CASE i = Len(channel) + 1
      BY <1>0, <2>1, <2>2, <2>4, <3>1 DEF SendsInOrder
    <3>2. CASE i # Len(channel) + 1
      <4>1. i \in 1..Len(channel)
        BY <1>0, <2>1, <3>2
      <4>2. QED
        BY <2>1, <2>4, <4>1 DEF SendsInOrder
    <3>3. QED
      BY <3>1, <3>2
  <2>5. ASSUME NEW i \in 1..Len(channel'), NEW j \in 1..Len(channel'), i < j, channel'[j] < channel'[i]
        PROVE  channel'[j] \in loose'
    <3>0. i \in 1..Len(channel) /\ channel'[i] = channel[i]
      BY <1>0, <2>1, <2>5
    <3>1. CASE j = Len(channel) + 1
      BY <2>1, <2>5, <3>0, <3>1 DEF SendsInOrder
    <3>2. CASE j # Len(channel) + 1
      <4>0. Len(channel) \in Nat /\ Len(channel') = Len(channel) + 1
        BY <1>0, <2>1
      <4>1. j \in 1..Len(channel)
        BY <3>2, <4>0
      <4>2. channel'[j] = channel[j]
        BY <2>1, <4>1
      <4>3. QED
        BY <2>1, <2>5, <3>0, <4>1, <4>2 DEF SendsInOrder
    <3>3. QED
      BY <3>1, <3>2
  <2>6. QED
    BY <2>3, <2>4, <2>5 DEF SendsInOrder
<1>3. ASSUME NEW f \in Foreign, InsertElsewhere(f) PROVE SendsInOrder'
  BY <1>3 DEF InsertElsewhere, SendsInOrder
<1>4. CASE Restart
  <2>1. channel' = <<>> /\ \A a \in Appenders : sending'[a] = 0
    BY <1>4 DEF Restart
  <2>2. QED
    BY <2>1 DEF SendsInOrder
<1>5. CASE UNCHANGED <<persisted, sending, channel, loose>>
  BY <1>5 DEF SendsInOrder
<1>6. QED
  BY <1>1, <1>2, <1>3, <1>4, <1>5, AppendSteps

\* An append loses nothing that is on its way to a subscriber.
LEMMA AppendLosesNothing ==
  ASSUME TypeOK, TypeOK', Durable, NothingLost,
         \/ \E a \in Appenders : Insert(a) \/ Send(a)
         \/ \E f \in Foreign : InsertElsewhere(f)
  PROVE  NothingLost'
<1>0. /\ persisted \in Nat /\ channel \in Seq(Nat) /\ Len(channel) \in Nat
      /\ \A a \in Appenders : sending[a] \in Nat /\ sending[a] <= persisted
      /\ \A s \in Subscribers : sub[s].pos \in Nat /\ sub[s].last \in Nat
  <2>1. ASSUME NEW s \in Subscribers PROVE sub[s].pos \in Nat /\ sub[s].last \in Nat
    BY SubscriptionFields DEF TypeOK
  <2>2. QED
    BY <2>1 DEF TypeOK, Durable
<1>1. ASSUME NEW a \in Appenders, Insert(a) PROVE NothingLost'
  <2>1. /\ channel' = channel /\ loose' = loose \cup Unsent /\ sub' = sub /\ sending[a] = 0
        /\ persisted' = persisted + 1
        /\ sending'[a] = persisted + 1 /\ \A b \in Appenders \ {a} : sending'[b] = sending[b]
    BY <1>1 DEF Insert, TypeOK
  <2>2. loose' \subseteq 1..persisted'
    <3>1. Unsent \subseteq 1..persisted
      BY <1>0 DEF Unsent
    <3>2. 1..persisted \subseteq 1..persisted'
      BY <1>0, <2>1
    <3>3. QED
      BY <2>1, <3>1, <3>2 DEF NothingLost
  <2>3. ASSUME NEW s \in Subscribers, sub[s].phase = "on", NEW n \in 1..persisted',
               n > sub[s].last, n \notin loose'
        PROVE  OnItsWay(s, n)'
    <3>1. CASE n = persisted'
      BY <2>1, <3>1 DEF OnItsWay, InFlight
    <3>2. CASE n # persisted'
      <4>1. n \in 1..persisted
        BY <1>0, <2>1, <3>2
      <4>2. OnItsWay(s, n)
        BY <2>1, <2>3, <4>1 DEF NothingLost
      <4>3. InFlight(n) => InFlight(n)'
        BY <1>0, <2>1, <4>1 DEF InFlight
      <4>4. QED
        BY <2>1, <4>2, <4>3 DEF OnItsWay, InBacklog, InChannel
    <3>3. QED
      BY <3>1, <3>2
  <2>4. QED
    BY <2>1, <2>2, <2>3 DEF NothingLost
<1>2. ASSUME NEW a \in Appenders, Send(a) PROVE NothingLost'
  <2>1. /\ sending[a] # 0 /\ sending'[a] = 0 /\ UNCHANGED <<persisted, sub, loose>>
        /\ \A b \in Appenders \ {a} : sending'[b] = sending[b]
        /\ Len(channel') = Len(channel) + 1 /\ channel'[Len(channel) + 1] = sending[a]
        /\ \A i \in 1..Len(channel) : channel'[i] = channel[i]
    BY <1>0, <1>2 DEF Send, TypeOK
  <2>2. ASSUME NEW s \in Subscribers, sub[s].phase # "off"
        PROVE  /\ sub[s].pos <= Len(channel) + 1
               /\ sub[s].pos <= Len(channel') + 1
    BY <1>0, <2>1, <2>2 DEF NothingLost
  <2>3. ASSUME NEW s \in Subscribers, sub[s].phase = "on", NEW n \in 1..persisted, OnItsWay(s, n)
        PROVE  OnItsWay(s, n)'
    <3>1. InBacklog(s, n) => InBacklog(s, n)'
      BY <2>1 DEF InBacklog
    <3>2. InChannel(s, n) => InChannel(s, n)'
      BY <1>0, <2>1 DEF InChannel
    <3>3. CASE sending[a] = n
      <4>1. sub'[s].pos <= Len(channel) + 1 /\ Len(channel) + 1 \in 1..Len(channel')
        BY <1>0, <2>1, <2>2, <2>3
      <4>2. InChannel(s, n)'
        BY <2>1, <3>3, <4>1 DEF InChannel
      <4>3. QED
        BY <4>2 DEF OnItsWay
    <3>4. CASE sending[a] # n
      <4>1. InFlight(n) => InFlight(n)'
        BY <2>1, <3>4 DEF InFlight
      <4>2. QED
        BY <2>3, <3>1, <3>2, <4>1 DEF OnItsWay
    <3>5. QED
      BY <3>3, <3>4
  <2>4. QED
    BY <2>1, <2>2, <2>3 DEF NothingLost
<1>3. ASSUME NEW f \in Foreign, InsertElsewhere(f) PROVE NothingLost'
  <2>1. /\ UNCHANGED <<channel, sending, sub>>
        /\ persisted' = persisted + 1 /\ loose' = loose \cup {persisted'}
    BY <1>3 DEF InsertElsewhere
  <2>2. loose' \subseteq 1..persisted'
    <3>1. loose \subseteq 1..persisted
      BY DEF NothingLost
    <3>2. QED
      BY <1>0, <2>1, <3>1
  <2>3. ASSUME NEW s \in Subscribers, sub[s].phase = "on", NEW n \in 1..persisted',
               n > sub[s].last, n \notin loose'
        PROVE  OnItsWay(s, n)'
    <3>1. n \in 1..persisted /\ n \notin loose
      BY <1>0, <2>1, <2>3
    <3>2. OnItsWay(s, n)
      BY <2>3, <3>1 DEF NothingLost
    <3>3. QED
      BY <2>1, <3>2 DEF OnItsWay, InBacklog, InChannel, InFlight
  <2>4. QED
    BY <2>1, <2>2, <2>3 DEF NothingLost
<1>4. QED
  BY <1>1, <1>2, <1>3

\* A step of one subscription moves its cursor over loose events only, and
\* keeps what it has not been given yet on its way.
LEMMA ReceiverSteps ==
  ASSUME TypeOK, TypeOK', Durable, Ahead, SendsInOrder, NothingLost, NEW s \in Subscribers,
         UNCHANGED <<persisted, sending, channel, loose>>,
         \/ sub'[s] = sub[s]
         \/ sub'[s] = Off(sub[s].last)
         \/ sub'[s] = Subscribing(sub[s].last)
         \/ ReadBacklog(s) \/ DeliverBacklog(s) \/ DeliverLive(s) \/ SkipLive(s)
  PROVE  /\ sub'[s].phase # "off" => sub'[s].pos <= Len(channel) + 1
         /\ sub'[s].phase = "on" =>
              \A n \in 1..persisted : n > sub'[s].last /\ n \notin loose => OnItsWay(s, n)'
         /\ \A n \in 1..persisted : sub[s].last < n /\ n < sub'[s].last => n \in loose
<1>0. /\ sub[s] \in Subscription /\ sub[s].last \in Nat /\ sub[s].upto \in Nat
      /\ sub[s].next \in Nat \ {0} /\ sub[s].pos \in Nat \ {0}
      /\ persisted \in Nat /\ Len(channel) \in Nat
      /\ \A i \in 1..Len(channel) : channel[i] \in Nat
      /\ \A a \in Appenders : sending[a] \in Nat
      /\ sub[s].last <= persisted /\ sub[s].upto <= persisted
      /\ sub[s].next <= sub[s].upto => sub[s].next = sub[s].last + 1
      /\ sub[s].phase # "off" => sub[s].pos <= Len(channel) + 1
  <2>1. sub[s] \in Subscription
    BY DEF TypeOK
  <2>2. /\ sub[s].last \in Nat /\ sub[s].upto \in Nat
        /\ sub[s].next \in Nat \ {0} /\ sub[s].pos \in Nat \ {0}
    BY <2>1, SubscriptionFields
  <2>3. /\ persisted \in Nat /\ Len(channel) \in Nat
        /\ \A i \in 1..Len(channel) : channel[i] \in Nat
        /\ \A a \in Appenders : sending[a] \in Nat
    BY DEF TypeOK
  <2>4. QED
    BY <2>1, <2>2, <2>3 DEF Durable, Ahead, NothingLost
<1>1. ASSUME NEW n \in 1..persisted, sub[s].phase = "on", n > sub[s].last, n \notin loose
      PROVE  OnItsWay(s, n)
  BY <1>1 DEF NothingLost
<1>2. \A n : InFlight(n)' <=> InFlight(n)
  BY DEF InFlight
<1>3. CASE sub'[s] = sub[s]
  BY <1>0, <1>1, <1>2, <1>3 DEF OnItsWay, InBacklog, InChannel
<1>4. CASE sub'[s] = Off(sub[s].last) \/ sub'[s] = Subscribing(sub[s].last)
  BY <1>0, <1>4 DEF Off, Subscribing
<1>5. CASE ReadBacklog(s)
  <2>1. /\ sub'[s].last = sub[s].last /\ sub'[s].next = sub[s].last + 1
        /\ sub'[s].upto = persisted /\ sub'[s].pos = sub[s].pos /\ sub[s].phase # "off"
    BY <1>0, <1>5 DEF ReadBacklog, TypeOK, Subscription
  <2>2. ASSUME NEW n \in 1..persisted, n > sub'[s].last PROVE OnItsWay(s, n)'
    BY <1>0, <2>1, <2>2 DEF OnItsWay, InBacklog
  <2>3. QED
    BY <1>0, <2>1, <2>2
<1>6. CASE DeliverBacklog(s)
  <2>1. /\ sub'[s].last = sub[s].next /\ sub'[s].next = sub[s].next + 1
        /\ sub'[s].upto = sub[s].upto /\ sub'[s].pos = sub[s].pos /\ sub[s].phase = "on"
        /\ sub[s].next = sub[s].last + 1
    BY <1>0, <1>6 DEF DeliverBacklog, TypeOK, Subscription
  <2>2. ASSUME NEW n \in 1..persisted, n > sub'[s].last, n \notin loose PROVE OnItsWay(s, n)'
    <3>1. OnItsWay(s, n)
      BY <1>0, <1>1, <2>1, <2>2
    <3>2. InBacklog(s, n) => InBacklog(s, n)'
      BY <1>0, <2>1, <2>2 DEF InBacklog
    <3>3. InChannel(s, n) => InChannel(s, n)'
      BY <2>1 DEF InChannel
    <3>4. QED
      BY <1>2, <3>1, <3>2, <3>3 DEF OnItsWay
  <2>3. QED
    BY <1>0, <2>1, <2>2
<1>7. CASE DeliverLive(s)
  <2>1. /\ sub'[s].last = channel[sub[s].pos] /\ sub'[s].next = sub[s].next
        /\ sub'[s].upto = sub[s].upto /\ sub'[s].pos = sub[s].pos + 1
        /\ sub[s].next > sub[s].upto /\ channel[sub[s].pos] > sub[s].last
        /\ sub[s].pos <= Len(channel) /\ sub[s].phase = "on"
    BY <1>0, <1>7 DEF DeliverLive, Readable, Drained, TypeOK, Subscription
  <2>2. sub[s].pos \in 1..Len(channel) /\ channel[sub[s].pos] \in Nat
    BY <1>0, <2>1
  <2>3. ASSUME NEW n \in 1..persisted, n > sub[s].last, n \notin loose
        PROVE  InFlight(n) \/ InChannel(s, n)
    <3>1. OnItsWay(s, n)
      BY <1>1, <2>1, <2>3
    <3>2. ~InBacklog(s, n)
      BY <1>0, <2>1 DEF InBacklog
    <3>3. QED
      BY <3>1, <3>2 DEF OnItsWay
  <2>4. ASSUME NEW n \in 1..persisted, n > sub'[s].last, n \notin loose PROVE OnItsWay(s, n)'
    <3>1. InFlight(n) \/ InChannel(s, n)
      BY <1>0, <2>1, <2>2, <2>3, <2>4
    <3>2. ASSUME NEW i \in 1..Len(channel), sub[s].pos <= i, channel[i] = n PROVE InChannel(s, n)'
      <4>1. i # sub[s].pos
        BY <2>1, <2>2, <2>4, <3>2
      <4>2. sub'[s].pos <= i
        BY <1>0, <2>1, <3>2, <4>1
      <4>3. QED
        BY <3>2, <4>2 DEF InChannel
    <3>3. QED
      BY <1>2, <3>1, <3>2 DEF OnItsWay, InChannel
  <2>5. ASSUME NEW n \in 1..persisted, n > sub[s].last, n < sub'[s].last PROVE n \in loose
    <3> SUFFICES ASSUME n \notin loose PROVE FALSE
      OBVIOUS
    <3>1. InFlight(n) \/ InChannel(s, n)
      BY <2>3, <2>5
    <3>2. CASE InFlight(n)
      BY <2>1, <2>2, <2>5, <3>2 DEF InFlight, SendsInOrder
    <3>3. ASSUME NEW i \in 1..Len(channel), sub[s].pos <= i, channel[i] = n PROVE FALSE
      <4>1. i # sub[s].pos
        BY <2>1, <2>2, <2>5, <3>3
      <4>2. sub[s].pos < i
        BY <1>0, <3>3, <4>1
      <4>3. QED
        BY <2>1, <2>2, <2>5, <3>3, <4>2 DEF SendsInOrder
    <3>4. QED
      BY <3>1, <3>2, <3>3 DEF InChannel
  <2>6. QED
    <3>1. sub'[s].pos <= Len(channel) + 1
      BY <1>0, <2>1
    <3>2. QED
      BY <2>4, <2>5, <3>1
<1>8. CASE SkipLive(s)
  <2>1. /\ sub'[s].last = sub[s].last /\ sub'[s].next = sub[s].next
        /\ sub'[s].upto = sub[s].upto /\ sub'[s].pos = sub[s].pos + 1
        /\ channel[sub[s].pos] <= sub[s].last
        /\ sub[s].pos <= Len(channel) /\ sub[s].phase = "on"
    BY <1>0, <1>8 DEF SkipLive, Readable, Drained, TypeOK, Subscription
  <2>2. ASSUME NEW n \in 1..persisted, n > sub'[s].last, n \notin loose PROVE OnItsWay(s, n)'
    <3>1. OnItsWay(s, n)
      BY <1>1, <2>1, <2>2
    <3>2. ASSUME NEW i \in 1..Len(channel), sub[s].pos <= i, channel[i] = n PROVE InChannel(s, n)'
      <4>1. i # sub[s].pos
        BY <1>0, <2>1, <2>2, <3>2
      <4>2. sub'[s].pos <= i
        BY <1>0, <2>1, <3>2, <4>1
      <4>3. QED
        BY <3>2, <4>2 DEF InChannel
    <3>3. InBacklog(s, n) => InBacklog(s, n)'
      BY <2>1 DEF InBacklog
    <3>4. QED
      BY <1>2, <3>1, <3>2, <3>3 DEF OnItsWay, InChannel
  <2>3. QED
    BY <1>0, <2>1, <2>2
<1>9. QED
  BY <1>3, <1>4, <1>5, <1>6, <1>7, <1>8

\* Every step keeps what is on its way, and moves cursors over loose events only.
LEMMA NothingLostKept ==
  ASSUME TypeOK, TypeOK', Durable, Ahead, SendsInOrder, NothingLost, [BusNext]_busVars
  PROVE  /\ NothingLost'
         /\ \A s \in Subscribers : \A n \in 1..persisted :
              sub[s].last < n /\ n < sub'[s].last => n \in loose
<1>0. \A s \in Subscribers : sub[s].last \in Nat
  <2>1. ASSUME NEW s \in Subscribers PROVE sub[s].last \in Nat
    BY SubscriptionFields DEF TypeOK
  <2>2. QED
    BY <2>1
<1>1. CASE \/ \E a \in Appenders : Insert(a) \/ Send(a)
           \/ \E f \in Foreign : InsertElsewhere(f)
  <2>1. sub' = sub
    BY <1>1 DEF Insert, Send, InsertElsewhere
  <2>2. QED
    BY <1>0, <1>1, <2>1, AppendLosesNothing
<1>2. CASE Restart
  <2>1. /\ \A s \in Subscribers : sub'[s].phase = "off" /\ sub'[s].last = sub[s].last
        /\ persisted' = persisted /\ loose' = loose
    BY <1>2 DEF Restart, Off
  <2>2. QED
    BY <1>0, <2>1 DEF NothingLost
<1>3. CASE UNCHANGED <<persisted, sending, channel, loose>>
  <2>1. ASSUME NEW s \in Subscribers
        PROVE  /\ sub'[s].phase # "off" => sub'[s].pos <= Len(channel) + 1
               /\ sub'[s].phase = "on" =>
                    \A n \in 1..persisted : n > sub'[s].last /\ n \notin loose => OnItsWay(s, n)'
               /\ \A n \in 1..persisted : sub[s].last < n /\ n < sub'[s].last => n \in loose
    BY <1>3, SubscriptionSteps, ReceiverSteps
  <2>2. QED
    BY <1>3, <2>1 DEF NothingLost
<1>4. QED
  BY <1>1, <1>2, <1>3, AppendSteps

\* A step of the bus is a step of the feed or changes nothing of it.
LEMMA FeedSteps ==
  ASSUME TypeOK, TypeOK', Durable, Ahead, SendsInOrder, NothingLost, [BusNext]_busVars
  PROVE  [Feed!Next]_(Feed!vars)
<1> DEFINE cursor == [s \in Subscribers |-> sub[s].last]
<1>0. persisted \in Nat /\ \A s \in Subscribers : sub[s].last \in Nat /\ sub'[s].last \in Nat
  <2>1. ASSUME NEW s \in Subscribers PROVE sub[s].last \in Nat /\ sub'[s].last \in Nat
    BY SubscriptionFields DEF TypeOK
  <2>2. QED
    BY <2>1 DEF TypeOK
<1>1. CASE (\E a \in Appenders : Insert(a)) \/ (\E f \in Foreign : InsertElsewhere(f))
  <2>1. persisted' = persisted + 1 /\ cursor' = cursor /\ loose \subseteq loose'
    BY <1>1 DEF Insert, InsertElsewhere
  <2>2. loose' \subseteq 1..persisted'
    BY NothingLostKept DEF NothingLost
  <2>3. QED
    BY <2>1, <2>2 DEF Feed!Next, Feed!Append
<1>2. ASSUME NEW a \in Appenders, Send(a) PROVE UNCHANGED Feed!vars
  BY <1>2 DEF Send, Feed!vars
<1>3. ASSUME NEW s \in Subscribers, SubscribeLive(s) \/ Receive(s) \/ Disconnect(s)
      PROVE  [Feed!Next]_(Feed!vars)
  <2>1. /\ persisted' = persisted /\ loose' = loose
        /\ \A r \in Subscribers \ {s} : sub'[r] = sub[r]
    BY <1>3 DEF SubscribeLive, Receive, ReadBacklog, DeliverBacklog, DeliverLive, SkipLive,
                Resubscribe, Disconnect, TypeOK
  <2>2. cursor' = [cursor EXCEPT ![s] = sub'[s].last] /\ cursor[s] = sub[s].last
    BY <2>1
  <2>3. CASE sub'[s].last = sub[s].last
    <3>1. cursor' = cursor
      BY <2>1, <2>3
    <3>2. QED
      BY <2>1, <3>1 DEF Feed!vars
  <2>4. CASE sub'[s].last # sub[s].last
    <3>1. sub'[s].last <= persisted /\ sub[s].last < sub'[s].last
      BY <1>0, <2>1, <2>4, DurableKept DEF Durable
    <3>2. sub'[s].last \in 1..persisted
      BY <1>0, <3>1
    <3>3. \A m \in 1..persisted : cursor[s] < m /\ m < sub'[s].last => m \in loose
      BY <2>2, NothingLostKept
    <3>4. Feed!Deliver(s)
      BY <2>1, <2>2, <3>1, <3>2, <3>3 DEF Feed!Deliver
    <3>5. QED
      BY <3>4 DEF Feed!Next
  <2>5. QED
    BY <2>3, <2>4
<1>4. CASE Restart
  <2>1. cursor' = cursor /\ persisted' = persisted /\ loose' = loose
    BY <1>4 DEF Restart, Off
  <2>2. QED
    BY <2>1 DEF Feed!vars
<1>5. CASE UNCHANGED busVars
  BY <1>5 DEF busVars, Feed!vars
<1>6. QED
  BY <1>1, <1>2, <1>3, <1>4, <1>5 DEF BusNext

\* The bus implements EventFeed: subscribe_since and the re-subscription on
\* Lagged give every subscriber every event in order and once, through lag,
\* disconnects and restarts and for any channel capacity, except events of
\* another process and events overtaken by a later insert.
THEOREM Implements == BusSpec => GapFree
<1>1. BusInit => Durable /\ Ahead /\ SendsInOrder /\ NothingLost /\ Feed!Init
  <2> SUFFICES ASSUME BusInit PROVE SendsInOrder /\ NothingLost /\ Feed!Init
    BY DurableInit
  <2>1. SendsInOrder /\ NothingLost
    BY DEF BusInit, SendsInOrder, NothingLost, Off
  <2>2. [s \in Subscribers |-> sub[s].last] = [s \in Subscribers |-> 0]
    BY DEF BusInit, Off
  <2>3. QED
    BY <2>1, <2>2 DEF BusInit, Feed!Init
<1>2. TypeOK /\ TypeOK' /\ Durable /\ Ahead /\ SendsInOrder /\ NothingLost /\ [BusNext]_busVars
        => Durable' /\ Ahead' /\ SendsInOrder' /\ NothingLost' /\ [Feed!Next]_(Feed!vars)
  BY DurableKept, SendsKept, NothingLostKept, FeedSteps
<1>3. BusSpec => []TypeOK
  BY TypeCorrect
<1>4. QED
  BY <1>1, <1>2, <1>3, PTL DEF BusSpec, GapFree, Feed!Spec

-----------------------------------------------------------------------------
(* The knowledge index.                                                    *)


\* A row is written by a generation that was published, and retired, if at all,
\* by one that was.
WellFormed(r) ==
  /\ r = [path |-> r.path, content |-> r.content, from |-> r.from, to |-> r.to]
  /\ r.from \in Nat /\ r.from <= Current
  /\ r.to \in Nat /\ r.to <= Current

\* The inductive invariant: generations are numbered and one of them is the
\* newest, no row is ahead of it, and a prune under way keeps it.
SnapInv ==
  /\ Generations \subseteq Nat \ {0}
  /\ Generations = {} \/ \E g \in Generations : IsCurrent(g)
  /\ \A r \in fileRows : WellFormed(r)
  /\ \A r \in factRows : WellFormed(r)
  /\ prune \in Nat
  /\ prune # 0 => Generations # {} /\ prune <= Current

-----------------------------------------------------------------------------
\* The current generation is the newest one published.
LEMMA CurrentIsNewest ==
  ASSUME Generations \subseteq Nat \ {0}, Generations = {} \/ \E g \in Generations : IsCurrent(g)
  PROVE  /\ Current \in Nat
         /\ Generations # {} => Current \in Generations
         /\ \A g \in Generations : g <= Current
<1>1. CASE Generations = {}
  BY <1>1 DEF Current
<1>2. CASE Generations # {}
  <2>1. \E g \in Generations : IsCurrent(g)
    BY <1>2
  <2>2. Current = CHOOSE g \in Generations : IsCurrent(g)
    BY <1>2 DEF Current
  <2>3. Current \in Generations /\ IsCurrent(Current)
    BY <2>1, <2>2
  <2>4. QED
    BY <2>3 DEF IsCurrent
<1>3. QED
  BY <1>1, <1>2

\* A newest generation, once there is one, is the current generation.
LEMMA NewestIsCurrent ==
  ASSUME NEW g, Generations \subseteq Nat \ {0}, IsCurrent(g)
  PROVE  Current = g
<1>1. g \in Generations /\ \A h \in Generations : h <= g
  BY DEF IsCurrent
<1>2. \E h \in Generations : IsCurrent(h)
  BY <1>1
<1>3. Current \in Generations /\ \A h \in Generations : h <= Current
  BY <1>1, <1>2, CurrentIsNewest
<1>4. g <= Current /\ Current <= g
  BY <1>1, <1>3
<1>5. QED
  BY <1>1, <1>3, <1>4

Shaped(rows) ==
  \A r \in rows : /\ r = [path |-> r.path, content |-> r.content, from |-> r.from, to |-> r.to]
                  /\ r.from \in Nat /\ r.to \in Nat
AllFrom(rows, g) == \A r \in rows : r.from = g

\* Retiring rows at a generation leaves every earlier snapshot as it was.
LEMMA RetiredStable ==
  ASSUME NEW rows, NEW paths, NEW new, NEW g \in Nat, NEW n \in Nat, n < g, g # 0,
         Shaped(rows), AllFrom(new, g)
  PROVE  At(Retired(rows, paths, g) \union new, n) = At(rows, n)
<1> DEFINE Step(r) == IF r.path \in paths /\ r.to = NotRetired THEN [r EXCEPT !.to = g] ELSE r
           Seen(r) == [path |-> r.path, content |-> r.content]
<1>1. ASSUME NEW r \in rows
      PROVE  Seen(Step(r)) = Seen(r) /\ (ValidAt(Step(r), n) <=> ValidAt(r, n))
  <2>0. /\ r = [path |-> r.path, content |-> r.content, from |-> r.from, to |-> r.to]
        /\ r.from \in Nat /\ r.to \in Nat
    BY DEF Shaped
  <2>1. CASE r.path \in paths /\ r.to = NotRetired
    <3>1. Step(r) = [path |-> r.path, content |-> r.content, from |-> r.from, to |-> g]
      BY <2>0, <2>1
    <3>2. QED
      BY <2>0, <2>1, <3>1 DEF ValidAt, NotRetired
  <2>2. CASE ~(r.path \in paths /\ r.to = NotRetired)
    BY <2>2
  <2>3. QED
    BY <2>1, <2>2
<1>2. \A r \in new : ~ValidAt(r, n)
  BY DEF ValidAt, AllFrom
<1>3. Retired(rows, paths, g) = {Step(r) : r \in rows}
  BY DEF Retired
<1>4. ASSUME NEW s PROVE s \in At(rows, n) <=> \E r \in rows : ValidAt(r, n) /\ s = Seen(r)
  BY DEF At
<1>5. ASSUME NEW s
      PROVE  s \in At(Retired(rows, paths, g) \union new, n)
               <=> \E x \in Retired(rows, paths, g) \union new : ValidAt(x, n) /\ s = Seen(x)
  BY DEF At
<1>6. ASSUME NEW s
      PROVE  (\E x \in Retired(rows, paths, g) \union new : ValidAt(x, n) /\ s = Seen(x))
               <=> \E r \in rows : ValidAt(Step(r), n) /\ s = Seen(Step(r))
  <2> HIDE DEF Step, Seen
  <2> QED
    BY <1>2, <1>3
<1>7. ASSUME NEW s
      PROVE  s \in At(Retired(rows, paths, g) \union new, n) <=> s \in At(rows, n)
  <2> HIDE DEF Step, Seen
  <2> QED
    BY <1>1, <1>4, <1>5, <1>6
<1>8. QED
  BY <1>7

\* Every row a publish leaves is of a generation published by then.
LEMMA RetiredWellFormed ==
  ASSUME NEW rows, NEW paths, NEW scan, NEW inserted, NEW g \in Nat,
         \A r \in rows : WellFormed(r), Current \in Nat, Current <= g, Current' = g,
         NEW r \in Retired(rows, paths, g) \union NewRows(scan, inserted, g)
  PROVE  WellFormed(r)'
<1>1. CASE r \in NewRows(scan, inserted, g)
  BY <1>1 DEF NewRows, WellFormed, NotRetired
<1>2. CASE r \in Retired(rows, paths, g)
  <2>1. PICK x \in rows : r = IF x.path \in paths /\ x.to = NotRetired THEN [x EXCEPT !.to = g] ELSE x
    BY <1>2 DEF Retired
  <2>2. WellFormed(x)
    OBVIOUS
  <2>3. CASE x.path \in paths /\ x.to = NotRetired
    <3>1. r = [path |-> x.path, content |-> x.content, from |-> x.from, to |-> g]
      BY <2>1, <2>2, <2>3 DEF WellFormed
    <3>2. QED
      BY <2>2, <3>1 DEF WellFormed
  <2>4. CASE ~(x.path \in paths /\ x.to = NotRetired)
    BY <2>1, <2>2, <2>4 DEF WellFormed
  <2>5. QED
    BY <2>3, <2>4
<1>3. QED
  BY <1>1, <1>2

\* What a publish does to the generations, the rows and the snapshots.
LEMMA PublishKeeps ==
  ASSUME SnapInv, NEW scan, NEW removed, NEW opts, Publish(scan, removed, opts), prune' = prune
  PROVE  /\ SnapInv'
         /\ \A n \in Generations : /\ At(fileRows, n)' = At(fileRows, n)
                                   /\ At(factRows, n)' = At(factRows, n)
<1> DEFINE g == Generation(scan, removed, opts)
           retiring == Modified(scan, opts) \union Gone(scan, removed, opts)
           inserted == Added(scan) \union Modified(scan, opts)
<1>1. CASE g \in Generations
  <2>1. UNCHANGED <<fileRows, factRows, stages>>
    BY <1>1 DEF Publish, store
  <2>2. Current' = Current /\ Generations' = Generations
    BY <2>1 DEF Current, Generations, IsCurrent
  <2>3. QED
    BY <2>1, <2>2 DEF SnapInv, WellFormed, At, ValidAt, IsCurrent
<1>2. CASE g \notin Generations
  <2>1. /\ fileRows' = Retired(fileRows, retiring, g) \union NewRows(scan, inserted, g)
        /\ factRows' = Retired(factRows, retiring, g) \union
                         (IF opts.stage = "complete" THEN NewRows(scan, inserted, g) ELSE {})
        /\ stages' = [h \in Generations \union {g} |-> IF h = g THEN opts.stage ELSE stages[h]]
    BY <1>2 DEF Publish
  <2>2. /\ Current \in Nat
        /\ Generations # {} => Current \in Generations
        /\ \A h \in Generations : h <= Current
    BY CurrentIsNewest DEF SnapInv
  <2>3. g = Current + 1
    BY <1>2, <2>2 DEF Generation
  <2>4. g \in Nat \ {0} /\ Current < g /\ Current <= g
    BY <2>2, <2>3
  <2>5. Generations' = Generations \union {g}
    BY <2>1 DEF Generations
  <2>6. Generations' \subseteq Nat \ {0}
    BY <2>4, <2>5 DEF SnapInv
  <2>7. g \in Generations' /\ \A h \in Generations' : h <= g
    <3>1. \A h \in Generations : h <= g
      BY <2>2, <2>4 DEF SnapInv
    <3>2. QED
      BY <2>4, <2>5, <3>1
  <2>8. Current' = g
    <3>1. Current' = CHOOSE h \in Generations' : IsCurrent(h)'
      BY <2>5 DEF Current
    <3>2. \E h \in Generations' : IsCurrent(h)'
      BY <2>7 DEF IsCurrent
    <3>3. Current' \in Generations' /\ \A h \in Generations' : h <= Current'
      BY <3>1, <3>2 DEF IsCurrent
    <3>4. g <= Current' /\ Current' <= g
      BY <2>7, <3>3
    <3>5. Current' \in Nat
      BY <2>6, <3>3
    <3>6. QED
      BY <2>4, <3>4, <3>5
  <2>9. \A r \in fileRows' : WellFormed(r)'
    BY <2>1, <2>2, <2>4, <2>8, RetiredWellFormed DEF SnapInv
  <2>10. \A r \in factRows' : WellFormed(r)'
    <3>1. factRows' \subseteq Retired(factRows, retiring, g) \union NewRows(scan, inserted, g)
      BY <2>1
    <3>2. \A r \in Retired(factRows, retiring, g) \union NewRows(scan, inserted, g) : WellFormed(r)'
      BY <2>2, <2>4, <2>8, RetiredWellFormed DEF SnapInv
    <3>3. QED
      BY <3>1, <3>2
  <2>11. SnapInv'
    <3>1. prune' \in Nat /\ (prune' # 0 => Generations' # {} /\ prune' <= Current')
      BY <2>2, <2>3, <2>5, <2>8 DEF SnapInv
    <3>2. \E h \in Generations' : IsCurrent(h)'
      BY <2>7 DEF IsCurrent
    <3>3. QED
      BY <2>6, <2>9, <2>10, <3>1, <3>2 DEF SnapInv
  <2>12. ASSUME NEW n \in Generations
         PROVE  At(fileRows, n)' = At(fileRows, n) /\ At(factRows, n)' = At(factRows, n)
    <3>1. n \in Nat /\ n < g /\ g \in Nat /\ g # 0
      BY <2>2, <2>4, n \in Nat DEF SnapInv
    <3>2. Shaped(fileRows) /\ Shaped(factRows)
      BY DEF SnapInv, WellFormed, Shaped
    <3>3. AllFrom(NewRows(scan, inserted, g), g)
      BY DEF NewRows, AllFrom
    <3> DEFINE facts == IF opts.stage = "complete" THEN NewRows(scan, inserted, g) ELSE {}
    <3>4. AllFrom(facts, g)
      BY <3>3 DEF AllFrom
    <3> HIDE DEF g, retiring, inserted, facts
    <3>51. \A rows, paths, new : Shaped(rows) /\ AllFrom(new, g) =>
               At(Retired(rows, paths, g) \union new, n) = At(rows, n)
      BY <3>1, RetiredStable
    <3>5. At(Retired(fileRows, retiring, g) \union NewRows(scan, inserted, g), n) = At(fileRows, n)
      BY <3>51, <3>2, <3>3
    <3>6. At(Retired(factRows, retiring, g) \union facts, n) = At(factRows, n)
      BY <3>51, <3>2, <3>4
    <3>7. At(fileRows, n)' = At(fileRows', n) /\ At(factRows, n)' = At(factRows', n)
      BY DEF At, ValidAt
    <3>8. QED
      BY <2>1, <3>5, <3>6, <3>7 DEF facts, g, retiring, inserted
  <2>13. QED
    BY <2>11, <2>12
<1>3. QED
  BY <1>1, <1>2

\* A prune drops rows that no generation it keeps can see.
LEMMA KeptStable ==
  ASSUME NEW rows, NEW keep \in Nat, NEW n \in Nat, keep <= n,
         \A r \in rows : r.from \in Nat /\ r.to \in Nat
  PROVE  At(Kept(rows, keep), n) = At(rows, n)
<1>1. ASSUME NEW r \in rows, ValidAt(r, n) PROVE r \in Kept(rows, keep)
  BY <1>1 DEF ValidAt, Kept
<1>2. Kept(rows, keep) \subseteq rows
  BY DEF Kept
<1>3. {x \in Kept(rows, keep) : ValidAt(x, n)} = {x \in rows : ValidAt(x, n)}
  BY <1>1, <1>2
<1>4. QED
  BY <1>3 DEF At

LEMMA PruneKeeps ==
  ASSUME SnapInv, prune # 0, Prune(prune), prune' = 0
  PROVE  /\ SnapInv'
         /\ \A n \in Generations \intersect Generations' :
              At(fileRows, n)' = At(fileRows, n) /\ At(factRows, n)' = At(factRows, n)
<1>1. /\ Current \in Generations /\ Current \in Nat
      /\ \A h \in Generations : h <= Current
  BY CurrentIsNewest DEF SnapInv
<1>2. Generations' = {h \in Generations : prune <= h}
  BY DEF Prune, Generations
<1>3. Current \in Generations'
  BY <1>1, <1>2 DEF SnapInv
<1>4. (\A h \in Generations' : h <= Current) /\ Generations' \subseteq Nat \ {0}
  BY <1>1, <1>2 DEF SnapInv
<1>5. Current' = Current
  <2>1. Current' = CHOOSE h \in Generations' : IsCurrent(h)'
    BY <1>3 DEF Current
  <2>2. \E h \in Generations' : IsCurrent(h)'
    BY <1>3, <1>4 DEF IsCurrent
  <2>3. Current' \in Generations' /\ \A h \in Generations' : h <= Current'
    BY <2>1, <2>2 DEF IsCurrent
  <2>4. Current <= Current' /\ Current' <= Current /\ Current' \in Nat
    BY <1>3, <1>4, <2>3
  <2>5. QED
    BY <1>1, <2>4
<1>6. fileRows' \subseteq fileRows /\ factRows' \subseteq factRows
  BY DEF Prune, Kept
<1>7. SnapInv'
  <2>1. \E h \in Generations' : IsCurrent(h)'
    BY <1>3, <1>4 DEF IsCurrent
  <2>2. \A r : WellFormed(r) => WellFormed(r)'
    BY <1>5 DEF WellFormed
  <2>3. QED
    BY <1>4, <1>6, <2>1, <2>2 DEF SnapInv
<1>8. ASSUME NEW n \in Generations \intersect Generations'
      PROVE  At(fileRows, n)' = At(fileRows, n) /\ At(factRows, n)' = At(factRows, n)
  <2>1. n \in Nat /\ prune \in Nat /\ prune <= n
    BY <1>2, <1>4 DEF SnapInv
  <2>2. At(Kept(fileRows, prune), n) = At(fileRows, n) /\ At(Kept(factRows, prune), n) = At(factRows, n)
    BY <2>1, KeptStable DEF SnapInv, WellFormed
  <2>3. At(fileRows, n)' = At(fileRows', n) /\ At(factRows, n)' = At(factRows', n)
    BY DEF At, ValidAt
  <2>4. QED
    BY <2>2, <2>3 DEF Prune
<1>9. QED
  BY <1>7, <1>8

-----------------------------------------------------------------------------
\* No other step touches the tables.
LEMMA Untouched ==
  ASSUME SnapInv, UNCHANGED store, prune' = prune
  PROVE  /\ SnapInv'
         /\ \A n \in Generations : At(fileRows, n)' = At(fileRows, n) /\ At(factRows, n)' = At(factRows, n)
<1>1. UNCHANGED <<fileRows, factRows, stages>>
  BY DEF store
<1>2. Current' = Current /\ Generations' = Generations
  BY <1>1 DEF Current, Generations, IsCurrent
<1>3. QED
  BY <1>1, <1>2 DEF SnapInv, WellFormed, At, ValidAt, IsCurrent

\* Every step keeps the invariant and the snapshots.
LEMMA StepKeeps ==
  ASSUME SnapInv, [Next]_vars
  PROVE  /\ SnapInv'
         /\ \A n \in Generations \intersect Generations' :
              At(fileRows, n)' = At(fileRows, n) /\ At(factRows, n)' = At(factRows, n)
<1> USE MaxGenAssumption
<1>1. CASE UNCHANGED vars
  BY <1>1, Untouched DEF vars
<1>2. ASSUME NEW p, NEW c, Edit(p, c) PROVE UNCHANGED store /\ prune' = prune
  BY <1>2 DEF Edit
<1>3. ASSUME NEW i \in Indexers, Pipeline(i)
      PROVE  \/ UNCHANGED store /\ prune' = prune
             \/ Publish(ix[i].scan, Removed(i), Options(i)) /\ prune' = prune
  BY <1>3 DEF Pipeline, Begin, ScanOne, PublishScan, ReadFiles, ReadFacts, WriteGraph, EmbedOne,
              WriteVectors, Kill
<1>4. ASSUME NEW keep \in 1..MaxGen, BeginPrune(keep) PROVE SnapInv' /\ UNCHANGED store
  <2>1. UNCHANGED <<fileRows, factRows, stages>> /\ Generations # {}
        /\ prune' = IF keep < Current THEN keep ELSE Current
    BY <1>4 DEF BeginPrune, store
  <2>2. Current \in Nat
    BY CurrentIsNewest DEF SnapInv
  <2>3. Current' = Current /\ Generations' = Generations
    BY <2>1 DEF Current, Generations, IsCurrent
  <2>4. prune' \in Nat /\ prune' <= Current
    BY <2>1, <2>2
  <2>5. QED
    BY <2>1, <2>3, <2>4 DEF SnapInv, WellFormed, IsCurrent, store
<1>5. ASSUME EndPrune PROVE prune # 0 /\ Prune(prune) /\ prune' = 0
  BY <1>5 DEF EndPrune
<1>6. ASSUME Retrieve PROVE UNCHANGED store /\ prune' = prune
  BY <1>6 DEF Retrieve, BeginRetrieve, SearchHit, ReadBytes, ReadSymbols
<1>7. CASE UNCHANGED store /\ prune' = prune
  BY <1>7, Untouched
<1>8. CASE \E i \in Indexers : Publish(ix[i].scan, Removed(i), Options(i)) /\ prune' = prune
  BY <1>8, PublishKeeps
<1>9. CASE \E keep \in 1..MaxGen : BeginPrune(keep)
  BY <1>4, <1>9 DEF store, At, ValidAt
<1>10. CASE EndPrune
  BY <1>5, <1>10, PruneKeeps
<1>11. QED
  BY <1>1, <1>2, <1>3, <1>6, <1>7, <1>8, <1>9, <1>10 DEF Next

\* Publishing and pruning leave every snapshot a reader may hold as it was
\* (apply_generation and prune_before of store.rs).
THEOREM SnapshotsAreStable == Spec => SnapshotStable
<1>1. Init => SnapInv
  BY DEF Init, StoreInit, SnapInv, Generations
<1>2. SnapInv /\ [Next]_vars => SnapInv'
  BY StepKeeps
<1>3. SnapInv /\ [Next]_vars =>
        [\A g \in Generations \intersect Generations' :
           /\ At(fileRows, g)' = At(fileRows, g)
           /\ At(factRows, g)' = At(factRows, g)]_vars
  BY StepKeeps
<1>4. QED
  BY <1>1, <1>2, <1>3, PTL DEF Spec, SnapshotStable

-----------------------------------------------------------------------------
(* What the tables say of each other.                                      *)

SameFile(r, q) == r.path = q.path /\ r.content = q.content

\* A file has one content.
OneContent(files) == \A r, q \in files : r.path = q.path => r.content = q.content

\* Facts are those of a file that is indexed.
OfFiles(facts, files) == \A f \in facts : \E r \in files : SameFile(f, r)

\* A file without facts was written by a stage that writes none.
FactsWritten ==
  \A r \in Live(fileRows) :
    \/ r.from \in Generations => stages[r.from] = "files_only"
    \/ \E f \in Live(factRows) : SameFile(f, r)

TablesInv ==
  /\ Generations = {} => fileRows = {} /\ factRows = {}
  /\ OneContent(Live(fileRows))
  /\ OfFiles(Live(factRows), Live(fileRows))
  /\ FactsWritten
  /\ \A n \in Generations : /\ At(factRows, n) \subseteq At(fileRows, n)
                            /\ OneContent(At(fileRows, n))

\* What the current generation answers are the rows that are not retired.
LEMMA AtCurrent ==
  ASSUME NEW rows, NEW n \in Nat, Shaped(rows),
         \A r \in rows : r.from <= n /\ r.to <= n
  PROVE  \A e : e \in At(rows, n) <=> \E r \in Live(rows) : e = [path |-> r.path, content |-> r.content]
<1>1. \A r \in rows : ValidAt(r, n) <=> r \in Live(rows)
  BY DEF ValidAt, Live, NotRetired, Shaped
<1>2. Live(rows) \subseteq rows
  BY DEF Live
<1>3. QED
  BY <1>1, <1>2 DEF At

\* What is not retired after a publish: what was and is not rewritten, and what is new.
LEMMA LiveAfter ==
  ASSUME NEW rows, NEW paths, NEW new, NEW g, g # 0, Shaped(rows), \A r \in new : r.to = NotRetired
  PROVE  \A r : r \in Live(Retired(rows, paths, g) \union new)
                  <=> (r \in Live(rows) /\ r.path \notin paths) \/ r \in new
<1> DEFINE Step(r) == IF r.path \in paths /\ r.to = NotRetired THEN [r EXCEPT !.to = g] ELSE r
<1>1. \A r : r \in Retired(rows, paths, g) <=> \E x \in rows : r = Step(x)
  BY DEF Retired
<1>2. ASSUME NEW x \in rows, x.path \in paths /\ x.to = NotRetired PROVE Step(x).to # NotRetired
  <2>1. Step(x) = [path |-> x.path, content |-> x.content, from |-> x.from, to |-> g]
    BY <1>2 DEF Shaped
  <2>2. QED
    BY <2>1 DEF NotRetired
<1>3. \A x \in rows : ~ (x.path \in paths /\ x.to = NotRetired) => Step(x) = x
  OBVIOUS
<1> HIDE DEF Step
<1>4. \A r : r \in Live(Retired(rows, paths, g))
                <=> \E x \in rows : r = Step(x) /\ r.to = NotRetired
  BY <1>1 DEF Live
<1>5. \A r : (\E x \in rows : r = Step(x) /\ r.to = NotRetired) <=> r \in Live(rows) /\ r.path \notin paths
  BY <1>2, <1>3 DEF Live
<1>6. \A r : r \in Live(Retired(rows, paths, g) \union new)
               <=> r \in Live(Retired(rows, paths, g)) \/ r \in new
  BY DEF Live
<1>7. QED
  BY <1>4, <1>5, <1>6

LEMMA NewRowsAre ==
  ASSUME NEW scan, NEW paths, NEW g
  PROVE  /\ \A r \in NewRows(scan, paths, g) :
              r.path \in paths /\ r.content = scan[r.path] /\ r.from = g /\ r.to = NotRetired
         /\ \A p \in paths : \E r \in NewRows(scan, paths, g) : r.path = p /\ r.content = scan[p] /\ r.from = g
<1>1. \A r \in NewRows(scan, paths, g) :
        r.path \in paths /\ r.content = scan[r.path] /\ r.from = g /\ r.to = NotRetired
  BY DEF NewRows
<1>2. ASSUME NEW p \in paths
      PROVE  \E r \in NewRows(scan, paths, g) : r.path = p /\ r.content = scan[p] /\ r.from = g
  <2> DEFINE r == [path |-> p, content |-> scan[p], from |-> g, to |-> NotRetired]
  <2>1. r \in NewRows(scan, paths, g)
    BY DEF NewRows
  <2>2. r.path = p /\ r.content = scan[p] /\ r.from = g
    OBVIOUS
  <2> QED
    BY <2>1, <2>2
<1>3. QED
  BY <1>1, <1>2

\* What a publish that makes a generation leaves live.
Rewritten(scan, removed, opts) == Modified(scan, opts) \union Gone(scan, removed, opts)
Inserted(scan, opts) == Added(scan) \union Modified(scan, opts)

LEMMA PublishedRows ==
  ASSUME SnapInv, NEW scan, NEW removed, NEW opts, Publish(scan, removed, opts),
         Generation(scan, removed, opts) \notin Generations
  PROVE  /\ Current \in Nat /\ Generation(scan, removed, opts) = Current + 1
         /\ Current' = Current + 1 /\ Generations' = Generations \union {Current + 1}
         /\ \A r : r \in Live(fileRows') <=>
                     (r \in Live(fileRows) /\ r.path \notin Rewritten(scan, removed, opts))
                     \/ r \in NewRows(scan, Inserted(scan, opts), Current + 1)
         /\ \A r : r \in Live(factRows') <=>
                     (r \in Live(factRows) /\ r.path \notin Rewritten(scan, removed, opts))
                     \/ (opts.stage = "complete" /\ r \in NewRows(scan, Inserted(scan, opts), Current + 1))
         /\ stages' = [h \in Generations \union {Current + 1} |->
                         IF h = Current + 1 THEN opts.stage ELSE stages[h]]
<1> DEFINE g == Generation(scan, removed, opts)
           p == Rewritten(scan, removed, opts)
           new == NewRows(scan, Inserted(scan, opts), g)
           facts == IF opts.stage = "complete" THEN new ELSE {}
<1>1. /\ fileRows' = Retired(fileRows, p, g) \union new
      /\ factRows' = Retired(factRows, p, g) \union facts
      /\ stages' = [h \in Generations \union {g} |-> IF h = g THEN opts.stage ELSE stages[h]]
  BY DEF Publish, Rewritten, Inserted
<1>2. Current \in Nat /\ (Generations # {} => Current \in Generations) /\ \A h \in Generations : h <= Current
  BY CurrentIsNewest DEF SnapInv
<1>3. g = Current + 1
  BY <1>2 DEF Generation
<1>4. Generations' = Generations \union {g} /\ g \in Nat /\ g # 0
  BY <1>1, <1>2, <1>3 DEF Generations
<1>5. Current' = g
  <2>1. g \in Generations' /\ \A h \in Generations' : h <= g
    BY <1>2, <1>3, <1>4 DEF SnapInv
  <2>2. Current' = CHOOSE h \in Generations' : IsCurrent(h)'
    BY <2>1 DEF Current
  <2>3. \E h \in Generations' : IsCurrent(h)'
    BY <2>1 DEF IsCurrent
  <2>4. Current' \in Generations' /\ \A h \in Generations' : h <= Current'
    BY <2>2, <2>3 DEF IsCurrent
  <2>5. g <= Current' /\ Current' <= g /\ Current' \in Nat
    BY <1>4, <2>1, <2>4 DEF SnapInv
  <2>6. QED
    BY <1>4, <2>5
<1>6. /\ \A r \in new : r.to = NotRetired
      /\ \A r \in facts : r.to = NotRetired
  BY NewRowsAre
<1>7. Shaped(fileRows) /\ Shaped(factRows)
  BY DEF SnapInv, WellFormed, Shaped
<1>8. \A r : r \in facts <=> opts.stage = "complete" /\ r \in new
  OBVIOUS
<1> HIDE DEF g, p, new, facts
<1>9. \A r : r \in Live(fileRows') <=> (r \in Live(fileRows) /\ r.path \notin p) \/ r \in new
  BY <1>1, <1>4, <1>6, <1>7, LiveAfter
<1>10. \A r : r \in Live(factRows') <=> (r \in Live(factRows) /\ r.path \notin p) \/ r \in facts
  BY <1>1, <1>4, <1>6, <1>7, LiveAfter
<1>11. QED
  BY <1>1, <1>2, <1>3, <1>4, <1>5, <1>8, <1>9, <1>10 DEF g, p, new

LEMMA HashOf ==
  ASSUME OneContent(Live(fileRows)), NEW r \in Live(fileRows)
  PROVE  LiveHash(r.path) = r.content
BY DEF OneContent, LiveHash

LEMMA ExactAt ==
  ASSUME NEW files, NEW facts, NEW n \in Nat, Shaped(files), Shaped(facts),
         \A r \in files : r.from <= n /\ r.to <= n,
         \A r \in facts : r.from <= n /\ r.to <= n,
         OneContent(Live(files)), OfFiles(Live(facts), Live(files))
  PROVE  At(facts, n) \subseteq At(files, n) /\ OneContent(At(files, n))
<1>1. /\ \A e : e \in At(files, n) <=> \E r \in Live(files) : e = [path |-> r.path, content |-> r.content]
      /\ \A e : e \in At(facts, n) <=> \E r \in Live(facts) : e = [path |-> r.path, content |-> r.content]
  BY AtCurrent
<1>2. ASSUME NEW e \in At(facts, n) PROVE e \in At(files, n)
  <2>1. PICK f \in Live(facts) : e = [path |-> f.path, content |-> f.content]
    BY <1>1
  <2>2. PICK r \in Live(files) : f.path = r.path /\ f.content = r.content
    BY DEF OfFiles, SameFile
  <2>3. QED
    BY <1>1, <2>1, <2>2
<1>3. OneContent(At(files, n))
  BY <1>1 DEF OneContent
<1>4. QED
  BY <1>2, <1>3

\* A publish leaves the tables as they should be.
LEMMA PublishTables ==
  ASSUME SnapInv, TablesInv, NEW scan, NEW removed, NEW opts, opts.stage \in Stages,
         Publish(scan, removed, opts), prune' = prune
  PROVE  TablesInv'
<1>1. CASE Generation(scan, removed, opts) \in Generations
  <2>1. UNCHANGED <<fileRows, factRows, stages>>
    BY <1>1 DEF Publish, store
  <2>2. Generations' = Generations
    BY <2>1 DEF Generations
  <2>3. QED
    BY <2>1, <2>2 DEF TablesInv, OneContent, OfFiles, FactsWritten, At, ValidAt, Live
<1>2. CASE Generation(scan, removed, opts) \notin Generations
  <2> DEFINE g == Current + 1
             p == Rewritten(scan, removed, opts)
             ins == Inserted(scan, opts)
             new == NewRows(scan, ins, g)
  <2>1. /\ Current \in Nat /\ Current' = g /\ Generations' = Generations \union {g}
        /\ \A r : r \in Live(fileRows') <=> (r \in Live(fileRows) /\ r.path \notin p) \/ r \in new
        /\ \A r : r \in Live(factRows') <=> (r \in Live(factRows) /\ r.path \notin p)
                                            \/ (opts.stage = "complete" /\ r \in new)
        /\ stages' = [h \in Generations \union {g} |-> IF h = g THEN opts.stage ELSE stages[h]]
    BY <1>2, PublishedRows
  <2>2. \A r \in Live(fileRows) : r.path \notin p => r.path \notin ins
    <3>1. \A r \in Live(fileRows) : r.path \in LivePaths
      BY DEF LivePaths
    <3>2. QED
      BY <3>1 DEF Rewritten, Inserted, Added
  <2>3. /\ \A r \in new : r.path \in ins /\ r.content = scan[r.path] /\ r.from = g
        /\ \A q \in ins : \E r \in new : r.path = q /\ r.content = scan[q] /\ r.from = g
    BY NewRowsAre
  <2>4. /\ g \in Nat
        /\ \A r \in Live(fileRows) : r.from # g
    BY <2>1 DEF SnapInv, WellFormed, Live
  <2> HIDE DEF g, p, ins, new
  <2>5. OneContent(Live(fileRows'))
    BY <2>1, <2>2, <2>3 DEF OneContent, TablesInv
  <2>6. OfFiles(Live(factRows'), Live(fileRows'))
    <3> SUFFICES ASSUME NEW f \in Live(factRows') PROVE \E r \in Live(fileRows') : SameFile(f, r)
      BY DEF OfFiles
    <3>1. CASE f \in new
      BY <2>1, <3>1 DEF SameFile
    <3>2. CASE f \in Live(factRows) /\ f.path \notin p
      BY <2>1, <3>2 DEF TablesInv, OfFiles, SameFile
    <3>3. QED
      BY <2>1, <3>1, <3>2
  <2>7. ASSUME NEW r \in Live(fileRows')
        PROVE  \/ r.from \in Generations' => stages'[r.from] = "files_only"
               \/ \E f \in Live(factRows') : SameFile(f, r)
    <3>1. CASE r \in new /\ opts.stage = "complete"
      BY <2>1, <3>1 DEF SameFile
    <3>2. CASE r \in new /\ opts.stage # "complete"
      BY <2>1, <2>3, <3>2 DEF Stages
    <3>3. CASE r \in Live(fileRows) /\ r.path \notin p
      <4>1. CASE r.from \in Generations => stages[r.from] = "files_only"
        <5>1. r.from # g
          BY <2>4, <3>3
        <5>2. QED
          BY <2>1, <4>1, <5>1
      <4>2. CASE \E f \in Live(factRows) : SameFile(f, r)
        BY <2>1, <3>3, <4>2 DEF SameFile
      <4>3. QED
        BY <3>3, <4>1, <4>2 DEF TablesInv, FactsWritten
    <3>4. QED
      BY <2>1, <3>1, <3>2, <3>3
  <2>8. SnapInv' /\ \A n \in Generations : /\ At(fileRows, n)' = At(fileRows, n)
                                           /\ At(factRows, n)' = At(factRows, n)
    BY PublishKeeps
  <2>9. /\ Shaped(fileRows') /\ Shaped(factRows')
        /\ \A r \in fileRows' : r.from <= g /\ r.to <= g
        /\ \A r \in factRows' : r.from <= g /\ r.to <= g
    BY <2>1, <2>8 DEF SnapInv, WellFormed, Shaped
  <2>10. At(factRows', g) \subseteq At(fileRows', g) /\ OneContent(At(fileRows', g))
    BY <2>4, <2>5, <2>6, <2>9, ExactAt
  <2>11. \A n : At(fileRows, n)' = At(fileRows', n) /\ At(factRows, n)' = At(factRows', n)
    BY DEF At, ValidAt
  <2>12. \A n \in Generations' : At(factRows', n) \subseteq At(fileRows', n) /\ OneContent(At(fileRows', n))
    BY <2>1, <2>8, <2>10, <2>11 DEF TablesInv
  <2>13. /\ OneContent(Live(fileRows))' <=> OneContent(Live(fileRows'))
         /\ OfFiles(Live(factRows), Live(fileRows))' <=> OfFiles(Live(factRows'), Live(fileRows'))
    BY DEF OneContent, OfFiles, SameFile, Live
  <2>14. FactsWritten'
    BY <2>7 DEF FactsWritten, Live, SameFile
  <2>15. \A n \in Generations' : /\ At(factRows, n)' \subseteq At(fileRows, n)'
                                 /\ OneContent(At(fileRows, n))'
    BY <2>11, <2>12 DEF OneContent
  <2>16. Generations' # {}
    BY <2>1
  <2>17. QED
    BY <2>5, <2>6, <2>13, <2>14, <2>15, <2>16 DEF TablesInv
<1>3. QED
  BY <1>1, <1>2

\* A prune leaves every row that is not retired.
LEMMA PruneTables ==
  ASSUME SnapInv, TablesInv, prune # 0, Prune(prune), prune' = 0
  PROVE  TablesInv'
<1>1. /\ Live(fileRows') = Live(fileRows) /\ Live(factRows') = Live(factRows)
  BY DEF Prune, Kept, Live
<1>2. /\ stages' = [h \in {h \in Generations : prune <= h} |-> stages[h]]
      /\ Generations' = {h \in Generations : prune <= h}
  BY DEF Prune, Generations
<1>3. Generations # {} /\ Current \in Generations /\ prune <= Current
  BY CurrentIsNewest DEF SnapInv
<1>4. Generations' # {}
  BY <1>2, <1>3
<1>5. \A n \in Generations' : At(fileRows, n)' = At(fileRows, n) /\ At(factRows, n)' = At(factRows, n)
  BY <1>2, PruneKeeps
<1>6. \A n \in Generations' : /\ At(factRows, n)' \subseteq At(fileRows, n)'
                              /\ OneContent(At(fileRows, n))'
  BY <1>2, <1>5 DEF TablesInv, OneContent
<1>7. /\ OneContent(Live(fileRows))' <=> OneContent(Live(fileRows'))
      /\ OfFiles(Live(factRows), Live(fileRows))' <=> OfFiles(Live(factRows'), Live(fileRows'))
  BY DEF OneContent, OfFiles, SameFile, Live
<1>8. \A r \in Live(fileRows') :
        \/ r.from \in Generations' => stages'[r.from] = "files_only"
        \/ \E f \in Live(factRows') : SameFile(f, r)
  BY <1>1, <1>2 DEF TablesInv, FactsWritten
<1>9. FactsWritten'
  BY <1>8 DEF FactsWritten, Live, SameFile
<1>10. QED
  BY <1>1, <1>4, <1>6, <1>7, <1>9 DEF TablesInv

LEMMA TablesUntouched ==
  ASSUME TablesInv, UNCHANGED store
  PROVE  TablesInv'
<1>1. UNCHANGED <<fileRows, factRows, stages>>
  BY DEF store
<1>2. Generations' = Generations
  BY <1>1 DEF Generations
<1>3. QED
  BY <1>1, <1>2 DEF TablesInv, OneContent, OfFiles, FactsWritten, SameFile, At, ValidAt, Live

LEMMA StageKnown ==
  ASSUME NEW i
  PROVE  Options(i).stage \in Stages
BY DEF Options, Full, Staged, Forced, Incremental, Stages

\* How a step may touch the tables.
LEMMA StepTouches ==
  ASSUME [Next]_vars
  PROVE  \/ UNCHANGED store
         \/ \E i \in Indexers : PublishScan(i) /\ prune' = prune
         \/ EndPrune
BY DEF vars, Next, Edit, Pipeline, Begin, ScanOne, PublishScan, ReadFiles, ReadFacts, WriteGraph,
       EmbedOne, WriteVectors, Kill, BeginPrune, Retrieve, BeginRetrieve, SearchHit, ReadBytes, ReadSymbols

LEMMA TablesKeep ==
  ASSUME SnapInv, TablesInv, [Next]_vars
  PROVE  TablesInv'
<1>1. CASE UNCHANGED store
  BY <1>1, TablesUntouched
<1>2. ASSUME NEW i \in Indexers, PublishScan(i), prune' = prune PROVE TablesInv'
  <2>1. Publish(ix[i].scan, Removed(i), Options(i))
    BY <1>2 DEF PublishScan
  <2>2. QED
    BY <1>2, <2>1, StageKnown, PublishTables
<1>3. CASE EndPrune
  BY <1>3, PruneTables DEF EndPrune
<1>4. QED
  BY <1>1, <1>2, <1>3, StepTouches

\* Each file a full publish was told of has a live row, and no other has one.
LEMMA FullRows ==
  ASSUME SnapInv, TablesInv, NEW scan, NEW opts, opts.full = TRUE, Publish(scan, {}, opts)
  PROVE  /\ \A r \in Live(fileRows') : r.path \in DOMAIN scan /\ r.content = scan[r.path]
         /\ \A p \in DOMAIN scan : \E r \in Live(fileRows') : r.path = p /\ r.content = scan[p]
<1> DEFINE p == Rewritten(scan, {}, opts)
           ins == Inserted(scan, opts)
<1>1. /\ \A r \in Live(fileRows) : r.path \in LivePaths
      /\ \A q \in LivePaths : \E r \in Live(fileRows) : r.path = q
      /\ \A r \in Live(fileRows) : LiveHash(r.path) = r.content
  BY HashOf DEF LivePaths, TablesInv
<1>2. /\ p = Modified(scan, opts) \union (LivePaths \ DOMAIN scan)
      /\ ins = (DOMAIN scan \ LivePaths) \union Modified(scan, opts)
      /\ \A q \in DOMAIN scan \intersect LivePaths : q \notin Modified(scan, opts) => LiveHash(q) = scan[q]
      /\ Modified(scan, opts) \subseteq DOMAIN scan \intersect LivePaths
  BY DEF Rewritten, Inserted, Gone, Added, Modified
<1>3. ASSUME NEW r \in Live(fileRows), r.path \notin p
      PROVE  r.path \in DOMAIN scan /\ r.content = scan[r.path]
  BY <1>1, <1>2, <1>3
<1>4. ASSUME NEW q \in DOMAIN scan, q \notin ins
      PROVE  q \notin p /\ \E r \in Live(fileRows) : r.path = q /\ r.content = scan[q]
  BY <1>1, <1>2, <1>4
<1>5. ins \subseteq DOMAIN scan
  BY <1>2
<1>6. CASE Generation(scan, {}, opts) \in Generations
  <2>1. fileRows' = fileRows
    BY <1>6 DEF Publish, store
  <2>2. Changes(scan, {}, opts) = {}
    <3>1. Current \in Nat /\ \A h \in Generations : h <= Current
      BY CurrentIsNewest DEF SnapInv
    <3>2. Current + 1 \notin Generations
      BY <3>1
    <3>3. QED
      BY <1>6, <3>2 DEF Generation
  <2>3. p = {} /\ ins = {}
    BY <2>2 DEF Changes, Rewritten, Inserted
  <2> HIDE DEF p, ins
  <2>4. QED
    BY <1>3, <1>4, <2>1, <2>3
<1>7. CASE Generation(scan, {}, opts) \notin Generations
  <2> DEFINE new == NewRows(scan, ins, Current + 1)
  <2>1. \A r : r \in Live(fileRows') <=> (r \in Live(fileRows) /\ r.path \notin p) \/ r \in new
    BY <1>7, PublishedRows
  <2>2. /\ \A r \in new : r.path \in ins /\ r.content = scan[r.path]
        /\ \A q \in ins : \E r \in new : r.path = q /\ r.content = scan[q]
    BY NewRowsAre
  <2> HIDE DEF p, ins, new
  <2>3. \A r \in Live(fileRows') : r.path \in DOMAIN scan /\ r.content = scan[r.path]
    BY <1>3, <1>5, <2>1, <2>2
  <2>4. ASSUME NEW q \in DOMAIN scan
        PROVE  \E r \in Live(fileRows') : r.path = q /\ r.content = scan[q]
    <3>1. CASE q \in ins
      BY <2>1, <2>2, <3>1
    <3>2. CASE q \notin ins
      BY <1>4, <2>1, <3>2
    <3>3. QED
      BY <3>1, <3>2
  <2>5. QED
    BY <2>3, <2>4
<1>8. QED
  BY <1>6, <1>7

\* A full publish leaves the index equal to its scan.
LEMMA FullMatches ==
  ASSUME SnapInv, TablesInv, NEW scan, NEW opts, opts.full = TRUE, opts.stage \in Stages,
         Publish(scan, {}, opts), prune' = prune
  PROVE  /\ At(fileRows, Current)' = Scanned(scan)
         /\ At(factRows, Current)' \subseteq Scanned(scan)
         /\ \A e \in Scanned(scan) \ At(factRows, Current)' : e.path \in FilesOnly(Current)'
<1> DEFINE n == Current'
<1>1. SnapInv' /\ TablesInv'
  BY PublishKeeps, PublishTables
<1>2. /\ n \in Nat /\ (Generations' # {} => n \in Generations')
      /\ \A r \in fileRows' : r.from <= n /\ r.to <= n
      /\ \A r \in factRows' : r.from <= n /\ r.to <= n
      /\ Shaped(fileRows') /\ Shaped(factRows')
  <2>1. Current' \in Nat /\ (Generations' # {} => Current' \in Generations')
    <3>1. Generations' = {} \/ \E g \in Generations' : IsCurrent(g)'
      BY <1>1 DEF SnapInv
    <3>2. CASE Generations' = {}
      BY <3>2 DEF Current
    <3>3. CASE Generations' # {}
      <4>1. Current' = CHOOSE g \in Generations' : IsCurrent(g)'
        BY <3>3 DEF Current
      <4>2. Current' \in Generations'
        BY <3>1, <3>3, <4>1
      <4>3. QED
        BY <1>1, <4>2 DEF SnapInv
    <3>4. QED
      BY <3>2, <3>3
  <2>2. QED
    BY <1>1, <2>1 DEF SnapInv, WellFormed, Shaped
<1>3. /\ At(fileRows, Current)' = At(fileRows', n)
      /\ At(factRows, Current)' = At(factRows', n)
  BY DEF At, ValidAt
<1> HIDE DEF n
<1>4. /\ \A e : e \in At(fileRows', n) <=> \E r \in Live(fileRows') : e = [path |-> r.path, content |-> r.content]
      /\ \A e : e \in At(factRows', n) <=> \E r \in Live(factRows') : e = [path |-> r.path, content |-> r.content]
  BY <1>2, AtCurrent
<1>5. /\ \A r \in Live(fileRows') : r.path \in DOMAIN scan /\ r.content = scan[r.path]
      /\ \A p \in DOMAIN scan : \E r \in Live(fileRows') : r.path = p /\ r.content = scan[p]
  BY FullRows
<1>6. \A e : e \in Scanned(scan) <=> \E r \in Live(fileRows') : e = [path |-> r.path, content |-> r.content]
  BY <1>5 DEF Scanned
<1>7. At(fileRows', n) = Scanned(scan)
  BY <1>4, <1>6
<1>8. OfFiles(Live(factRows'), Live(fileRows'))
  BY <1>1 DEF TablesInv, OfFiles, SameFile, Live
<1>9. At(factRows', n) \subseteq Scanned(scan)
  BY <1>4, <1>6, <1>8 DEF OfFiles, SameFile
<1>10. ASSUME NEW e \in Scanned(scan), e \notin At(factRows', n)
       PROVE  e.path \in FilesOnly(Current)'
  <2>1. PICK r \in Live(fileRows') : e = [path |-> r.path, content |-> r.content]
    BY <1>6
  <2>2. ~ \E f \in Live(factRows') : f.path = r.path /\ f.content = r.content
    BY <1>4, <1>10, <2>1
  <2>3. r.from \in Generations' => stages'[r.from] = "files_only"
    BY <1>1, <2>2 DEF TablesInv, FactsWritten, SameFile, Live
  <2>4. r \in fileRows' /\ r.from <= n /\ r.to = NotRetired
    BY <1>2 DEF Live
  <2>5. QED
    BY <2>1, <2>3, <2>4 DEF FilesOnly, ValidAt, n
<1>11. QED
  BY <1>3, <1>7, <1>9, <1>10

\* A full sync leaves the index equal to what it scanned (apply_generation of
\* store.rs), over whatever another pipeline has published since.
THEOREM SyncsMatch == Spec => SyncMatchesScan
<1>1. Init => SnapInv /\ TablesInv
  BY DEF Init, StoreInit, SnapInv, TablesInv, Generations, OneContent, OfFiles, FactsWritten, Live
<1>2. SnapInv /\ TablesInv /\ [Next]_vars => (SnapInv /\ TablesInv)'
  BY StepKeeps, TablesKeep
<1>3. ASSUME SnapInv, TablesInv, NEW i \in Indexers, ix[i].job # "paths", PublishScan(i)
      PROVE  /\ At(fileRows, Current)' = Scanned(ix[i].scan)
             /\ At(factRows, Current)' \subseteq Scanned(ix[i].scan)
             /\ \A e \in Scanned(ix[i].scan) \ At(factRows, Current)' : e.path \in FilesOnly(Current)'
  <2>1. Publish(ix[i].scan, Removed(i), Options(i)) /\ prune' = prune
    BY <1>3 DEF PublishScan
  <2>2. Removed(i) = {} /\ Options(i).full = TRUE /\ Options(i).stage \in Stages
    BY <1>3 DEF Removed, Options, Full, Staged, Forced, Stages
  <2>3. PICK scan, opts : scan = ix[i].scan /\ opts = Options(i)
    OBVIOUS
  <2>4. Publish(scan, {}, opts) /\ opts.full = TRUE /\ opts.stage \in Stages
    BY <2>1, <2>2, <2>3
  <2>5. QED
    BY <1>3, <2>1, <2>3, <2>4, FullMatches
<1>4. SnapInv /\ TablesInv /\ [Next]_vars =>
        [\A i \in Indexers :
           (ix[i].job # "paths" /\ PublishScan(i))
           => /\ At(fileRows, Current)' = Scanned(ix[i].scan)
              /\ At(factRows, Current)' \subseteq Scanned(ix[i].scan)
              /\ \A e \in Scanned(ix[i].scan) \ At(factRows, Current)' : e.path \in FilesOnly(Current)']_vars
  BY <1>3
<1>5. QED
  BY <1>1, <1>2, <1>4, PTL DEF Spec, SyncMatchesScan

-----------------------------------------------------------------------------
(* Reads that take several calls.                                          *)

Job(x) == DOMAIN x = {"pc", "job", "asked", "unread", "scan", "gen", "files", "facts"}

\* What a pipeline has read of the tables is what its generation holds.
HasRead(x) ==
  /\ x.gen \in Nat /\ x.gen <= Current
  /\ x.pc \in {"graph_facts", "graph_write"} /\ x.gen \in Generations
       => x.files = At(fileRows, x.gen)
  /\ x.pc = "graph_write" /\ x.gen \in Generations => x.facts = At(factRows, x.gen)

\* And what was built of a generation, or a retrieval has read, is too.
BuiltOf(g, build) ==
  /\ g \in Nat /\ g <= Current
  /\ g \in Generations => build = [files |-> At(fileRows, g), facts |-> At(factRows, g)]

Retrieved(x) ==
  /\ x.gen \in Nat /\ x.gen <= Current
  /\ x.pc = "done" /\ x.gen \in Generations => x.facts = FactsOf(x.path, x.gen)

RetShape(x) == DOMAIN x = {"pc", "gen", "path", "bytes", "facts"}

ReadsInv ==
  /\ ix = [i \in Indexers |-> ix[i]]
  /\ \A i \in Indexers : Job(ix[i]) /\ HasRead(ix[i])
  /\ \A g \in DOMAIN graphs : BuiltOf(g, graphs[g])
  /\ RetShape(ret) /\ Retrieved(ret)

\* Generations only become known in order, so none that was pruned comes back.
LEMMA GenerationsGrow ==
  ASSUME SnapInv, [Next]_vars
  PROVE  /\ Current \in Nat /\ Current' \in Nat /\ Current <= Current'
         /\ \A g \in Generations' \ Generations : g > Current
         /\ Generations \subseteq Nat
<1>0. /\ Current \in Nat /\ (Generations # {} => Current \in Generations) /\ Generations \subseteq Nat
      /\ \A h \in Generations : h <= Current
  BY CurrentIsNewest DEF SnapInv
<1>1. CASE UNCHANGED store
  <2>1. Generations' = Generations /\ Current' = Current
    BY <1>1 DEF store, Generations, Current, IsCurrent
  <2>2. QED
    BY <1>0, <2>1
<1>2. ASSUME NEW i \in Indexers, PublishScan(i), UNCHANGED prune, ~ UNCHANGED store
      PROVE  Current' = Current + 1 /\ Generations' = Generations \union {Current + 1}
  <2>1. Publish(ix[i].scan, Removed(i), Options(i))
    BY <1>2 DEF PublishScan
  <2>2. PICK scan, removed, opts : scan = ix[i].scan /\ removed = Removed(i) /\ opts = Options(i)
    OBVIOUS
  <2>3. Publish(scan, removed, opts)
    BY <2>1, <2>2
  <2>4. Generation(scan, removed, opts) \notin Generations
    BY <1>2, <2>3 DEF Publish
  <2>5. QED
    BY <2>3, <2>4, PublishedRows
<1>3. CASE EndPrune
  <2>1. Generations' = {h \in Generations : prune <= h} /\ prune # 0
    BY <1>3 DEF EndPrune, Prune, Generations
  <2>2. Current \in Generations'
    BY <1>0, <2>1 DEF SnapInv
  <2>3. Current' \in Generations' /\ \A h \in Generations' : h <= Current'
    <3>1. \E h \in Generations' : IsCurrent(h)'
      BY <1>0, <2>1, <2>2 DEF IsCurrent
    <3>2. Current' = CHOOSE h \in Generations' : IsCurrent(h)'
      BY <2>2 DEF Current
    <3>3. QED
      BY <3>1, <3>2 DEF IsCurrent
  <2>4. QED
    BY <1>0, <2>1, <2>2, <2>3
<1>4. QED
  BY <1>0, <1>1, <1>2, <1>3, StepTouches

\* What was read stays read.
LEMMA ReadStays ==
  ASSUME SnapInv, [Next]_vars
  PROVE  /\ \A x : HasRead(x) => HasRead(x)'
         /\ \A g, build : BuiltOf(g, build) => BuiltOf(g, build)'
         /\ \A x : Retrieved(x) => Retrieved(x)'
<1>1. /\ Current \in Nat /\ Current' \in Nat /\ Current <= Current'
      /\ \A g \in Generations' \ Generations : g > Current
      /\ Generations \subseteq Nat
  BY GenerationsGrow
<1>2. \A n \in Generations \intersect Generations' :
        At(fileRows, n)' = At(fileRows, n) /\ At(factRows, n)' = At(factRows, n)
  BY StepKeeps
<1>3. ASSUME NEW g \in Nat, g <= Current
      PROVE  /\ g <= Current'
             /\ g \in Generations' => /\ g \in Generations
                                      /\ At(fileRows, g)' = At(fileRows, g)
                                      /\ At(factRows, g)' = At(factRows, g)
  <2>1. g <= Current' /\ ~ (g > Current)
    BY <1>1, <1>3
  <2>2. QED
    BY <1>1, <1>2, <2>1
<1>4. ASSUME NEW x, HasRead(x) PROVE HasRead(x)'
  BY <1>3, <1>4 DEF HasRead
<1>5. ASSUME NEW g, NEW build, BuiltOf(g, build) PROVE BuiltOf(g, build)'
  BY <1>3, <1>5 DEF BuiltOf
<1>6. ASSUME NEW x, Retrieved(x) PROVE Retrieved(x)'
  <2>1. x.gen \in Nat /\ x.gen <= Current
    BY <1>6 DEF Retrieved
  <2>2. At(factRows, x.gen)' = At(factRows, x.gen) => FactsOf(x.path, x.gen)' = FactsOf(x.path, x.gen)
    BY DEF FactsOf
  <2>3. QED
    BY <1>3, <1>6, <2>1, <2>2 DEF Retrieved
<1>7. QED
  BY <1>4, <1>5, <1>6

LEMMA IdleJob == Job(Idle) /\ Idle.pc = "idle" /\ Idle.gen = 0
BY DEF Job, Idle

\* A pipeline that has read nothing of the tables yet, or no longer needs to have.
LEMMA ReadsNothing ==
  ASSUME NEW x, x.gen \in Nat, x.gen <= Current, x.pc \notin {"graph_facts", "graph_write"}
  PROVE  HasRead(x)
BY DEF HasRead

\* Where a pipeline's step that publishes nothing takes it.
LEMMA PipelineReads ==
  ASSUME SnapInv, ReadsInv, NEW i \in Indexers, Pipeline(i), ~ PublishScan(i)
  PROVE  \E x : ix' = [ix EXCEPT ![i] = x] /\ Job(x) /\ HasRead(x)
<1>0. /\ ix = [j \in Indexers |-> ix[j]] /\ Job(ix[i]) /\ HasRead(ix[i])
      /\ ix[i].gen \in Nat /\ ix[i].gen <= Current /\ Current \in Nat
  BY CurrentIsNewest DEF ReadsInv, HasRead, SnapInv
<1>1. ASSUME NEW x, ix' = [ix EXCEPT ![i] = x], Job(x), x.gen \in {0, ix[i].gen},
             x.pc \notin {"graph_facts", "graph_write"}
      PROVE  \E y : ix' = [ix EXCEPT ![i] = y] /\ Job(y) /\ HasRead(y)
  BY <1>0, <1>1, ReadsNothing
<1>2. ASSUME NEW x, ix' = [ix EXCEPT ![i] = x], Job(x), HasRead(x)
      PROVE  \E y : ix' = [ix EXCEPT ![i] = y] /\ Job(y) /\ HasRead(y)
  BY <1>2
<1>3. CASE \E job \in Jobs, asked \in SUBSET Paths \ {{}} : Begin(i, job, asked)
  <2>1. PICK job, asked : Begin(i, job, asked)
    BY <1>3
  <2> DEFINE x == [Idle EXCEPT !.pc = "scan", !.job = job, !.asked = asked, !.unread = asked]
  <2>2. Job(x) /\ x.gen = 0 /\ x.pc = "scan" /\ ix' = [ix EXCEPT ![i] = x]
    BY <2>1 DEF Begin, Idle, Job
  <2>3. QED
    BY <1>1, <2>2
<1>4. CASE \E p \in Paths : ScanOne(i, p)
  <2>1. PICK p, seen :
          /\ ix[i].pc = "scan"
          /\ ix' = [ix EXCEPT ![i].unread = @ \ {p},
                              ![i].scan = IF seen = NoFile THEN @
                                          ELSE [q \in DOMAIN @ \union {p} |-> IF q = p THEN seen ELSE @[q]]]
    BY <1>4 DEF ScanOne
  <2> DEFINE scan == IF seen = NoFile THEN ix[i].scan
                     ELSE [q \in DOMAIN ix[i].scan \union {p} |-> IF q = p THEN seen ELSE ix[i].scan[q]]
             x == [ix[i] EXCEPT !.unread = ix[i].unread \ {p}, !.scan = scan]
  <2>2. ix' = [ix EXCEPT ![i] = x]
    BY <1>0, <2>1
  <2> HIDE DEF scan
  <2>3. Job(x) /\ x.gen = ix[i].gen /\ x.pc = "scan"
    BY <1>0, <2>1 DEF Job
  <2>4. QED
    BY <1>1, <2>2, <2>3
<1>5. CASE ReadFiles(i)
  <2>1. CASE ~ Known(ix[i].gen)
    BY <1>1, <1>5, <2>1, IdleJob DEF ReadFiles, Finish
  <2>2. CASE Known(ix[i].gen)
    <3> DEFINE f == At(fileRows, ix[i].gen)
               u == IF ix[i].pc = "embed_files" THEN PathsAt(ix[i].gen) ELSE {}
               x == [ix[i] EXCEPT !.files = f, !.unread = u,
                                  !.pc = IF ix[i].pc = "graph_files" THEN "graph_facts" ELSE "embed_read"]
    <3>1. ix' = [ix EXCEPT ![i].files = f,
                           ![i].pc = IF @ = "graph_files" THEN "graph_facts" ELSE "embed_read",
                           ![i].unread = u]
      BY <1>5, <2>2 DEF ReadFiles
    <3>2. f = At(fileRows, ix[i].gen)
      OBVIOUS
    <3> HIDE DEF f, u
    <3>3. ix' = [ix EXCEPT ![i] = x]
      BY <1>0, <3>1
    <3>4. Job(x) /\ x.gen = ix[i].gen /\ x.files = f /\ x.pc \in {"graph_facts", "embed_read"}
      BY <1>0 DEF Job
    <3> HIDE DEF x
    <3>5. HasRead(x)
      BY <1>0, <3>2, <3>4 DEF HasRead
    <3>6. QED
      BY <1>2, <3>3, <3>4, <3>5
  <2>3. QED
    BY <2>1, <2>2
<1>6. CASE ReadFacts(i)
  <2>1. CASE ~ Known(ix[i].gen)
    BY <1>1, <1>6, <2>1, IdleJob DEF ReadFacts, Finish
  <2>2. CASE Known(ix[i].gen)
    <3> DEFINE f == At(factRows, ix[i].gen)
               x == [ix[i] EXCEPT !.facts = f, !.pc = "graph_write"]
    <3>1. ix' = [ix EXCEPT ![i].facts = f, ![i].pc = "graph_write"] /\ ix[i].pc = "graph_facts"
      BY <1>6, <2>2 DEF ReadFacts
    <3>2. f = At(factRows, ix[i].gen)
      OBVIOUS
    <3> HIDE DEF f
    <3>3. ix' = [ix EXCEPT ![i] = x]
      BY <1>0, <3>1
    <3>4. Job(x) /\ x.gen = ix[i].gen /\ x.facts = f /\ x.files = ix[i].files /\ x.pc = "graph_write"
      BY <1>0 DEF Job
    <3> HIDE DEF x
    <3>5. HasRead(x)
      BY <1>0, <3>1, <3>2, <3>4 DEF HasRead
    <3>6. QED
      BY <1>2, <3>3, <3>4, <3>5
  <2>3. QED
    BY <2>1, <2>2
<1>7. CASE WriteGraph(i)
  <2> DEFINE x == [Idle EXCEPT !.pc = "embed_files", !.job = "open", !.gen = ix[i].gen]
  <2>1. ix' = [ix EXCEPT ![i] = IF ix[i].job = "reindex" THEN Idle ELSE x]
    BY <1>7 DEF WriteGraph
  <2>2. Job(x) /\ x.gen = ix[i].gen /\ x.pc = "embed_files"
    BY DEF Job, Idle
  <2> HIDE DEF x
  <2>3. QED
    BY <1>1, <2>1, <2>2, IdleJob
<1>8. CASE \E p \in Paths : EmbedOne(i, p)
  <2>1. PICK p : EmbedOne(i, p)
    BY <1>8
  <2> DEFINE u == ix[i].unread \ {p}
             f == ix[i].facts \union {e \in Entry : e.path = p /\ e.content = disk[p]}
             x == [ix[i] EXCEPT !.unread = u, !.facts = f]
  <2>2. ix' = [ix EXCEPT ![i].unread = u, ![i].facts = f] /\ ix[i].pc = "embed_read"
    BY <2>1, <1>0 DEF EmbedOne
  <2> HIDE DEF u, f
  <2>3. ix' = [ix EXCEPT ![i] = x]
    BY <1>0, <2>2
  <2>4. Job(x) /\ x.gen = ix[i].gen /\ x.pc = "embed_read"
    BY <1>0, <2>2 DEF Job
  <2>5. QED
    BY <1>1, <2>3, <2>4
<1>9. CASE WriteVectors(i) \/ Kill(i)
  BY <1>1, <1>9, IdleJob DEF WriteVectors, Kill, Finish
<1>10. QED
  BY <1>3, <1>4, <1>5, <1>6, <1>7, <1>8, <1>9 DEF Pipeline

\* A publish leaves its pipeline at the generation that is current then.
LEMMA PublishReads ==
  ASSUME SnapInv, ReadsInv, NEW i \in Indexers, PublishScan(i)
  PROVE  \E x : ix' = [ix EXCEPT ![i] = x] /\ Job(x) /\ x.gen \in Nat /\ x.gen <= Current'
                /\ x.pc \notin {"graph_facts", "graph_write"}
<1>0. /\ ix = [j \in Indexers |-> ix[j]] /\ Job(ix[i]) /\ HasRead(ix[i])
      /\ ix[i].gen \in Nat /\ ix[i].gen <= Current
      /\ Current \in Nat /\ (Generations # {} => Current \in Generations)
      /\ \A h \in Generations : h <= Current
  BY CurrentIsNewest DEF ReadsInv, HasRead, SnapInv
<1> DEFINE g == Generation(ix[i].scan, Removed(i), Options(i))
<1>1. g \in Nat /\ g <= Current' /\ Current <= Current' /\ Current' \in Nat
  <2>1. PICK scan, removed, opts : scan = ix[i].scan /\ removed = Removed(i) /\ opts = Options(i)
    OBVIOUS
  <2>2. Publish(scan, removed, opts) /\ g = Generation(scan, removed, opts)
    BY <2>1 DEF PublishScan
  <2>3. CASE g \in Generations
    <3>1. UNCHANGED store
      BY <2>2, <2>3 DEF Publish
    <3>2. Current' = Current
      BY <3>1 DEF store, Generations, Current, IsCurrent
    <3>3. QED
      BY <1>0, <2>3, <3>2 DEF SnapInv
  <2>4. CASE g \notin Generations
    <3>1. g = Current + 1 /\ Current' = Current + 1
      BY <2>2, <2>4, PublishedRows
    <3>2. QED
      BY <1>0, <3>1
  <2>5. QED
    BY <2>3, <2>4
<1>2. CASE ix[i].job \in {"open", "reindex"}
  <2> DEFINE x == [Idle EXCEPT !.pc = "graph_files", !.job = ix[i].job, !.gen = g]
  <2>1. ix' = [ix EXCEPT ![i] = x]
    BY <1>2 DEF PublishScan
  <2> HIDE DEF g
  <2>2. Job(x) /\ x.gen = g /\ x.pc = "graph_files"
    BY DEF Job, Idle
  <2>3. QED
    BY <1>1, <2>1, <2>2
<1>3. CASE ix[i].job \notin {"open", "reindex"} /\ ix[i].job = "staged" /\ ix[i].pc = "scan"
  <2> DEFINE x == [ix[i] EXCEPT !.pc = "complete"]
  <2>1. ix' = [ix EXCEPT ![i] = x]
    BY <1>0, <1>3 DEF PublishScan, Goto
  <2>2. Job(x) /\ x.gen = ix[i].gen /\ x.pc = "complete"
    BY <1>0 DEF Job
  <2>3. ix[i].gen <= Current'
    BY <1>0, <1>1
  <2> HIDE DEF x, g
  <2>4. QED
    BY <1>0, <2>1, <2>2, <2>3
<1>4. CASE ix[i].job \notin {"open", "reindex"} /\ ~ (ix[i].job = "staged" /\ ix[i].pc = "scan")
  <2>1. ix' = [ix EXCEPT ![i] = Idle]
    BY <1>4 DEF PublishScan, Finish
  <2>2. 0 <= Current'
    BY <1>1
  <2>3. /\ Job(Idle) /\ Idle.gen \in Nat /\ Idle.gen <= Current'
        /\ Idle.pc \notin {"graph_facts", "graph_write"}
    BY <2>2, IdleJob
  <2> HIDE DEF g
  <2>4. QED
    BY <2>1, <2>3
<1>5. QED
  BY <1>2, <1>3, <1>4

\* What is built of a generation is what the pipeline has read of it.
LEMMA BuildsKeep ==
  ASSUME SnapInv, ReadsInv, [Next]_vars
  PROVE  \A g \in DOMAIN graphs' : \E b : graphs'[g] = b /\ BuiltOf(g, b)'
<1> SUFFICES \A g \in DOMAIN graphs' : BuiltOf(g, graphs'[g])
  <2>1. \A g, b : BuiltOf(g, b) => BuiltOf(g, b)'
    BY ReadStays
  <2>2. QED
    BY <2>1
<1>0. \A g \in DOMAIN graphs : BuiltOf(g, graphs[g])
  BY DEF ReadsInv
<1>1. CASE graphs' = graphs
  BY <1>0, <1>1
<1>2. CASE EndPrune
  <2>1. graphs' = [g \in {g \in DOMAIN graphs : prune <= g} |-> graphs[g]]
    BY <1>2 DEF EndPrune
  <2>2. QED
    BY <1>0, <2>1
<1>3. ASSUME NEW i \in Indexers, WriteGraph(i) PROVE \A g \in DOMAIN graphs' : BuiltOf(g, graphs'[g])
  <2> DEFINE n == ix[i].gen
             build == [files |-> ix[i].files, facts |-> ix[i].facts]
  <2>1. graphs' = [h \in DOMAIN graphs \union {n} |-> IF h = n THEN build ELSE graphs[h]]
        /\ ix[i].pc = "graph_write"
    BY <1>3 DEF WriteGraph, Put
  <2>2. BuiltOf(n, build)
    BY <2>1 DEF BuiltOf, ReadsInv, HasRead
  <2> HIDE DEF n, build
  <2>3. QED
    BY <1>0, <2>1, <2>2
<1>4. QED
  BY <1>1, <1>2, <1>3 DEF vars, Next, Edit, Pipeline, Begin, ScanOne, PublishScan, ReadFiles, ReadFacts,
     EmbedOne, WriteVectors, Kill, BeginPrune, Retrieve, BeginRetrieve, SearchHit, ReadBytes, ReadSymbols

\* What a retrieval has read of the tables is its generation's.
LEMMA RetrievalKeeps ==
  ASSUME SnapInv, ReadsInv, [Next]_vars
  PROVE  \E x : ret' = x /\ RetShape(x) /\ Retrieved(x)'
<1> SUFFICES RetShape(ret') /\ Retrieved(ret')
  <2>1. \A x : Retrieved(x) => Retrieved(x)'
    BY ReadStays
  <2>2. QED
    BY <2>1
<1>0. /\ RetShape(ret) /\ Retrieved(ret) /\ Current \in Nat /\ ret.gen \in Nat /\ ret.gen <= Current
  BY CurrentIsNewest DEF ReadsInv, Retrieved, SnapInv
<1>1. CASE ret' = ret
  BY <1>0, <1>1
<1>2. CASE BeginRetrieve
  <2>1. ret' = [NoRetrieval EXCEPT !.pc = "search", !.gen = Current]
    BY <1>2 DEF BeginRetrieve
  <2>2. RetShape(ret') /\ ret'.gen = Current /\ ret'.pc = "search"
    BY <2>1 DEF NoRetrieval, RetShape
  <2>3. QED
    BY <1>0, <2>2 DEF Retrieved
<1>3. ASSUME NEW p, SearchHit(p) PROVE RetShape(ret') /\ Retrieved(ret')
  <2>1. ret' = [ret EXCEPT !.pc = "hit", !.path = p]
    BY <1>3 DEF SearchHit
  <2>2. RetShape(ret') /\ ret'.gen = ret.gen /\ ret'.pc = "hit"
    BY <1>0, <2>1 DEF RetShape
  <2>3. QED
    BY <1>0, <2>2 DEF Retrieved
<1>4. CASE ReadBytes
  <2>1. ret' = [ret EXCEPT !.pc = "bytes", !.bytes = disk[ret.path]]
    BY <1>4 DEF ReadBytes
  <2>2. RetShape(ret') /\ ret'.gen = ret.gen /\ ret'.pc = "bytes"
    BY <1>0, <2>1 DEF RetShape
  <2>3. QED
    BY <1>0, <2>2 DEF Retrieved
<1>5. CASE ReadSymbols
  <2>1. CASE Known(ret.gen)
    <3> DEFINE f == FactsOf(ret.path, ret.gen)
    <3>1. ret' = [ret EXCEPT !.pc = "done", !.facts = f]
      BY <1>5, <2>1 DEF ReadSymbols
    <3>2. f = FactsOf(ret.path, ret.gen)
      OBVIOUS
    <3> HIDE DEF f
    <3>3. RetShape(ret') /\ ret'.gen = ret.gen /\ ret'.path = ret.path /\ ret'.facts = f
      BY <1>0, <3>1 DEF RetShape
    <3>4. QED
      BY <1>0, <3>2, <3>3 DEF Retrieved
  <2>2. CASE ~ Known(ret.gen)
    <3>1. ret' = NoRetrieval
      BY <1>5, <2>2 DEF ReadSymbols
    <3>2. RetShape(ret') /\ ret'.gen = 0 /\ ret'.pc = "idle"
      BY <3>1 DEF NoRetrieval, RetShape
    <3>3. QED
      BY <1>0, <3>2 DEF Retrieved
  <2>3. QED
    BY <2>1, <2>2
<1>6. QED
  BY <1>1, <1>2, <1>3, <1>4, <1>5 DEF vars, Next, Edit, Pipeline, Begin, ScanOne, PublishScan, ReadFiles,
     ReadFacts, WriteGraph, EmbedOne, WriteVectors, Kill, BeginPrune, EndPrune, Retrieve

\* A pipeline is where it was, or has gone on with what it has read.
LEMMA PipelinesKeep ==
  ASSUME SnapInv, ReadsInv, [Next]_vars
  PROVE  /\ ix' = [i \in Indexers |-> ix'[i]]
         /\ \A j \in Indexers : \E y : ix'[j] = y /\ Job(y) /\ HasRead(y)'
<1>1. \A x : HasRead(x) => HasRead(x)'
  BY ReadStays
<1>2. /\ ix = [i \in Indexers |-> ix[i]]
      /\ \A j \in Indexers : Job(ix[j]) /\ HasRead(ix[j])
  BY DEF ReadsInv
<1>3. \A j \in Indexers : \E y : ix[j] = y /\ Job(y) /\ HasRead(y)'
  BY <1>1, <1>2
<1>4. ASSUME NEW i \in Indexers, NEW x, ix' = [ix EXCEPT ![i] = x], Job(x), HasRead(x)'
      PROVE  /\ ix' = [j \in Indexers |-> ix'[j]]
             /\ \A j \in Indexers : \E y : ix'[j] = y /\ Job(y) /\ HasRead(y)'
  <2>1. ix'[i] = x /\ \A j \in Indexers : j # i => ix'[j] = ix[j]
    BY <1>2, <1>4
  <2>2. ix' = [j \in Indexers |-> ix'[j]]
    BY <1>2, <1>4
  <2>3. QED
    BY <1>3, <1>4, <2>1, <2>2
<1>5. CASE ix' = ix
  BY <1>2, <1>3, <1>5
<1>6. ASSUME NEW i \in Indexers, Pipeline(i), ~ PublishScan(i)
      PROVE  \E x : ix' = [ix EXCEPT ![i] = x] /\ Job(x) /\ HasRead(x)'
  <2>1. PICK x : ix' = [ix EXCEPT ![i] = x] /\ Job(x) /\ HasRead(x)
    BY <1>6, PipelineReads
  <2>2. QED
    BY <1>1, <2>1
<1>7. ASSUME NEW i \in Indexers, PublishScan(i)
      PROVE  \E x : ix' = [ix EXCEPT ![i] = x] /\ Job(x) /\ HasRead(x)'
  <2>1. PICK x : /\ ix' = [ix EXCEPT ![i] = x] /\ Job(x) /\ x.gen \in Nat /\ x.gen <= Current'
                 /\ x.pc \notin {"graph_facts", "graph_write"}
    BY <1>7, PublishReads
  <2>2. HasRead(x)'
    BY <2>1 DEF HasRead
  <2>3. QED
    BY <2>1, <2>2
<1>8. ix' = ix \/ \E i \in Indexers : Pipeline(i)
  BY DEF vars, Next, Edit, BeginPrune, EndPrune, Retrieve, BeginRetrieve, SearchHit, ReadBytes, ReadSymbols
<1>9. QED
  BY <1>4, <1>5, <1>6, <1>7, <1>8

LEMMA ReadsKeep ==
  ASSUME SnapInv, ReadsInv, [Next]_vars
  PROVE  ReadsInv'
<1>1. /\ ix' = [i \in Indexers |-> ix'[i]]
      /\ \A j \in Indexers : \E y : ix'[j] = y /\ Job(y) /\ HasRead(y)'
  BY PipelinesKeep
<1>2. \A j \in Indexers : Job(ix[j])' /\ HasRead(ix[j])'
  BY <1>1 DEF Job, HasRead
<1>3. \A g \in DOMAIN graphs' : \E b : graphs'[g] = b /\ BuiltOf(g, b)'
  BY BuildsKeep
<1>4. \A g \in DOMAIN graphs' : BuiltOf(g, graphs[g])'
  BY <1>3 DEF BuiltOf
<1>5. \E x : ret' = x /\ RetShape(x) /\ Retrieved(x)'
  BY RetrievalKeeps
<1>6. RetShape(ret)' /\ Retrieved(ret)'
  BY <1>5 DEF RetShape, Retrieved, FactsOf
<1>7. QED
  BY <1>1, <1>2, <1>4, <1>6 DEF ReadsInv

LEMMA ReadsInit == Init => ReadsInv
<1> SUFFICES ASSUME Init PROVE ReadsInv
  OBVIOUS
<1>1. Generations = {} /\ Current = 0
  BY DEF Init, StoreInit, Generations, Current
<1>2. /\ ix = [i \in Indexers |-> ix[i]]
      /\ \A i \in Indexers : ix[i] = Idle
  BY DEF Init
<1>3. \A i \in Indexers : Job(ix[i]) /\ HasRead(ix[i])
  BY <1>1, <1>2, IdleJob, ReadsNothing
<1>4. DOMAIN graphs = {}
  BY DEF Init
<1>5. RetShape(ret) /\ Retrieved(ret)
  BY <1>1 DEF Init, NoRetrieval, RetShape, Retrieved
<1>6. QED
  BY <1>2, <1>3, <1>4, <1>5 DEF ReadsInv

\* Reads that take several calls do not mix generations (build_for of the
\* graph, SearchRetriever::retrieve), whatever is published, pruned, edited or
\* killed between them.
THEOREM ReadsMatch == Spec => []ReadsAreExact
<1>1. Init => SnapInv /\ TablesInv
  BY DEF Init, StoreInit, SnapInv, TablesInv, Generations, OneContent, OfFiles, FactsWritten, Live
<1>2. SnapInv /\ TablesInv /\ ReadsInv /\ [Next]_vars => (SnapInv /\ TablesInv /\ ReadsInv)'
  BY StepKeeps, TablesKeep, ReadsKeep
<1>3. ASSUME TablesInv, ReadsInv PROVE ReadsAreExact
  <2>1. GraphOfItsGeneration
    BY <1>3 DEF ReadsInv, BuiltOf, GraphOfItsGeneration
  <2>2. ASSUME ret.pc = "done", [path |-> ret.path, content |-> ret.bytes] \in At(fileRows, ret.gen),
               Known(ret.gen), NEW c \in ret.facts
        PROVE  c = ret.bytes
    <3>1. c \in FactsOf(ret.path, ret.gen) /\ ret.gen \in Generations
      BY <1>3, <2>2 DEF ReadsInv, Retrieved, Known
    <3>2. PICK e \in At(factRows, ret.gen) : e.path = ret.path /\ e.content = c
      BY <3>1 DEF FactsOf
    <3>3. e \in At(fileRows, ret.gen) /\ OneContent(At(fileRows, ret.gen))
      BY <1>3, <3>1 DEF TablesInv
    <3>4. QED
      BY <2>2, <3>2, <3>3 DEF OneContent
  <2>3. FreshBodiesExact
    BY <2>2 DEF FreshBodiesExact
  <2>4. QED
    BY <2>1, <2>3 DEF ReadsAreExact
<1>4. QED
  BY <1>1, <1>2, <1>3, ReadsInit, PTL DEF Spec

-----------------------------------------------------------------------------
(* Context assembly: numbers and recursion.                                *)

\* A set of numbers that is not empty has a least one: what the inductions below rest on.
LEMMA LeastNumber ==
  ASSUME NEW T \in SUBSET Nat, T # {}
  PROVE  \E x \in T : \A y \in T : x <= y
<1> DEFINE R == OpToRel(<, Nat)
<1>1. IsWellFoundedOn(R, Nat)
  BY NatLessThanWellFounded
<1>2. \A x, y \in Nat : x < y => <<x, y>> \in R
  BY DEF OpToRel
<1>3. PICK x \in T : \A y \in T : ~ (<<y, x>> \in R)
  <2> HIDE DEF R
  <2> QED BY <1>1, WFMin
<1>4. \A y \in T : ~ (y < x)
  <2> HIDE DEF R
  <2> QED BY <1>2, <1>3
<1>5. QED
  BY <1>4

\* What holds at 0 and passes from each number to the next holds up to N.
LEMMA Counting ==
  ASSUME NEW N \in Nat, NEW T, 0 \in T, \A n \in 0 .. (N - 1) : n \in T => n + 1 \in T
  PROVE  \A n \in 0 .. N : n \in T
<1> DEFINE S == {n \in 0 .. N : n \notin T}
<1>1. SUFFICES ASSUME S # {} PROVE FALSE
  OBVIOUS
<1>2. S \in SUBSET Nat
  OBVIOUS
<1>3. PICK x \in S : \A y \in S : x <= y
  <2> HIDE DEF S
  <2> QED BY <1>1, <1>2, LeastNumber
<1>4. x # 0 /\ x - 1 \in 0 .. (N - 1) /\ x - 1 \notin S
  BY <1>3
<1>5. QED
  BY <1>4, <1>3

\* The function on 0 .. N with a first value and a step from one value to the next.
Steps(N, V, step) == step \in [1 .. N -> [V -> V]]
Iterates(N, V, c, step, f) ==
  f \in [0 .. N -> V] /\ f[0] = c /\ \A n \in 1 .. N : f[n] = step[n][f[n - 1]]

\* A first value and a step from each value to the next make a function: one
\* that is defined by recursion on a number exists.
LEMMA Iteration ==
  ASSUME NEW V, NEW c \in V, NEW N \in Nat, NEW step, Steps(N, V, step)
  PROVE  \E f : Iterates(N, V, c, step, f)
<1> DEFINE T == {k \in 0 .. N : \E f : Iterates(k, V, c, step, f)}
<1>1. 0 \in T
  <2> DEFINE g == [k \in 0 .. 0 |-> c]
  <2>1. g \in [0 .. 0 -> V] /\ Iterates(0, V, c, step, g)
    BY DEF Iterates
  <2>2. \E f : Iterates(0, V, c, step, f)
    <3> HIDE DEF g
    <3> QED BY <2>1
  <2>3. QED
    BY <2>2
<1>2. ASSUME NEW k \in 0 .. (N - 1), k \in T PROVE k + 1 \in T
  <2>1. PICK f : Iterates(k, V, c, step, f)
    BY <1>2
  <2> DEFINE g == [n \in 0 .. k + 1 |-> IF n = k + 1 THEN step[k + 1][f[k]] ELSE f[n]]
  <2>2. step[k + 1][f[k]] \in V
    <3>1. k + 1 \in 1 .. N /\ k \in 0 .. k
      OBVIOUS
    <3>2. QED
      BY <2>1, <3>1 DEF Iterates, Steps
  <2>3. g \in [0 .. k + 1 -> V]
    BY <2>1, <2>2 DEF Iterates
  <2>4. \A n \in 1 .. k : g[n] = f[n] /\ g[n - 1] = f[n - 1]
    OBVIOUS
  <2>5. g[k + 1] = step[k + 1][g[k]] /\ g[0] = f[0]
    OBVIOUS
  <2>6. ASSUME NEW n \in 1 .. k + 1 PROVE g[n] = step[n][g[n - 1]]
    <3>1. (n = k + 1 /\ n - 1 = k) \/ n \in 1 .. k
      OBVIOUS
    <3> HIDE DEF g
    <3>2. QED
      BY <2>1, <2>4, <2>5, <3>1 DEF Iterates
  <2>7. Iterates(k + 1, V, c, step, g)
    <3> HIDE DEF g
    <3> QED BY <2>1, <2>3, <2>5, <2>6 DEF Iterates
  <2>8. \E h : Iterates(k + 1, V, c, step, h)
    <3> HIDE DEF g
    <3> QED BY <2>7
  <2>9. QED
    BY <2>8
<1>3. \A k \in 0 .. (N - 1) : k \in T => k + 1 \in T
  BY <1>2
<1>4. \A k \in 0 .. N : k \in T
  <2> HIDE DEF T
  <2> QED BY <1>1, <1>3, Counting
<1>5. QED
  BY <1>4

-----------------------------------------------------------------------------
(* Sums over a finite set, in whatever order a fold takes its elements.    *)

\* v[t] is the sum of the weights of t's elements.
Weighs(S, w, v) ==
  /\ v[{}] = 0
  /\ \A t \in SUBSET S : v[t] \in Nat /\ \A x \in t : v[t] = v[t \ {x}] + w[x]

\* There is such a table: what a sum is then does not depend on an order.
LEMMA WeighingExists ==
  ASSUME NEW S, IsFiniteSet(S), NEW w \in [S -> Nat]
  PROVE  \E v : Weighs(S, w, v)
<1> DEFINE N == Cardinality(S)
           T == {k \in 0 .. N : \A Q \in SUBSET S : Cardinality(Q) = k => \E v : Weighs(Q, w, v)}
<1>1. N \in Nat /\ S \in SUBSET S
  BY FS_CardinalityType
<1>2. \A Q \in SUBSET S : IsFiniteSet(Q) /\ Cardinality(Q) \in Nat
  BY FS_Subset, FS_CardinalityType
<1>3. 0 \in T
  <2>1. ASSUME NEW Q \in SUBSET S, Cardinality(Q) = 0 PROVE \E v : Weighs(Q, w, v)
    <3>1. Q = {}
      BY <1>2, <2>1, FS_EmptySet
    <3>2. Weighs({}, w, [t \in {{}} |-> 0])
      BY DEF Weighs
    <3>3. QED
      BY <3>1, <3>2
  <2>2. QED
    BY <1>1, <2>1
<1>4. ASSUME NEW k \in 0 .. (N - 1), k \in T PROVE k + 1 \in T
  <2>1. ASSUME NEW Q \in SUBSET S, Cardinality(Q) = k + 1 PROVE \E v : Weighs(Q, w, v)
    <3>1. PICK a : a \in Q
      <4>1. Q # {}
        BY <2>1, FS_EmptySet
      <4>2. QED
        BY <4>1
    <3>2. Q \ {a} \in SUBSET S /\ Cardinality(Q \ {a}) = k
      <4>1. Cardinality(Q \ {a}) = Cardinality(Q) - 1
        BY <1>2, <3>1, FS_RemoveElement
      <4>2. QED
        BY <2>1, <4>1
    <3>3. PICK v : Weighs(Q \ {a}, w, v)
      BY <1>4, <3>2
    <3>4. w[a] \in Nat
      BY <3>1
    <3> DEFINE u == [t \in SUBSET Q |-> IF a \in t THEN v[t \ {a}] + w[a] ELSE v[t]]
    <3>5. \A t \in SUBSET Q : /\ t \ {a} \in SUBSET (Q \ {a})
                              /\ a \notin t => t \in SUBSET (Q \ {a})
      OBVIOUS
    <3>6. \A t \in SUBSET (Q \ {a}) : v[t] \in Nat /\ \A x \in t : v[t] = v[t \ {x}] + w[x]
      BY <3>3 DEF Weighs
    <3>7. ASSUME NEW t \in SUBSET Q PROVE u[t] \in Nat
      BY <3>4, <3>5, <3>6
    <3>8. ASSUME NEW t \in SUBSET Q, NEW x \in t PROVE u[t] = u[t \ {x}] + w[x]
      <4>1. t \ {x} \in SUBSET Q /\ w[x] \in Nat
        OBVIOUS
      <4>2. CASE a \notin t
        <5>1. u[t] = v[t] /\ u[t \ {x}] = v[t \ {x}]
          BY <4>1, <4>2
        <5>2. QED
          BY <3>5, <3>6, <4>2, <5>1
      <4>3. CASE a \in t /\ x = a
        <5>1. u[t] = v[t \ {a}] + w[a] /\ u[t \ {a}] = v[t \ {a}]
          BY <4>1, <4>3
        <5>2. QED
          BY <4>3, <5>1
      <4>4. CASE a \in t /\ x # a
        <5>1. u[t] = v[t \ {a}] + w[a] /\ u[t \ {x}] = v[(t \ {x}) \ {a}] + w[a]
          BY <4>1, <4>4
        <5>2. t \ {a} \in SUBSET (Q \ {a}) /\ x \in t \ {a} /\ (t \ {a}) \ {x} = (t \ {x}) \ {a}
          BY <4>4
        <5>3. v[t \ {a}] = v[(t \ {x}) \ {a}] + w[x]
          <6> HIDE DEF u
          <6> QED BY <3>6, <5>2
        <5>4. v[(t \ {x}) \ {a}] \in Nat
          <6> HIDE DEF u
          <6>1. (t \ {x}) \ {a} \in SUBSET (Q \ {a})
            BY <5>2
          <6> QED BY <3>6, <6>1
        <5>5. QED
          <6> HIDE DEF u
          <6> QED BY <3>4, <4>1, <5>1, <5>3, <5>4
      <4>5. QED
        BY <4>2, <4>3, <4>4
    <3>9. u[{}] = 0
      <4>1. v[{}] = 0
        BY <3>3 DEF Weighs
      <4>2. QED
        BY <4>1
    <3>10. Weighs(Q, w, u)
      <4> HIDE DEF u
      <4> QED BY <3>7, <3>8, <3>9 DEF Weighs
    <3>11. QED
      <4> HIDE DEF u
      <4> QED BY <3>10
  <2>2. k + 1 \in 0 .. N
    BY <1>1
  <2>3. QED
    BY <2>1, <2>2
<1>5. N \in T
  <2> HIDE DEF T
  <2>1. \A k \in 0 .. (N - 1) : k \in T => k + 1 \in T
    BY <1>4
  <2>2. \A k \in 0 .. N : k \in T
    <3> HIDE DEF N
    <3> QED BY <1>1, <1>3, <2>1, Counting
  <2>3. N \in 0 .. N
    BY <1>1
  <2>4. QED
    BY <2>2, <2>3
<1>6. QED
  BY <1>1, <1>5

\* A fold that takes some element of the rest at every step ends with the sum.
AddsUp(S, w, h) ==
  /\ h[{}] = 0
  /\ \A t \in SUBSET S : t # {} => \E x \in t : h[t] = w[x] + h[t \ {x}]

\* It ends with the sum, whichever elements it takes.
LEMMA WeighedOnce ==
  ASSUME NEW S, IsFiniteSet(S), NEW w \in [S -> Nat], NEW v, Weighs(S, w, v), NEW h,
         AddsUp(S, w, h)
  PROVE  h[S] = v[S]
<1> DEFINE N == Cardinality(S)
           T == {k \in 0 .. N : \A Q \in SUBSET S : Cardinality(Q) = k => h[Q] = v[Q]}
<1>1. N \in Nat /\ S \in SUBSET S
  BY FS_CardinalityType
<1>2. \A Q \in SUBSET S : IsFiniteSet(Q) /\ Cardinality(Q) \in Nat
  BY FS_Subset, FS_CardinalityType
<1>3. 0 \in T
  <2>1. ASSUME NEW Q \in SUBSET S, Cardinality(Q) = 0 PROVE h[Q] = v[Q]
    <3>1. Q = {}
      BY <1>2, <2>1, FS_EmptySet
    <3>2. QED
      BY <3>1 DEF Weighs, AddsUp
  <2>2. QED
    BY <1>1, <2>1
<1>4. ASSUME NEW k \in 0 .. (N - 1), k \in T PROVE k + 1 \in T
  <2>1. ASSUME NEW Q \in SUBSET S, Cardinality(Q) = k + 1 PROVE h[Q] = v[Q]
    <3>1. Q # {}
      <4>1. Cardinality(Q) # 0
        BY <2>1
      <4>2. QED
        BY <4>1, FS_EmptySet
    <3>2. PICK x \in Q : h[Q] = w[x] + h[Q \ {x}]
      BY <3>1 DEF AddsUp
    <3>3. Q \ {x} \in SUBSET S /\ Cardinality(Q \ {x}) = k
      <4>1. Cardinality(Q \ {x}) = Cardinality(Q) - 1
        BY <1>2, FS_RemoveElement
      <4>2. QED
        BY <2>1, <4>1
    <3>4. h[Q \ {x}] = v[Q \ {x}]
      BY <1>4, <3>3
    <3>5. v[Q] = v[Q \ {x}] + w[x] /\ v[Q \ {x}] \in Nat /\ w[x] \in Nat
      BY <3>3 DEF Weighs
    <3>6. QED
      BY <3>2, <3>4, <3>5
  <2>2. k + 1 \in 0 .. N
    BY <1>1
  <2>3. QED
    BY <2>1, <2>2
<1>5. N \in T
  <2> HIDE DEF T
  <2>1. \A k \in 0 .. (N - 1) : k \in T => k + 1 \in T
    BY <1>4
  <2>2. \A k \in 0 .. N : k \in T
    <3> HIDE DEF N
    <3> QED BY <1>1, <1>3, <2>1, Counting
  <2>3. N \in 0 .. N
    BY <1>1
  <2>4. QED
    BY <2>2, <2>3
<1>6. QED
  BY <1>1, <1>5

\* SumOf is the sum: FoldFunction is a fold of that kind.
LEMMA SumIsWeight ==
  ASSUME NEW S, IsFiniteSet(S), NEW f \in [S -> Nat], NEW v, Weighs(S, f, v)
  PROVE  SumOf(f) = v[S] /\ SumOf(f) \in Nat
<1> DEFINE G(h) == [s \in SUBSET DOMAIN f |->
                      IF s = {} THEN 0
                      ELSE f[CHOOSE x \in s : TRUE] + h[s \ {CHOOSE x \in s : TRUE}]]
           iter == CHOOSE iter : iter = G(iter)
           u == [t \in SUBSET S |-> v[t]]
<1>1. \A t \in SUBSET S : t # {} => (CHOOSE x \in t : TRUE) \in t
  OBVIOUS
<1>2. u = G(u)
  <2>1. ASSUME NEW t \in SUBSET S, t # {}
        PROVE  v[t] = f[CHOOSE x \in t : TRUE] + v[t \ {CHOOSE x \in t : TRUE}]
    <3> DEFINE a == CHOOSE x \in t : TRUE
    <3>1. a \in t
      BY <1>1, <2>1
    <3> HIDE DEF a
    <3>2. v[t] = v[t \ {a}] + f[a] /\ v[t \ {a}] \in Nat /\ f[a] \in Nat
      BY <3>1 DEF Weighs
    <3>3. QED
      BY <3>2 DEF a
  <2>2. ASSUME NEW t \in SUBSET S
        PROVE  u[t] = IF t = {} THEN 0
                      ELSE f[CHOOSE x \in t : TRUE] + u[t \ {CHOOSE x \in t : TRUE}]
    <3>1. t \ {CHOOSE x \in t : TRUE} \in SUBSET S
      OBVIOUS
    <3>2. v[{}] = 0
      BY DEF Weighs
    <3>3. QED
      BY <2>1, <3>1, <3>2
  <2>3. DOMAIN f = S
    OBVIOUS
  <2>4. QED
    BY <2>2, <2>3
<1>3. DOMAIN f = S
  OBVIOUS
<1>a. SumOf(f) = iter[DOMAIN f]
  BY DEF SumOf, FoldFunction, FoldFunctionOnSet, MapThenFoldSet
<1>4. iter = G(iter)
  <2> HIDE DEF G, u
  <2> QED BY <1>2
<1> HIDE DEF iter
<1>5. PICK h : h = G(h) /\ SumOf(f) = h[S]
  <2> HIDE DEF G
  <2> QED BY <1>a, <1>3, <1>4
<1>6. h[{}] = 0
  <2>1. {} \in SUBSET S
    OBVIOUS
  <2>2. G(h)[{}] = 0
    BY <1>3, <2>1
  <2>3. QED
    <3> HIDE DEF G
    <3> QED BY <1>5, <2>2
<1>7. \A t \in SUBSET S : t # {} => \E x \in t : h[t] = f[x] + h[t \ {x}]
  <2>1. ASSUME NEW t \in SUBSET S, t # {}
        PROVE  h[t] = f[CHOOSE x \in t : TRUE] + h[t \ {CHOOSE x \in t : TRUE}]
    <3>1. G(h)[t] = f[CHOOSE x \in t : TRUE] + h[t \ {CHOOSE x \in t : TRUE}]
      BY <1>3, <2>1
    <3>2. QED
      <4> HIDE DEF G
      <4> QED BY <1>5, <3>1
  <2>2. QED
    <3> HIDE DEF G
    <3> QED BY <1>1, <2>1
<1>8. h[S] = v[S]
  <2>1. AddsUp(S, f, h)
    <3> HIDE DEF G, u
    <3> QED BY <1>6, <1>7 DEF AddsUp
  <2>2. QED
    <3> HIDE DEF G, u
    <3> QED BY <2>1, WeighedOnce
<1>9. v[S] \in Nat
  BY DEF Weighs
<1>10. QED
  BY <1>5, <1>8, <1>9

\* Changing one summand.
Raised(f, s, n) == [f EXCEPT ![s] = @ + n]

\* The sum changes by what the summand does.
LEMMA SumChanged ==
  ASSUME NEW S, IsFiniteSet(S), NEW f \in [S -> Nat], NEW s \in S, NEW n \in Nat
  PROVE  SumOf(f) \in Nat /\ SumOf(Raised(f, s, n)) = SumOf(f) + n
<1> DEFINE g == [f EXCEPT ![s] = @ + n]
<1>1. g \in [S -> Nat] /\ g[s] = f[s] + n /\ \A x \in S : x # s => g[x] = f[x]
  OBVIOUS
<1>2. PICK v : Weighs(S, f, v)
  BY WeighingExists
<1> DEFINE u == [t \in SUBSET S |-> IF s \in t THEN v[t] + n ELSE v[t]]
<1>3. \A t \in SUBSET S : v[t] \in Nat /\ \A x \in t : v[t] = v[t \ {x}] + f[x]
  BY <1>2 DEF Weighs
<1>4. \A t \in SUBSET S : u[t] \in Nat
  BY <1>3
<1>5. ASSUME NEW t \in SUBSET S, NEW x \in t PROVE u[t] = u[t \ {x}] + g[x]
  <2>1. t \ {x} \in SUBSET S /\ f[x] \in Nat /\ v[t \ {x}] \in Nat /\ v[t] = v[t \ {x}] + f[x]
    BY <1>3
  <2>2. CASE x = s
    <3>1. u[t] = v[t] + n /\ u[t \ {x}] = v[t \ {x}]
      BY <2>1, <2>2
    <3>2. QED
      <4> HIDE DEF u, g
      <4> QED BY <1>1, <2>1, <2>2, <3>1
  <2>3. CASE x # s /\ s \in t
    <3>1. u[t] = v[t] + n /\ u[t \ {x}] = v[t \ {x}] + n
      BY <2>1, <2>3
    <3>2. QED
      <4> HIDE DEF u, g
      <4> QED BY <1>1, <2>1, <2>3, <3>1
  <2>4. CASE x # s /\ s \notin t
    <3>1. u[t] = v[t] /\ u[t \ {x}] = v[t \ {x}]
      BY <2>1, <2>4
    <3>2. QED
      <4> HIDE DEF u, g
      <4> QED BY <1>1, <2>1, <2>4, <3>1
  <2>5. QED
    BY <2>2, <2>3, <2>4
<1>6. u[{}] = 0 /\ u[S] = v[S] + n
  <2>1. v[{}] = 0
    BY <1>2 DEF Weighs
  <2>2. QED
    BY <2>1
<1>7. Weighs(S, g, u)
  <2> HIDE DEF u, g
  <2> QED BY <1>4, <1>5, <1>6 DEF Weighs
<1>8. SumOf(g) = u[S]
  <2> HIDE DEF u, g
  <2> QED BY <1>1, <1>7, SumIsWeight
<1>9. SumOf(f) = v[S] /\ SumOf(f) \in Nat
  BY <1>2, SumIsWeight
<1>10. QED
  <2> HIDE DEF u
  <2> QED BY <1>6, <1>8, <1>9 DEF Raised

\* Summands that are 0 do not count.
LEMMA SumExtended ==
  ASSUME NEW K, IsFiniteSet(K), NEW S \in SUBSET K, NEW f \in [K -> Nat], NEW g \in [S -> Nat],
         \A x \in S : f[x] = g[x], \A x \in K \ S : f[x] = 0
  PROVE  SumOf(f) = SumOf(g)
<1>1. IsFiniteSet(S)
  BY FS_Subset
<1>2. PICK v : Weighs(K, f, v)
  BY WeighingExists
<1>3. \A t \in SUBSET K : v[t] \in Nat /\ \A x \in t : v[t] = v[t \ {x}] + f[x]
  BY <1>2 DEF Weighs
<1>4. v[{}] = 0
  BY <1>2 DEF Weighs
<1>5. Weighs(S, g, v)
  BY <1>3, <1>4 DEF Weighs
<1> DEFINE u == [t \in SUBSET K |-> v[t \intersect S]]
<1>6. \A t \in SUBSET K : t \intersect S \in SUBSET K
  OBVIOUS
<1>7. \A t \in SUBSET K : u[t] \in Nat
  BY <1>3, <1>6
<1>8. ASSUME NEW t \in SUBSET K, NEW x \in t PROVE u[t] = u[t \ {x}] + f[x]
  <2>1. u[t] = v[t \intersect S] /\ u[t \ {x}] = v[(t \ {x}) \intersect S]
    OBVIOUS
  <2>2. CASE x \in S
    <3>1. (t \ {x}) \intersect S = (t \intersect S) \ {x} /\ x \in t \intersect S
      BY <2>2
    <3>2. v[t \intersect S] = v[(t \intersect S) \ {x}] + f[x]
      <4> HIDE DEF u
      <4>1. t \intersect S \in SUBSET K
        BY <1>6
      <4>2. QED
        BY <1>3, <3>1, <4>1
    <3>3. QED
      <4> HIDE DEF u
      <4> QED BY <2>1, <3>1, <3>2
  <2>3. CASE x \notin S
    <3>1. (t \ {x}) \intersect S = t \intersect S /\ f[x] = 0
      BY <2>3
    <3>2. v[t \intersect S] \in Nat
      BY <1>3, <1>6
    <3>3. QED
      <4> HIDE DEF u
      <4> QED BY <2>1, <3>1, <3>2
  <2>4. QED
    BY <2>2, <2>3
<1>9. u[{}] = 0 /\ u[K] = v[S]
  <2>1. {} \intersect S = {} /\ K \intersect S = S
    OBVIOUS
  <2>2. QED
    BY <1>4, <2>1
<1>10. Weighs(K, f, u)
  <2> HIDE DEF u
  <2> QED BY <1>7, <1>8, <1>9 DEF Weighs
<1>11. SumOf(f) = u[K]
  <2> HIDE DEF u
  <2> QED BY <1>10, SumIsWeight
<1>12. SumOf(g) = v[S]
  BY <1>1, <1>5, SumIsWeight
<1>13. QED
  <2> HIDE DEF u
  <2> QED BY <1>9, <1>11, <1>12

\* The total of a sequence.
LEMMA TotalAppended ==
  ASSUME NEW q \in Seq(Nat), NEW n \in Nat
  PROVE  Total(q) \in Nat /\ Total(Append(q, n)) = Total(q) + n
<1> DEFINE r == Append(q, n)
           N == Len(q)
<1>1. /\ N \in Nat /\ q \in [1 .. N -> Nat] /\ r \in [1 .. N + 1 -> Nat]
      /\ \A i \in 1 .. N : r[i] = q[i]
      /\ r[N + 1] = n
  <2>1. N \in Nat /\ q \in [1 .. N -> Nat]
    OBVIOUS
  <2>2. r \in Seq(Nat) /\ Len(r) = N + 1
    OBVIOUS
  <2>3. r \in [1 .. N + 1 -> Nat]
    <3> HIDE DEF r, N
    <3> QED BY <2>2
  <2>4. (\A i \in 1 .. N : r[i] = q[i]) /\ r[N + 1] = n
    OBVIOUS
  <2>5. QED
    BY <2>1, <2>3, <2>4
<1>2. Total(r) = SumOf(r) /\ Total(q) = SumOf(q)
  BY DEF Total, SumOf, FoldSeq
<1>3. IsFiniteSet(1 .. N) /\ IsFiniteSet(1 .. N + 1)
  <2>1. 1 \in Int /\ N \in Int /\ N + 1 \in Int
    BY <1>1
  <2>2. QED
    BY <2>1, FS_Interval
<1> HIDE DEF N, r
<1>4. PICK v : Weighs(1 .. N + 1, r, v)
  BY <1>1, <1>3, WeighingExists
<1>5. 1 .. N \in SUBSET (1 .. N + 1) /\ N + 1 \in 1 .. N + 1 /\ (1 .. N + 1) \ {N + 1} = 1 .. N
  BY <1>1
<1>6. Weighs(1 .. N, q, v)
  <2>1. v[{}] = 0
    BY <1>4 DEF Weighs
  <2>2. ASSUME NEW t \in SUBSET (1 .. N) PROVE v[t] \in Nat /\ \A x \in t : v[t] = v[t \ {x}] + q[x]
    <3>1. t \in SUBSET (1 .. N + 1) /\ \A x \in t : x \in 1 .. N
      BY <1>5
    <3>2. v[t] \in Nat /\ \A x \in t : v[t] = v[t \ {x}] + r[x]
      BY <1>4, <3>1 DEF Weighs
    <3>3. QED
      BY <1>1, <3>1, <3>2
  <2>3. QED
    BY <2>1, <2>2 DEF Weighs
<1>7. v[1 .. N + 1] = v[1 .. N] + r[N + 1]
  <2>1. v[1 .. N + 1] = v[(1 .. N + 1) \ {N + 1}] + r[N + 1]
    BY <1>4, <1>5 DEF Weighs
  <2>2. QED
    BY <1>5, <2>1
<1>8. SumOf(r) = v[1 .. N + 1]
  BY <1>1, <1>3, <1>4, SumIsWeight
<1>9. SumOf(q) = v[1 .. N] /\ SumOf(q) \in Nat
  BY <1>1, <1>3, <1>6, SumIsWeight
<1>10. QED
  BY <1>1, <1>2, <1>7, <1>8, <1>9 DEF r

\* Nothing adds up to 0.
LEMMA TotalEmpty == Total(<<>>) = 0
<1>2. PICK v : Weighs({}, <<>>, v)
  <2>1. IsFiniteSet({}) /\ <<>> \in [{} -> Nat]
    BY FS_EmptySet
  <2>2. QED
    BY <2>1, WeighingExists
<1>3. SumOf(<<>>) = v[{}]
  <2>1. IsFiniteSet({}) /\ <<>> \in [{} -> Nat]
    BY FS_EmptySet
  <2>2. QED
    BY <1>2, <2>1, SumIsWeight
<1>4. Total(<<>>) = SumOf(<<>>)
  BY DEF Total, SumOf, FoldSeq
<1>5. QED
  BY <1>2, <1>3, <1>4 DEF Weighs

-----------------------------------------------------------------------------
(* Sorted lists every element once.                                        *)

\* A strict total order of S, as a set of pairs, and a sequence sorted by it.
Orders(S, R) ==
  /\ \A x \in S : <<x, x>> \notin R
  /\ \A x, y \in S : x # y => <<x, y>> \in R \/ <<y, x>> \in R
  /\ \A x, y, z \in S : <<x, y>> \in R /\ <<y, z>> \in R => <<x, z>> \in R

Below(S, R, x) == {y \in S : <<y, x>> \in R}

Ranks(q, S, R) ==
  /\ q = [i \in 1 .. Cardinality(S) |-> q[i]]
  /\ \A i \in 1 .. Cardinality(S) :
       (\E x \in S : Cardinality(Below(S, R, x)) = i - 1)
         => q[i] \in S /\ Cardinality(Below(S, R, q[i])) = i - 1

Lists(q, S) ==
  /\ q \in [1 .. Cardinality(S) -> S] /\ Cardinality(S) \in Nat
  /\ \A x \in S : \E i \in 1 .. Cardinality(S) : q[i] = x
  /\ \A i, k \in 1 .. Cardinality(S) : q[i] = q[k] => i = k

\* Who is at place i has i - 1 before it: so each element has one place, and
\* each place one element, as an injection into as many places is onto.
LEMMA RankedLists ==
  ASSUME NEW S, IsFiniteSet(S), NEW R, Orders(S, R), NEW q, Ranks(q, S, R)
  PROVE  Lists(q, S)
<1> DEFINE N == Cardinality(S)
           rank == [x \in S |-> Cardinality(Below(S, R, x))]
<1>1. N \in Nat
  BY FS_CardinalityType
<1>2. \A x \in S : Below(S, R, x) \in SUBSET S /\ x \notin Below(S, R, x)
  BY DEF Orders, Below
<1>3. ASSUME NEW x \in S PROVE IsFiniteSet(Below(S, R, x)) /\ Cardinality(Below(S, R, x)) \in 0 .. (N - 1)
  <2>1. IsFiniteSet(S \ {x}) /\ Cardinality(S \ {x}) = N - 1
    BY FS_RemoveElement
  <2>2. Below(S, R, x) \in SUBSET (S \ {x})
    BY <1>2
  <2> HIDE DEF N
  <2>3. IsFiniteSet(Below(S, R, x)) /\ Cardinality(Below(S, R, x)) <= N - 1
    BY <2>1, <2>2, FS_Subset
  <2>4. Cardinality(Below(S, R, x)) \in Nat
    BY <2>3, FS_CardinalityType
  <2>5. QED
    BY <1>1, <2>3, <2>4
<1>4. ASSUME NEW x \in S, NEW y \in S, <<x, y>> \in R PROVE rank[x] # rank[y]
  <2>1. Below(S, R, x) \in SUBSET Below(S, R, y) /\ x \in Below(S, R, y) /\ x \notin Below(S, R, x)
    BY <1>4 DEF Orders, Below
  <2>2. IsFiniteSet(Below(S, R, y)) /\ IsFiniteSet(Below(S, R, x))
    BY <1>3
  <2>3. rank[x] = Cardinality(Below(S, R, x)) /\ rank[y] = Cardinality(Below(S, R, y))
    OBVIOUS
  <2> HIDE DEF rank
  <2>4. Cardinality(Below(S, R, y)) # Cardinality(Below(S, R, x))
    <3>1. SUFFICES ASSUME Cardinality(Below(S, R, y)) = Cardinality(Below(S, R, x)) PROVE FALSE
      OBVIOUS
    <3>2. Below(S, R, y) = Below(S, R, x)
      BY <2>1, <2>2, <3>1, FS_Subset
    <3>3. QED
      BY <2>1, <3>2
  <2>5. QED
    BY <2>3, <2>4
<1>5. rank \in [S -> 0 .. (N - 1)]
  BY <1>3
<1>6. \A x, y \in S : rank[x] = rank[y] => x = y
  <2> HIDE DEF rank
  <2> QED BY <1>4 DEF Orders
<1> HIDE DEF rank
<1>7. rank \in Injection(S, 0 .. (N - 1))
  BY <1>5, <1>6 DEF Injection, IsInjective
<1>8. IsFiniteSet(0 .. (N - 1)) /\ Cardinality(0 .. (N - 1)) = N
  <2>1. 0 \in Int /\ N - 1 \in Int
    BY <1>1
  <2>2. IsFiniteSet(0 .. (N - 1)) /\ Cardinality(0 .. (N - 1)) = IF 0 > N - 1 THEN 0 ELSE (N - 1) - 0 + 1
    BY <2>1, FS_Interval
  <2> HIDE DEF N
  <2>3. QED
    BY <1>1, <2>2
<1>9. rank \in Surjection(S, 0 .. (N - 1))
  BY <1>7, <1>8, FS_Injection
<1>10. \A i \in 1 .. N : \E x \in S : Cardinality(Below(S, R, x)) = i - 1
  <2>1. \A n \in 0 .. (N - 1) : \E x \in S : rank[x] = n
    BY <1>9 DEF Surjection
  <2>2. \A x \in S : rank[x] = Cardinality(Below(S, R, x))
    BY DEF rank
  <2>3. \A i \in 1 .. N : i - 1 \in 0 .. (N - 1)
    BY <1>1
  <2> HIDE DEF N
  <2>4. QED
    BY <2>1, <2>2, <2>3
<1>11. \A i \in 1 .. N : q[i] \in S /\ rank[q[i]] = i - 1
  <2>1. \A x \in S : rank[x] = Cardinality(Below(S, R, x))
    BY DEF rank
  <2>2. \A i \in 1 .. N : q[i] \in S /\ Cardinality(Below(S, R, q[i])) = i - 1
    BY <1>10 DEF Ranks
  <2> HIDE DEF N
  <2>3. QED
    BY <2>1, <2>2
<1>12. q \in [1 .. N -> S]
  BY <1>11 DEF Ranks
<1>13. \A i, k \in 1 .. N : q[i] = q[k] => i = k
  <2> HIDE DEF N
  <2>1. ASSUME NEW i \in 1 .. N, NEW k \in 1 .. N, q[i] = q[k] PROVE i = k
    <3>1. i - 1 = k - 1
      BY <1>11, <2>1
    <3>2. QED
      BY <1>1, <3>1
  <2>2. QED
    BY <2>1
<1>14. \A x \in S : \E i \in 1 .. N : q[i] = x
  <2>1. ASSUME NEW x \in S PROVE \E i \in 1 .. N : q[i] = x
    <3>1. rank[x] \in 0 .. (N - 1)
      BY <1>5
    <3>2. rank[x] + 1 \in 1 .. N /\ (rank[x] + 1) - 1 = rank[x]
      <4> HIDE DEF N
      <4> QED BY <1>1, <3>1
    <3>3. q[rank[x] + 1] \in S /\ rank[q[rank[x] + 1]] = rank[x]
      BY <1>11, <3>2
    <3>4. QED
      BY <1>6, <3>2, <3>3
  <2>2. QED
    BY <2>1
<1>15. QED
  BY <1>1, <1>12, <1>13, <1>14 DEF Lists

\* The sections have places of their own.
LEMMA PlaceIs ==
  /\ IsFiniteSet(SectionKinds)
  /\ \A s \in SectionKinds : Place(s) \in 1 .. 7 /\ SectionOrder[Place(s)] = s
  /\ \A s, r \in SectionKinds : Place(s) = Place(r) => s = r
<1>1. DOMAIN SectionOrder = 1 .. 7 /\ SectionKinds = {SectionOrder[i] : i \in 1 .. 7}
  <2>1. Len(SectionOrder) = 7 /\ DOMAIN SectionOrder = 1 .. 7
    BY DEF SectionOrder
  <2>2. QED
    BY <2>1 DEF SectionKinds, ToSet
<1>2. \A s \in SectionKinds : Place(s) \in 1 .. 7 /\ SectionOrder[Place(s)] = s
  BY <1>1 DEF Place
<1>3. IsFiniteSet(SectionKinds)
  <2>1. SectionKinds = {"policy", "instructions", "memory", "task", "repository",
                        "evidence", "history"}
    <3>1. 1 .. 7 = {1, 2, 3, 4, 5, 6, 7}
      OBVIOUS
    <3>2. QED
      BY <1>1, <3>1 DEF SectionOrder
  <2>2. \A S, x : IsFiniteSet(S) => IsFiniteSet(S \union {x})
    BY FS_AddElement
  <2>3. IsFiniteSet({"policy"})
    BY FS_Singleton
  <2>4. IsFiniteSet({"policy"} \union {"instructions"} \union {"memory"} \union {"task"}
                    \union {"repository"} \union {"evidence"} \union {"history"})
    BY <2>2, <2>3
  <2>5. {"policy"} \union {"instructions"} \union {"memory"} \union {"task"}
          \union {"repository"} \union {"evidence"} \union {"history"} = SectionKinds
    BY <2>1
  <2>6. QED
    BY <2>4, <2>5
<1>4. QED
  BY <1>2, <1>3

\* The sections of a budget by priority: each once.
LEMMA ByPriorityLists ==
  ASSUME NEW b \in Budgets
  PROVE  Lists(ByPriority(b.specs), DOMAIN b.specs) /\ IsFiniteSet(DOMAIN b.specs)
<1> DEFINE S == DOMAIN b.specs
           R == {p \in S \X S : \/ b.specs[p[1]].priority > b.specs[p[2]].priority
                                \/ /\ b.specs[p[1]].priority = b.specs[p[2]].priority
                                   /\ Place(p[1]) < Place(p[2])}
<1>1. S \in SUBSET SectionKinds /\ \A s \in S : b.specs[s].priority \in Nat
  BY AssemblyConstants DEF IsBudget
<1>2. IsFiniteSet(S)
  <2> HIDE DEF S
  <2> QED BY <1>1, PlaceIs, FS_Subset
<1>3. \A x, y \in S : <<x, y>> \in R <=>
        \/ b.specs[x].priority > b.specs[y].priority
        \/ b.specs[x].priority = b.specs[y].priority /\ Place(x) < Place(y)
  OBVIOUS
<1>4. \A x \in S : Place(x) \in Nat
  <2>1. \A n \in 1 .. 7 : n \in Nat
    OBVIOUS
  <2> QED BY <1>1, <2>1, PlaceIs
<1>5. \A x, y \in S : Place(x) = Place(y) => x = y
  BY <1>1, PlaceIs
<1>6. Orders(S, R)
  <2> HIDE DEF S, R
  <2>1. \A x \in S : <<x, x>> \notin R
    BY <1>1, <1>3, <1>4
  <2>2. \A x, y \in S : x # y => <<x, y>> \in R \/ <<y, x>> \in R
    BY <1>1, <1>3, <1>4, <1>5
  <2>3. \A x, y, z \in S : <<x, y>> \in R /\ <<y, z>> \in R => <<x, z>> \in R
    BY <1>1, <1>3, <1>4
  <2>4. QED
    BY <2>1, <2>2, <2>3 DEF Orders
<1>7. Ranks(ByPriority(b.specs), S, R)
  <2> DEFINE Earlier(x) == {y \in S : \/ b.specs[y].priority > b.specs[x].priority
                                      \/ /\ b.specs[y].priority = b.specs[x].priority
                                         /\ Place(y) < Place(x)}
             q == ByPriority(b.specs)
  <2>1. \A x \in S : Below(S, R, x) = Earlier(x)
    <3> HIDE DEF S, R
    <3> QED BY <1>3 DEF Below
  <2>2. q = [i \in 1 .. Cardinality(S) |-> CHOOSE x \in S : Cardinality(Earlier(x)) = i - 1]
    BY DEF ByPriority, Sorted
  <2> HIDE DEF q, Earlier, S, R
  <2>3. \A i \in 1 .. Cardinality(S) :
          (\E x \in S : Cardinality(Earlier(x)) = i - 1)
            => q[i] \in S /\ Cardinality(Earlier(q[i])) = i - 1
    BY <2>2
  <2>4. q = [i \in 1 .. Cardinality(S) |-> q[i]]
    BY <2>2
  <2>5. Ranks(q, S, R)
    BY <2>1, <2>3, <2>4 DEF Ranks
  <2>6. QED
    BY <2>5 DEF q
<1>8. Lists(ByPriority(b.specs), S)
  <2> HIDE DEF S, R
  <2> QED BY <1>2, <1>6, <1>7, RankedLists
<1>9. QED
  BY <1>2, <1>8

\* The candidates of a request in their order: each once.
LEMMA AssemblyOrderLists ==
  ASSUME NEW cands \in Requests
  PROVE  Lists(AssemblyOrder(cands), cands)
<1> DEFINE Before(x, y) == \/ Place(x.section) < Place(y.section)
                           \/ /\ x.section = y.section
                              /\ \/ x.relevance > y.relevance
                                 \/ x.relevance = y.relevance /\ x.label < y.label
           R == {p \in cands \X cands : Before(p[1], p[2])}
<1>1. /\ cands \in SUBSET Pool /\ IsFiniteSet(cands)
      /\ \A c \in cands : c.section \in SectionKinds /\ c.relevance \in Nat /\ c.label \in Nat
      /\ \A c, d \in cands : c.section = d.section /\ c.relevance = d.relevance /\ c.label = d.label
                               => c = d
  BY AssemblyConstants DEF IsCandidate
<1>2. \A x, y \in cands : <<x, y>> \in R <=> Before(x, y)
  OBVIOUS
<1>3. /\ \A c \in cands : Place(c.section) \in Nat
      /\ \A c, d \in cands : Place(c.section) = Place(d.section) => c.section = d.section
  <2>1. \A n \in 1 .. 7 : n \in Nat
    OBVIOUS
  <2> QED BY <1>1, <2>1, PlaceIs
<1>4. Orders(cands, R)
  <2> HIDE DEF R
  <2>1. \A x \in cands : <<x, x>> \notin R
    BY <1>1, <1>2, <1>3
  <2>2. \A x, y \in cands : x # y => <<x, y>> \in R \/ <<y, x>> \in R
    BY <1>1, <1>2, <1>3
  <2>3. \A x, y, z \in cands : <<x, y>> \in R /\ <<y, z>> \in R => <<x, z>> \in R
    BY <1>1, <1>2, <1>3
  <2>4. QED
    BY <2>1, <2>2, <2>3 DEF Orders
<1>5. Ranks(AssemblyOrder(cands), cands, R)
  <2> DEFINE Earlier(x) == {y \in cands : Before(y, x)}
             q == AssemblyOrder(cands)
  <2>1. \A x \in cands : Below(cands, R, x) = Earlier(x)
    <3> HIDE DEF R, Before
    <3> QED BY <1>2 DEF Below
  <2>2. q = [i \in 1 .. Cardinality(cands) |->
               CHOOSE x \in cands : Cardinality(Earlier(x)) = i - 1]
    BY DEF AssemblyOrder, Sorted
  <2> HIDE DEF q, Earlier, R
  <2>3. \A i \in 1 .. Cardinality(cands) :
          (\E x \in cands : Cardinality(Earlier(x)) = i - 1)
            => q[i] \in cands /\ Cardinality(Earlier(q[i])) = i - 1
    BY <2>2
  <2>4. q = [i \in 1 .. Cardinality(cands) |-> q[i]]
    BY <2>2
  <2>5. Ranks(q, cands, R)
    BY <2>1, <2>3, <2>4 DEF Ranks
  <2>6. QED
    BY <2>5 DEF q
<1>6. QED
  <2> HIDE DEF R
  <2> QED BY <1>1, <1>4, <1>5, RankedLists

\* Max, which FoldLeft chooses by, is the largest element.
LEMMA MaxIsLargest ==
  ASSUME NEW n \in Nat, NEW T \in SUBSET (1 .. n), T # {}
  PROVE  Max(T) \in T /\ \A x \in T : x <= Max(T)
<1> DEFINE D == {n - x : x \in T}
<1>a. \A x \in T : n - x \in Nat
  OBVIOUS
<1>b. D \in SUBSET Nat
  BY <1>a
<1>c. PICK t \in T : TRUE
  OBVIOUS
<1>d. n - t \in D
  OBVIOUS
<1>1. D \in SUBSET Nat /\ D # {}
  BY <1>b, <1>d
<1>2. PICK d \in D : \A e \in D : d <= e
  <2> HIDE DEF D
  <2> QED BY <1>1, LeastNumber
<1>3. PICK m \in T : d = n - m
  OBVIOUS
<1>4. \A x \in T : m >= x
  <2>1. ASSUME NEW x \in T PROVE n - m <= n - x
    BY <1>2, <1>3
  <2>2. QED
    BY <2>1
<1>5. QED
  BY <1>4 DEF Max

-----------------------------------------------------------------------------
(* The top-up, section by section.                                         *)

\* The recursive function that FoldLeft speaks of exists.
FoldsBy(g, V, c, N, step) ==
  /\ g \in [SUBSET (1 .. N) -> V]
  /\ \A t \in SUBSET (1 .. N) : g[t] = IF t = {} THEN c ELSE step[Max(t)][g[t \ {Max(t)}]]

\* It is built up to k by taking the sets of the numbers up to k.
LEMMA FoldedExists ==
  ASSUME NEW V, NEW c \in V, NEW N \in Nat, NEW step, Steps(N, V, step)
  PROVE  \E g : FoldsBy(g, V, c, N, step)
<1> DEFINE Upto(g, k) ==
             \A t \in SUBSET (1 .. k) : g[t] = IF t = {} THEN c ELSE step[Max(t)][g[t \ {Max(t)}]]
           T == {k \in 0 .. N : \E g \in [SUBSET (1 .. k) -> V] : Upto(g, k)}
<1>1. 0 \in T
  <2> DEFINE g == [t \in SUBSET (1 .. 0) |-> c]
  <2>1. g \in [SUBSET (1 .. 0) -> V] /\ \A t \in SUBSET (1 .. 0) : t = {} /\ g[t] = c
    OBVIOUS
  <2>2. Upto(g, 0)
    <3> HIDE DEF g
    <3> QED BY <2>1
  <2>3. \E h \in [SUBSET (1 .. 0) -> V] : Upto(h, 0)
    <3> HIDE DEF g, Upto
    <3> QED BY <2>1, <2>2
  <2>4. 0 \in 0 .. N
    OBVIOUS
  <2>5. QED
    <3> HIDE DEF Upto
    <3> QED BY <2>3, <2>4
<1>2. ASSUME NEW k \in 0 .. (N - 1), k \in T PROVE k + 1 \in T
  <2>1. PICK f \in [SUBSET (1 .. k) -> V] : Upto(f, k)
    BY <1>2
  <2> DEFINE g == [t \in SUBSET (1 .. k + 1) |->
                     IF k + 1 \in t THEN step[k + 1][f[t \ {k + 1}]] ELSE f[t]]
  <2>2. k \in Nat /\ k + 1 \in Nat /\ k + 1 \in 1 .. N /\ k + 1 \in 0 .. N
    OBVIOUS
  <2>a. \A x \in V : step[k + 1][x] \in V
    BY <2>2 DEF Steps
  <2>3. \A t \in SUBSET (1 .. k + 1) : /\ t \ {k + 1} \in SUBSET (1 .. k)
                                       /\ k + 1 \notin t => t \in SUBSET (1 .. k)
    BY <2>2
  <2>4. g \in [SUBSET (1 .. k + 1) -> V]
    BY <2>a, <2>3
  <2>5. ASSUME NEW t \in SUBSET (1 .. k + 1), t # {}
        PROVE  g[t] = step[Max(t)][g[t \ {Max(t)}]]
    <3>1. Max(t) \in t /\ \A x \in t : x <= Max(t)
      <4> HIDE DEF g
      <4> QED BY <2>2, <2>5, MaxIsLargest
    <3>2. CASE k + 1 \in t
      <4>1. Max(t) = k + 1
        <5>1. Max(t) \in 1 .. k + 1 /\ k + 1 <= Max(t)
          BY <3>1, <3>2
        <5>2. QED
          BY <2>2, <5>1
      <4>2. g[t] = step[k + 1][f[t \ {k + 1}]]
        BY <3>2
      <4>3. t \ {k + 1} \in SUBSET (1 .. k + 1) /\ k + 1 \notin t \ {k + 1}
        OBVIOUS
      <4>4. g[t \ {k + 1}] = f[t \ {k + 1}]
        BY <4>3
      <4>5. QED
        <5> HIDE DEF g
        <5> QED BY <4>1, <4>2, <4>4
    <3>3. CASE k + 1 \notin t
      <4>1. t \in SUBSET (1 .. k)
        BY <2>3, <3>3
      <4>2. f[t] = step[Max(t)][f[t \ {Max(t)}]]
        BY <2>1, <2>5, <4>1
      <4>3. t \ {Max(t)} \in SUBSET (1 .. k + 1) /\ k + 1 \notin t \ {Max(t)}
        BY <3>3
      <4>4. g[t] = f[t] /\ g[t \ {Max(t)}] = f[t \ {Max(t)}]
        BY <3>3, <4>3
      <4>5. QED
        <5> HIDE DEF g
        <5> QED BY <4>2, <4>4
    <3>4. QED
      BY <3>2, <3>3
  <2>6. g[{}] = c
    <3>1. {} \in SUBSET (1 .. k) /\ {} \in SUBSET (1 .. k + 1)
      OBVIOUS
    <3>2. f[{}] = c
      BY <2>1, <3>1
    <3>3. QED
      BY <3>1, <3>2
  <2>7. Upto(g, k + 1)
    <3> HIDE DEF g
    <3> QED BY <2>5, <2>6
  <2>8. \E h \in [SUBSET (1 .. k + 1) -> V] : Upto(h, k + 1)
    <3> HIDE DEF g, Upto
    <3> QED BY <2>4, <2>7
  <2>9. QED
    <3> HIDE DEF Upto
    <3> QED BY <2>2, <2>8
<1>3. N \in T
  <2> HIDE DEF T
  <2>1. \A k \in 0 .. (N - 1) : k \in T => k + 1 \in T
    BY <1>2
  <2>2. \A k \in 0 .. N : k \in T
    BY <1>1, <2>1, Counting
  <2>3. QED
    BY <2>2
<1>4. QED
  BY <1>3 DEF FoldsBy

Demands == [SectionKinds -> Nat]
Accs(D) == [alloc : [D -> Nat], left : Nat]

\* The whole of a pass: f[k] is what it has given after k sections.
Passes(f, acc, b, demand, target) ==
  LET order == ByPriority(b.specs)
      N     == Cardinality(DOMAIN b.specs)
  IN  /\ f \in [0 .. N -> Accs(DOMAIN b.specs)]
      /\ f[0] = acc
      /\ \A k \in 1 .. N : f[k] = Grant(f[k - 1], b.specs, demand, target, order[k])

\* What anything in the budget or the demand may be, and what a grant is.
LEMMA GrantIs ==
  ASSUME NEW b \in Budgets, NEW demand, \A s \in DOMAIN b.specs : Want(demand, s) \in Nat,
         NEW target \in {"ideal", "max"}, NEW s \in DOMAIN b.specs,
         NEW a \in Accs(DOMAIN b.specs)
  PROVE  LET goal == Lesser(b.specs[s][target], Want(demand, s))
             n    == Lesser(Greater(goal - a.alloc[s], 0), a.left)
         IN  /\ goal \in Nat /\ n \in Nat /\ n <= a.left
             /\ Grant(a, b.specs, demand, target, s)
                  = [alloc |-> [a.alloc EXCEPT ![s] = @ + n], left |-> a.left - n]
             /\ Grant(a, b.specs, demand, target, s) \in Accs(DOMAIN b.specs)
<1> DEFINE goal == Lesser(b.specs[s][target], Want(demand, s))
           n    == Lesser(Greater(goal - a.alloc[s], 0), a.left)
<1>1. b.specs[s][target] \in Nat
  <2>1. b.specs[s].ideal \in Nat /\ b.specs[s].max \in Nat
    BY AssemblyConstants DEF IsBudget
  <2>2. QED
    BY <2>1
<1>2. goal \in Nat
  BY <1>1 DEF Lesser
<1>3. a.alloc \in [DOMAIN b.specs -> Nat] /\ a.alloc[s] \in Nat /\ a.left \in Nat
  BY DEF Accs
<1>4. n \in Nat /\ n <= a.left
  <2> HIDE DEF goal
  <2> QED BY <1>2, <1>3 DEF Lesser, Greater
<1>5. Grant(a, b.specs, demand, target, s)
        = [alloc |-> [a.alloc EXCEPT ![s] = @ + n], left |-> a.left - n]
  BY DEF Grant
<1>6. [alloc |-> [a.alloc EXCEPT ![s] = @ + n], left |-> a.left - n] \in Accs(DOMAIN b.specs)
  <2> HIDE DEF n
  <2> QED BY <1>3, <1>4 DEF Accs
<1>7. QED
  BY <1>2, <1>4, <1>5, <1>6

\* TopUp is such a pass: the fold's function agrees with it on every 1 .. k.
LEMMA TopUpPasses ==
  ASSUME NEW b \in Budgets, NEW demand, \A s \in DOMAIN b.specs : Want(demand, s) \in Nat,
         NEW target \in {"ideal", "max"}, NEW acc \in Accs(DOMAIN b.specs)
  PROVE  \E f : /\ Passes(f, acc, b, demand, target)
                /\ TopUp(acc, b.specs, demand, target) = f[Cardinality(DOMAIN b.specs)]
<1> DEFINE D == DOMAIN b.specs
           N == Cardinality(D)
           V == Accs(D)
           order == ByPriority(b.specs)
           Gr(a, s) == Grant(a, b.specs, demand, target, s)
           step == [k \in 1 .. N |-> [a \in V |-> Gr(a, order[k])]]
<1>1. N \in Nat /\ order \in [1 .. N -> D] /\ DOMAIN order = 1 .. N
  BY ByPriorityLists DEF Lists
<1>2. \A a \in V, s \in D : Gr(a, s) \in V
  BY GrantIs
<1>3. Steps(N, V, step) /\ \A k \in 1 .. N, a \in V : step[k][a] = Gr(a, order[k])
  <2> HIDE DEF D, N, V, order, Gr
  <2>1. \A k \in 1 .. N : [a \in V |-> Gr(a, order[k])] \in [V -> V]
    BY <1>1, <1>2
  <2>2. QED
    BY <2>1 DEF Steps
<1>4. acc \in V
  OBVIOUS
<1> HIDE DEF step
<1>a. PICK g : FoldsBy(g, V, acc, N, step)
  <2> HIDE DEF D, N, V, order, Gr
  <2> QED BY <1>1, <1>3, <1>4, FoldedExists
<1>5. /\ g \in [SUBSET (1 .. N) -> V]
      /\ \A t \in SUBSET (1 .. N) : g[t] = IF t = {} THEN acc ELSE step[Max(t)][g[t \ {Max(t)}]]
  BY <1>a DEF FoldsBy
<1> DEFINE G(h) == [s \in SUBSET DOMAIN order |->
                      IF s = {} THEN acc ELSE Gr(h[s \ {Max(s)}], order[Max(s)])]
           iter == CHOOSE iter : iter = G(iter)
<1>6. g = G(g)
  <2> HIDE DEF D, N, V, order, Gr, G
  <2>1. ASSUME NEW t \in SUBSET (1 .. N), t # {}
        PROVE  g[t] = Gr(g[t \ {Max(t)}], order[Max(t)])
    <3>1. Max(t) \in 1 .. N
      BY <1>1, <2>1, MaxIsLargest
    <3>2. t \ {Max(t)} \in SUBSET (1 .. N)
      OBVIOUS
    <3>3. g[t \ {Max(t)}] \in V
      BY <1>5, <3>2
    <3>4. QED
      BY <1>3, <1>5, <2>1, <3>1, <3>3
  <2>2. g[{}] = acc
    BY <1>5
  <2>3. QED
    BY <1>1, <1>5, <2>1, <2>2 DEF G
<1>7. TopUp(acc, b.specs, demand, target) = iter[DOMAIN order]
  BY DEF TopUp, FoldLeft, MapThenFoldSet
<1>8. iter = G(iter)
  <2> HIDE DEF G, N, V, D, order
  <2> QED BY <1>6
<1> HIDE DEF iter
<1>9. PICK f : Iterates(N, V, acc, step, f)
  <2> HIDE DEF D, N, V, order, Gr
  <2> QED BY <1>1, <1>3, <1>4, Iteration
<1>10. /\ f \in [0 .. N -> V] /\ f[0] = acc
       /\ \A k \in 1 .. N : f[k] = Gr(f[k - 1], order[k])
  <2>1. \A k \in 1 .. N : k - 1 \in 0 .. N
    <3> HIDE DEF N
    <3> QED BY <1>1
  <2>2. QED
    <3> HIDE DEF D, N, V, order, Gr
    <3> QED BY <1>3, <1>9, <2>1 DEF Iterates
<1> DEFINE T == {k \in 0 .. N : iter[1 .. k] = f[k]}
<1>11. N \in T
  <2> HIDE DEF D, N, V, order, Gr
  <2>1. iter[{}] = acc
    <3>1. G(iter)[{}] = acc
      OBVIOUS
    <3>2. QED
      <4> HIDE DEF G
      <4> QED BY <1>8, <3>1
  <2>2. 0 \in T
    <3>1. 1 .. 0 = {} /\ 0 \in 0 .. N
      BY <1>1
    <3>2. QED
      BY <1>10, <2>1, <3>1
  <2>3. ASSUME NEW k \in 0 .. (N - 1), k \in T PROVE k + 1 \in T
    <3>a. /\ k \in Nat /\ k + 1 \in Nat /\ k + 1 \in 1 .. N /\ k + 1 \in 0 .. N /\ (k + 1) - 1 = k
      BY <1>1
    <3>b. 1 .. k + 1 \in SUBSET (1 .. N)
      BY <1>1, <3>a
    <3>c. (1 .. k + 1) \ {k + 1} = 1 .. k /\ k + 1 \in 1 .. k + 1
      BY <3>a
    <3>1. /\ k \in Nat /\ k + 1 \in Nat /\ k + 1 \in 1 .. N /\ k + 1 \in 0 .. N /\ (k + 1) - 1 = k
          /\ 1 .. k + 1 \in SUBSET (1 .. N) /\ 1 .. k + 1 # {} /\ (1 .. k + 1) \ {k + 1} = 1 .. k
      BY <3>a, <3>b, <3>c
    <3>2. Max(1 .. k + 1) = k + 1
      <4>1. 1 .. k + 1 \in SUBSET (1 .. k + 1) /\ k + 1 \in 1 .. k + 1
        BY <3>1
      <4>2. Max(1 .. k + 1) \in 1 .. k + 1 /\ \A x \in 1 .. k + 1 : x <= Max(1 .. k + 1)
        <5> HIDE DEF T
        <5> QED BY <3>1, <4>1, MaxIsLargest
      <4>3. k + 1 <= Max(1 .. k + 1)
        BY <4>1, <4>2
      <4>4. QED
        BY <3>1, <4>2, <4>3
    <3>3. G(iter)[1 .. k + 1] = Gr(iter[1 .. k], order[k + 1])
      BY <1>1, <3>1, <3>2
    <3>4. iter[1 .. k + 1] = Gr(iter[1 .. k], order[k + 1])
      <4> HIDE DEF G
      <4> QED BY <1>8, <3>3
    <3>5. f[k + 1] = Gr(f[k], order[k + 1])
      BY <1>10, <3>1
    <3>6. QED
      BY <2>3, <3>1, <3>4, <3>5
  <2> HIDE DEF T
  <2>4. \A k \in 0 .. (N - 1) : k \in T => k + 1 \in T
    BY <2>3
  <2>5. \A k \in 0 .. N : k \in T
    BY <1>1, <2>2, <2>4, Counting
  <2>6. QED
    BY <1>1, <2>5
<1>12. TopUp(acc, b.specs, demand, target) = f[N]
  <2> HIDE DEF G, D, V, order, Gr
  <2> QED BY <1>1, <1>7, <1>11
<1>13. Passes(f, acc, b, demand, target)
  BY <1>10 DEF Passes
<1>14. QED
  BY <1>12, <1>13

\* What a pass leaves after k sections: nothing is lost, nobody is given more
\* than it wants or more than there was, and a section that is still short has
\* left nothing to those after it.
Aim(b, demand, target, s) == Lesser(b.specs[s][target], Want(demand, s))

Share(new, old, left, aim) ==
  /\ old <= new /\ new <= old + left
  /\ new <= old \/ new <= aim

PassedTo(a, k, acc, b, demand, target) ==
  LET order == ByPriority(b.specs)
      N     == Cardinality(DOMAIN b.specs)
      aim(i)   == Aim(b, demand, target, order[i])
      short(i) == a.alloc[order[i]] < aim(i)
  IN  /\ a \in Accs(DOMAIN b.specs) /\ a.left <= acc.left
      /\ SumOf(a.alloc) + a.left = SumOf(acc.alloc) + acc.left
      /\ \A i \in 1 .. N :
           /\ Share(a.alloc[order[i]], acc.alloc[order[i]], acc.left, aim(i))
           /\ i > k => a.alloc[order[i]] = acc.alloc[order[i]]
           /\ i <= k /\ short(i) =>
                /\ a.left = 0
                /\ \A m \in i + 1 .. N : a.alloc[order[m]] = acc.alloc[order[m]]

\* Before the first section nothing has been given.
LEMMA PassBegins ==
  ASSUME NEW b \in Budgets, NEW demand, \A s \in DOMAIN b.specs : Want(demand, s) \in Nat,
         NEW target \in {"ideal", "max"}, NEW acc \in Accs(DOMAIN b.specs)
  PROVE  PassedTo(acc, 0, acc, b, demand, target)
<1> DEFINE order == ByPriority(b.specs)
           N == Cardinality(DOMAIN b.specs)
<1>1. N \in Nat /\ order \in [1 .. N -> DOMAIN b.specs]
  BY ByPriorityLists DEF Lists
<1>2. acc.left \in Nat /\ \A s \in DOMAIN b.specs : acc.alloc[s] \in Nat
  BY DEF Accs
<1>3. \A i \in 1 .. N : acc.alloc[order[i]] \in Nat
  <2> HIDE DEF order, N
  <2> QED BY <1>1, <1>2
<1>4. \A i \in 1 .. N :
        Share(acc.alloc[order[i]], acc.alloc[order[i]], acc.left, Aim(b, demand, target, order[i]))
  <2> HIDE DEF order, N
  <2> QED BY <1>2, <1>3 DEF Share
<1>5. \A i \in 1 .. N : ~ (i <= 0)
  <2> HIDE DEF N
  <2> QED BY <1>1
<1>6. QED
  BY <1>2, <1>4, <1>5 DEF PassedTo

\* One section more.
LEMMA PassGoesOn ==
  ASSUME NEW b \in Budgets, NEW demand, \A s \in DOMAIN b.specs : Want(demand, s) \in Nat,
         NEW target \in {"ideal", "max"}, NEW acc \in Accs(DOMAIN b.specs),
         NEW k \in Nat, k + 1 \in 1 .. Cardinality(DOMAIN b.specs),
         NEW a, PassedTo(a, k, acc, b, demand, target)
  PROVE  PassedTo(Grant(a, b.specs, demand, target, ByPriority(b.specs)[k + 1]),
                  k + 1, acc, b, demand, target)
<1> DEFINE D == DOMAIN b.specs
           order == ByPriority(b.specs)
           N == Cardinality(D)
           s == order[k + 1]
           aim(i) == Aim(b, demand, target, order[i])
           n == Lesser(Greater(aim(k + 1) - a.alloc[s], 0), a.left)
           r == Grant(a, b.specs, demand, target, s)
<1>1. /\ N \in Nat /\ order \in [1 .. N -> D] /\ IsFiniteSet(D)
      /\ \A i, m \in 1 .. N : order[i] = order[m] => i = m
  BY ByPriorityLists DEF Lists
<1>2. /\ a \in Accs(D) /\ a.left <= acc.left
      /\ SumOf(a.alloc) + a.left = SumOf(acc.alloc) + acc.left
      /\ \A i \in 1 .. N :
           /\ Share(a.alloc[order[i]], acc.alloc[order[i]], acc.left, aim(i))
           /\ i > k => a.alloc[order[i]] = acc.alloc[order[i]]
           /\ i <= k /\ a.alloc[order[i]] < aim(i) =>
                /\ a.left = 0
                /\ \A m \in i + 1 .. N : a.alloc[order[m]] = acc.alloc[order[m]]
  BY DEF PassedTo
<1>3. s \in D /\ k + 1 \in 1 .. N
  <2>1. k + 1 \in 1 .. N
    OBVIOUS
  <2> HIDE DEF D, N, order
  <2> QED BY <1>1, <2>1
<1>4. /\ n \in Nat /\ n <= a.left /\ aim(k + 1) \in Nat /\ r \in Accs(D)
      /\ r = [alloc |-> [a.alloc EXCEPT ![s] = @ + n], left |-> a.left - n]
  <2>0. s \in DOMAIN b.specs /\ a \in Accs(DOMAIN b.specs)
    BY <1>2, <1>3
  <2> HIDE DEF s
  <2>1. LET goal == Lesser(b.specs[s][target], Want(demand, s))
            m    == Lesser(Greater(goal - a.alloc[s], 0), a.left)
        IN  /\ goal \in Nat /\ m \in Nat /\ m <= a.left
            /\ Grant(a, b.specs, demand, target, s)
                 = [alloc |-> [a.alloc EXCEPT ![s] = @ + m], left |-> a.left - m]
            /\ Grant(a, b.specs, demand, target, s) \in Accs(DOMAIN b.specs)
    <3> HIDE DEF D, N, order
    <3> QED BY <2>0, GrantIs
  <2>2. aim(k + 1) = Lesser(b.specs[s][target], Want(demand, s))
    BY DEF Aim, s
  <2>3. QED
    BY <2>1, <2>2
<1>5. /\ a.alloc \in [D -> Nat] /\ a.left \in Nat /\ acc.alloc \in [D -> Nat] /\ acc.left \in Nat
  BY <1>2 DEF Accs
<1>6. n = Lesser(Greater(aim(k + 1) - a.alloc[s], 0), a.left)
  OBVIOUS
<1> HIDE DEF D, N, s, order, n, r, aim
<1>7. r.left = a.left - n /\ r.alloc = [a.alloc EXCEPT ![s] = @ + n]
  BY <1>4
<1>8. r.alloc[s] = a.alloc[s] + n /\ \A x \in D : x # s => r.alloc[x] = a.alloc[x]
  BY <1>3, <1>5, <1>7
<1>9. r.left \in Nat /\ r.left <= acc.left
  BY <1>2, <1>4, <1>5, <1>7
<1>10. SumOf(r.alloc) + r.left = SumOf(acc.alloc) + acc.left
  <2>1. SumOf(a.alloc) \in Nat /\ SumOf(Raised(a.alloc, s, n)) = SumOf(a.alloc) + n
    BY <1>1, <1>3, <1>4, <1>5, SumChanged
  <2>a. r.alloc = Raised(a.alloc, s, n)
    BY <1>7 DEF Raised
  <2> DEFINE x == SumOf(a.alloc)
             y == SumOf(r.alloc)
             z == SumOf(acc.alloc) + acc.left
  <2>2. x \in Nat /\ y = x + n /\ x + a.left = z
    BY <1>2, <2>1, <2>a
  <2> HIDE DEF x, y, z
  <2>3. y + r.left = z
    BY <1>4, <1>5, <1>7, <2>2
  <2>4. QED
    BY <2>3 DEF y, z
<1>11. s = order[k + 1] /\ \A i \in 1 .. N : order[i] \in D /\ (i # k + 1 => order[i] # s)
  BY <1>1, <1>3 DEF s
<1>12. \A i \in 1 .. N : i # k + 1 => r.alloc[order[i]] = a.alloc[order[i]]
  BY <1>8, <1>11
<1>13. a.alloc[s] \in Nat /\ acc.alloc[s] = a.alloc[s]
  <2>1. k + 1 > k
    OBVIOUS
  <2>2. QED
    BY <1>2, <1>3, <1>5, <1>11, <2>1
<1>14. Share(r.alloc[s], acc.alloc[s], acc.left, aim(k + 1))
  BY <1>2, <1>4, <1>5, <1>6, <1>8, <1>13 DEF Share, Lesser, Greater
<1>15. r.alloc[s] < aim(k + 1) => r.left = 0
  BY <1>4, <1>5, <1>6, <1>7, <1>8, <1>13 DEF Lesser, Greater
<1>16. a.left = 0 => r.left = 0 /\ r.alloc[s] = acc.alloc[s]
  <2>1. a.left = 0 => n = 0
    BY <1>4, <1>5
  <2>2. QED
    BY <1>7, <1>8, <1>13, <2>1
<1>17. ASSUME NEW i \in 1 .. N
       PROVE  /\ Share(r.alloc[order[i]], acc.alloc[order[i]], acc.left, aim(i))
              /\ i > k + 1 => r.alloc[order[i]] = acc.alloc[order[i]]
              /\ i <= k + 1 /\ r.alloc[order[i]] < aim(i) =>
                   /\ r.left = 0
                   /\ \A m \in i + 1 .. N : r.alloc[order[m]] = acc.alloc[order[m]]
  <2>1. CASE i = k + 1
    <3>1. ASSUME NEW m \in i + 1 .. N PROVE r.alloc[order[m]] = acc.alloc[order[m]]
      <4>1. m \in 1 .. N /\ m # k + 1 /\ m > k
        BY <1>1, <2>1
      <4>2. QED
        BY <1>2, <1>12, <4>1
    <3>2. ~ (i > k + 1)
      BY <2>1
    <3>3. QED
      BY <1>11, <1>14, <1>15, <2>1, <3>1, <3>2
  <2>2. CASE i # k + 1
    <3>1. r.alloc[order[i]] = a.alloc[order[i]]
      BY <1>12, <2>2
    <3>2. Share(r.alloc[order[i]], acc.alloc[order[i]], acc.left, aim(i))
      BY <1>2, <3>1
    <3>3. i > k + 1 => r.alloc[order[i]] = acc.alloc[order[i]]
      <4>1. i > k + 1 => i > k
        OBVIOUS
      <4>2. QED
        BY <1>2, <3>1, <4>1
    <3>4. ASSUME i <= k + 1, r.alloc[order[i]] < aim(i)
          PROVE  /\ r.left = 0
                 /\ \A m \in i + 1 .. N : r.alloc[order[m]] = acc.alloc[order[m]]
      <4>1. i <= k
        BY <2>2, <3>4
      <4>2. a.left = 0 /\ \A m \in i + 1 .. N : a.alloc[order[m]] = acc.alloc[order[m]]
        BY <1>2, <3>1, <3>4, <4>1
      <4>3. ASSUME NEW m \in i + 1 .. N PROVE r.alloc[order[m]] = acc.alloc[order[m]]
        <5>1. m \in 1 .. N
          BY <1>1
        <5>2. CASE m = k + 1
          BY <1>11, <1>16, <4>2, <5>2
        <5>3. CASE m # k + 1
          BY <1>12, <4>2, <5>1, <5>3
        <5>4. QED
          BY <5>2, <5>3
      <4>4. QED
        BY <1>16, <4>2, <4>3
    <3>5. QED
      BY <3>2, <3>3, <3>4
  <2>3. QED
    BY <2>1, <2>2
<1>18. PassedTo(r, k + 1, acc, b, demand, target)
  BY <1>4, <1>9, <1>10, <1>17 DEF PassedTo, D, N, order, aim
<1>19. QED
  BY <1>18 DEF r, s, order

\* So it is after the last one.
LEMMA TopUpIs ==
  ASSUME NEW b \in Budgets, NEW demand, \A s \in DOMAIN b.specs : Want(demand, s) \in Nat,
         NEW target \in {"ideal", "max"}, NEW acc \in Accs(DOMAIN b.specs)
  PROVE  PassedTo(TopUp(acc, b.specs, demand, target), Cardinality(DOMAIN b.specs),
                  acc, b, demand, target)
<1> DEFINE N == Cardinality(DOMAIN b.specs)
           order == ByPriority(b.specs)
<1>1. N \in Nat
  BY ByPriorityLists DEF Lists
<1>2. PICK f : Passes(f, acc, b, demand, target) /\ TopUp(acc, b.specs, demand, target) = f[N]
  BY TopUpPasses
<1>3. f[0] = acc /\ \A k \in 1 .. N : f[k] = Grant(f[k - 1], b.specs, demand, target, order[k])
  BY <1>2 DEF Passes
<1> DEFINE T == {k \in 0 .. N : PassedTo(f[k], k, acc, b, demand, target)}
<1>4. 0 \in T
  <2>1. 0 \in 0 .. N
    BY <1>1
  <2>2. QED
    BY <1>3, <2>1, PassBegins
<1>5. ASSUME NEW k \in 0 .. (N - 1), k \in T PROVE k + 1 \in T
  <2>1. k \in Nat /\ k + 1 \in 1 .. N /\ k + 1 \in 0 .. N /\ (k + 1) - 1 = k
    BY <1>1
  <2>2. PassedTo(f[k], k, acc, b, demand, target)
    BY <1>5
  <2>3. f[k + 1] = Grant(f[k], b.specs, demand, target, order[k + 1])
    BY <1>3, <2>1
  <2>4. PassedTo(Grant(f[k], b.specs, demand, target, order[k + 1]), k + 1, acc, b, demand, target)
    BY <2>1, <2>2, PassGoesOn
  <2>5. QED
    BY <2>1, <2>3, <2>4
<1>6. N \in T
  <2> HIDE DEF T
  <2>1. \A k \in 0 .. (N - 1) : k \in T => k + 1 \in T
    BY <1>5
  <2> HIDE DEF N
  <2>2. \A k \in 0 .. N : k \in T
    BY <1>1, <1>4, <2>1, Counting
  <2>3. QED
    BY <1>1, <2>2
<1>7. QED
  BY <1>2, <1>6


\* A sum of numbers is one.
LEMMA SumIsNat ==
  ASSUME NEW S, IsFiniteSet(S), NEW f \in [S -> Nat]
  PROVE  SumOf(f) \in Nat
<1>1. PICK v : Weighs(S, f, v)
  BY WeighingExists
<1>2. QED
  BY <1>1, SumIsWeight

\* What allocate's two passes leave.
LEMMA TopUpBothIs ==
  ASSUME NEW b \in Budgets, NEW demand, \A s \in DOMAIN b.specs : Want(demand, s) \in Nat,
         SumOf(Floors(b.specs, demand)) <= b.available
  PROVE  LET F     == Floors(b.specs, demand)
             N     == Cardinality(DOMAIN b.specs)
             start == [alloc |-> F, left |-> b.available - SumOf(F)]
             one   == TopUp(start, b.specs, demand, "ideal")
             two   == TopUp(one, b.specs, demand, "max")
         IN  /\ F \in [DOMAIN b.specs -> Nat] /\ start \in Accs(DOMAIN b.specs)
             /\ SumOf(start.alloc) + start.left = b.available
             /\ one \in Accs(DOMAIN b.specs) /\ two \in Accs(DOMAIN b.specs)
             /\ PassedTo(one, N, start, b, demand, "ideal")
             /\ PassedTo(two, N, one, b, demand, "max")
             /\ Caps(b, demand) = two.alloc
<1> DEFINE D     == DOMAIN b.specs
           F     == Floors(b.specs, demand)
           N     == Cardinality(D)
           start == [alloc |-> F, left |-> b.available - SumOf(F)]
           one   == TopUp(start, b.specs, demand, "ideal")
           two   == TopUp(one, b.specs, demand, "max")
<1>1. b.available \in Nat /\ \A s \in D : b.specs[s].min \in Nat
  BY AssemblyConstants DEF IsBudget
<1>2. F \in [D -> Nat]
  BY <1>1 DEF Floors, Lesser
<1>3. SumOf(F) \in Nat
  <2> HIDE DEF F
  <2>1. IsFiniteSet(D)
    BY ByPriorityLists
  <2>2. QED
    BY <1>2, <2>1, SumIsNat
<1>4. start \in Accs(D) /\ SumOf(start.alloc) + start.left = b.available
  <2> DEFINE x == SumOf(F)
  <2>1. x \in Nat /\ x <= b.available
    BY <1>3
  <2>2. start.alloc = F /\ start.left = b.available - x
    OBVIOUS
  <2>3. x + (b.available - x) = b.available /\ b.available - x \in Nat
    <3> HIDE DEF x
    <3> QED BY <1>1, <2>1
  <2>4. start \in Accs(D)
    <3> HIDE DEF F
    <3> QED BY <1>2, <2>3 DEF Accs
  <2>5. QED
    BY <2>2, <2>3, <2>4
<1>5. PassedTo(one, N, start, b, demand, "ideal")
  <2> HIDE DEF start
  <2> QED BY <1>4, TopUpIs
<1>6. one \in Accs(D)
  <2> HIDE DEF one, start
  <2> QED BY <1>5 DEF PassedTo
<1>7. PassedTo(two, N, one, b, demand, "max") /\ two \in Accs(D)
  <2> HIDE DEF one
  <2>1. PassedTo(two, N, one, b, demand, "max")
    BY <1>6, TopUpIs
  <2> HIDE DEF two
  <2>2. QED
    BY <2>1 DEF PassedTo
<1>8. Caps(b, demand) = two.alloc
  BY DEF Caps
<1>9. QED
  BY <1>2, <1>4, <1>5, <1>6, <1>7, <1>8

\* The two passes give what allocate's doc promises: whoever is short after a
\* pass has left nothing to those after it, and for the next pass.
LEMMA CapsAreGiven ==
  ASSUME NEW b \in Budgets, NEW demand, \A s \in DOMAIN b.specs : Want(demand, s) \in Nat,
         SumOf(Floors(b.specs, demand)) <= b.available,
         NEW given \in [SectionKinds -> Nat],
         \A s \in SectionKinds \ DOMAIN b.specs : given[s] = 0,
         \A s \in DOMAIN b.specs : given[s] = Caps(b, demand)[s]
  PROVE  Given(b, demand, given)
<1> DEFINE D     == DOMAIN b.specs
           order == ByPriority(b.specs)
           F     == Floors(b.specs, demand)
           N     == Cardinality(D)
           start == [alloc |-> F, left |-> b.available - SumOf(F)]
           one   == TopUp(start, b.specs, demand, "ideal")
           two   == TopUp(one, b.specs, demand, "max")
           ideal(i) == Aim(b, demand, "ideal", order[i])
           max(i)   == Aim(b, demand, "max", order[i])
<1>1. /\ N \in Nat /\ order \in [1 .. N -> D] /\ DOMAIN order = 1 .. N
      /\ \A s \in D : \E i \in 1 .. N : order[i] = s
      /\ IsFiniteSet(D) /\ D \in SUBSET SectionKinds
  <2>1. D \in SUBSET SectionKinds
    BY AssemblyConstants DEF IsBudget
  <2>2. QED
    BY <2>1, ByPriorityLists DEF Lists
<1>2. /\ F \in [D -> Nat] /\ start \in Accs(D)
      /\ SumOf(start.alloc) + start.left = b.available
      /\ one \in Accs(D) /\ two \in Accs(D)
      /\ PassedTo(one, N, start, b, demand, "ideal")
      /\ PassedTo(two, N, one, b, demand, "max")
      /\ Caps(b, demand) = two.alloc
  BY TopUpBothIs
<1>a. start.alloc = F /\ DOMAIN F = D
  BY DEF Floors
<1>b. \A s \in D : /\ b.specs[s].ideal \in Nat /\ b.specs[s].max \in Nat
                   /\ b.specs[s].ideal <= b.specs[s].max
  BY AssemblyConstants DEF IsBudget
<1>c. b.available \in Nat
  BY AssemblyConstants DEF IsBudget
<1> HIDE DEF start, one, two, F
<1>3. /\ SumOf(one.alloc) + one.left = b.available
      /\ \A i \in 1 .. N :
           /\ Share(one.alloc[order[i]], F[order[i]], start.left, ideal(i))
           /\ one.alloc[order[i]] < ideal(i) =>
                /\ one.left = 0
                /\ \A j \in i + 1 .. N : one.alloc[order[j]] = F[order[j]]
  <2>1. \A i \in 1 .. N : i <= N
    BY <1>1
  <2>2. QED
    BY <1>2, <1>a, <2>1 DEF PassedTo
<1>4. /\ SumOf(two.alloc) + two.left = b.available
      /\ \A i \in 1 .. N :
           /\ Share(two.alloc[order[i]], one.alloc[order[i]], one.left, max(i))
           /\ two.alloc[order[i]] < max(i) =>
                /\ two.left = 0
                /\ \A j \in i + 1 .. N : two.alloc[order[j]] = one.alloc[order[j]]
  <2>1. \A i \in 1 .. N : i <= N
    BY <1>1
  <2>2. QED
    BY <1>2, <1>3, <2>1 DEF PassedTo
<1>5. /\ start.left \in Nat /\ one.left \in Nat /\ two.left \in Nat
      /\ one.alloc \in [D -> Nat] /\ two.alloc \in [D -> Nat]
  BY <1>2 DEF Accs
<1>6. \A i \in 1 .. N : order[i] \in D
  BY <1>1
<1>7. \A i \in 1 .. N : ideal(i) \in Nat /\ max(i) \in Nat /\ ideal(i) <= max(i)
  <2>1. ASSUME NEW s \in D
        PROVE  /\ Aim(b, demand, "ideal", s) \in Nat /\ Aim(b, demand, "max", s) \in Nat
               /\ Aim(b, demand, "ideal", s) <= Aim(b, demand, "max", s)
    <3> DEFINE w == Want(demand, s)
               x == b.specs[s].ideal
               y == b.specs[s].max
    <3>1. w \in Nat /\ x \in Nat /\ y \in Nat /\ x <= y
      BY <1>b
    <3> HIDE DEF w, x, y
    <3>2. Lesser(x, w) \in Nat /\ Lesser(y, w) \in Nat /\ Lesser(x, w) <= Lesser(y, w)
      BY <3>1 DEF Lesser
    <3>3. QED
      BY <3>2 DEF Aim, w, x, y
  <2> HIDE DEF D, order, N
  <2>2. QED
    BY <1>6, <2>1
<1> HIDE DEF D, order, N, ideal, max
<1>8. ASSUME NEW i \in 1 .. N
      PROVE  LET f == F[order[i]]
                 x == one.alloc[order[i]]
                 y == two.alloc[order[i]]
             IN  /\ y \in f .. Greater(f, max(i))
                 /\ y < Greater(f, ideal(i)) => x < ideal(i)
                 /\ y < Greater(f, max(i)) => y < max(i)
                 /\ x <= Greater(f, ideal(i))
                 /\ one.left = 0 => y = x
                 /\ ~ (y < max(i)) => y = Greater(f, max(i))
  <2> DEFINE f == F[order[i]]
             x == one.alloc[order[i]]
             y == two.alloc[order[i]]
             m == max(i)
             w == ideal(i)
             o == start.left
             p == one.left
  <2>1. f \in Nat /\ x \in Nat /\ y \in Nat
    BY <1>2, <1>5, <1>6
  <2>2. w \in Nat /\ m \in Nat /\ w <= m /\ o \in Nat /\ p \in Nat
    BY <1>5, <1>7
  <2>3. Share(x, f, o, w) /\ Share(y, x, p, m)
    BY <1>3, <1>4
  <2> HIDE DEF f, x, y, m, w, o, p
  <2>4. /\ y \in f .. Greater(f, m)
        /\ y < Greater(f, w) => x < w
        /\ y < Greater(f, m) => y < m
        /\ x <= Greater(f, w)
        /\ p = 0 => y = x
        /\ ~ (y < m) => y = Greater(f, m)
    BY <2>1, <2>2, <2>3 DEF Share, Greater
  <2>5. QED
    BY <2>4 DEF f, x, y, m, w, o, p
<1>9. \A i \in 1 .. N : given[order[i]] = two.alloc[order[i]]
  BY <1>2, <1>6 DEF D
<1>10. SumOf(given) = SumOf(two.alloc)
  <2>1. \A s \in D : given[s] = two.alloc[s]
    BY <1>2 DEF D
  <2>2. \A s \in SectionKinds \ D : given[s] = 0
    BY DEF D
  <2>3. IsFiniteSet(SectionKinds) /\ D \in SUBSET SectionKinds /\ two.alloc \in [D -> Nat]
    BY <1>1, <1>5, PlaceIs
  <2> DEFINE g == two.alloc
  <2>4. g \in [D -> Nat] /\ \A s \in D : given[s] = g[s]
    BY <2>1, <2>3
  <2> HIDE DEF g
  <2>5. SumOf(given) = SumOf(g)
    BY <2>2, <2>3, <2>4, SumExtended
  <2>6. QED
    BY <2>5 DEF g
<1>11. SumOf(two.alloc) \in Nat
  BY <1>1, <1>5, SumIsNat
<1>12. SumOf(given) <= b.available /\ (SumOf(given) < b.available => two.left # 0)
  <2> DEFINE x == SumOf(two.alloc)
             y == SumOf(given)
  <2>1. x \in Nat /\ y = x /\ x + two.left = b.available
    BY <1>4, <1>10, <1>11
  <2> HIDE DEF x, y
  <2>2. y <= b.available /\ (y < b.available => two.left # 0)
    BY <1>5, <1>c, <2>1
  <2>3. QED
    BY <2>2 DEF y
<1> DEFINE Goal(s, t) == Greater(F[s], Lesser(b.specs[s][t], Want(demand, s)))
<1>13. \A i \in 1 .. N : /\ Goal(order[i], "ideal") = Greater(F[order[i]], ideal(i))
                         /\ Goal(order[i], "max") = Greater(F[order[i]], max(i))
  BY DEF ideal, max, Aim
<1> HIDE DEF Goal
<1>14. \A s \in D : given[s] \in F[s] .. Goal(s, "max")
  <2>1. \A i \in 1 .. N : given[order[i]] \in F[order[i]] .. Goal(order[i], "max")
    BY <1>8, <1>9, <1>13
  <2>2. QED
    BY <1>1, <2>1
<1>15. (\E s \in D : given[s] < Goal(s, "ideal")) => \A s \in D : given[s] <= Goal(s, "ideal")
  <2>1. ASSUME NEW i \in 1 .. N, given[order[i]] < Goal(order[i], "ideal"), NEW j \in 1 .. N
        PROVE  given[order[j]] <= Goal(order[j], "ideal")
    <3>1. one.left = 0
      BY <1>3, <1>8, <1>9, <1>13, <2>1
    <3>2. QED
      BY <1>8, <1>9, <1>13, <3>1
  <2>2. QED
    BY <1>1, <2>1
<1>16. ASSUME NEW i \in 1 .. N, NEW j \in 1 .. N, i < j
       PROVE  /\ given[order[i]] < Goal(order[i], "ideal") => given[order[j]] = F[order[j]]
              /\ given[order[i]] < Goal(order[i], "max") =>
                   given[order[j]] <= Goal(order[j], "ideal")
  <2>1. j \in i + 1 .. N
    BY <1>1, <1>16
  <2>2. ASSUME given[order[i]] < Goal(order[i], "ideal") PROVE given[order[j]] = F[order[j]]
    <3>1. one.alloc[order[i]] < ideal(i)
      BY <1>8, <1>9, <1>13, <2>2
    <3>2. one.left = 0 /\ one.alloc[order[j]] = F[order[j]]
      BY <1>3, <2>1, <3>1
    <3>3. QED
      BY <1>8, <1>9, <3>2
  <2>3. ASSUME given[order[i]] < Goal(order[i], "max")
        PROVE  given[order[j]] <= Goal(order[j], "ideal")
    <3>1. two.alloc[order[i]] < max(i)
      BY <1>8, <1>9, <1>13, <2>3
    <3>2. two.alloc[order[j]] = one.alloc[order[j]]
      BY <1>4, <2>1, <3>1
    <3>3. QED
      BY <1>8, <1>9, <1>13, <3>2
  <2>4. QED
    BY <2>2, <2>3
<1>17. SumOf(given) < b.available => \A s \in D : given[s] = Goal(s, "max")
  <2>1. ASSUME two.left # 0, NEW i \in 1 .. N PROVE given[order[i]] = Goal(order[i], "max")
    <3>1. ~ (two.alloc[order[i]] < max(i))
      BY <1>4, <2>1
    <3>2. QED
      BY <1>8, <1>9, <1>13, <3>1
  <2>2. QED
    BY <1>1, <1>12, <2>1
<1>18. QED
  BY <1>1, <1>12, <1>14, <1>15, <1>16, <1>17, <1>a DEF Given, Goal, F, D, order

-----------------------------------------------------------------------------
(* Rendering.                                                              *)

\* Min, which FitOne and RenderSource choose by, is the least element.
LEMMA MinIsLeast ==
  ASSUME NEW T \in SUBSET Nat, T # {}
  PROVE  Min(T) \in T /\ \A x \in T : Min(T) <= x
<1>1. \E m \in T : \A x \in T : m <= x
  BY LeastNumber
<1>2. QED
  BY <1>1 DEF Min

\* The totals of a sequence's beginnings grow by its elements.
LEMMA PrefixGrows ==
  ASSUME NEW q \in Seq(Nat), NEW k \in 0 .. Len(q)
  PROVE  /\ Total(SubSeq(q, 1, k)) \in Nat
         /\ k < Len(q) => Total(SubSeq(q, 1, k + 1)) = Total(SubSeq(q, 1, k)) + q[k + 1]
         /\ k = Len(q) => SubSeq(q, 1, k) = q
<1>1. SubSeq(q, 1, k) \in Seq(Nat) /\ Len(SubSeq(q, 1, k)) = k
  BY SubSeqProperties
<1>2. Total(SubSeq(q, 1, k)) \in Nat
  BY <1>1, TotalAppended
<1>3. ASSUME k < Len(q)
      PROVE  Total(SubSeq(q, 1, k + 1)) = Total(SubSeq(q, 1, k)) + q[k + 1]
  <2>1. k + 1 \in 1 .. Len(q) /\ q[k + 1] \in Nat
    BY <1>3
  <2>2. SubSeq(q, 1, k + 1) = Append(SubSeq(q, 1, k), q[k + 1])
    BY <2>1
  <2>3. QED
    BY <1>1, <2>1, <2>2, TotalAppended
<1>4. k = Len(q) => SubSeq(q, 1, k) = q
  OBVIOUS
<1>5. QED
  BY <1>2, <1>3, <1>4

\* A text of counted lines has a count.
LEMMA TotalIsNat ==
  ASSUME NEW q \in Seq(Nat)
  PROVE  Total(q) \in Nat
BY TotalAppended

\* A sequence of positive counts outweighs each of its proper beginnings.
LEMMA PrefixIsLess ==
  ASSUME NEW q \in Seq(Nat \ {0}), NEW k \in 0 .. Len(q), k # Len(q)
  PROVE  Total(SubSeq(q, 1, k)) < Total(q)
<1> DEFINE N == Len(q)
           T == {n \in 0 .. N : k < n => Total(SubSeq(q, 1, k)) < Total(SubSeq(q, 1, n))}
<1>1. q \in Seq(Nat) /\ N \in Nat /\ \A i \in 1 .. N : q[i] \in Nat \ {0}
  OBVIOUS
<1>2. \A n \in 0 .. N :
        /\ Total(SubSeq(q, 1, n)) \in Nat
        /\ n < N => Total(SubSeq(q, 1, n + 1)) = Total(SubSeq(q, 1, n)) + q[n + 1]
  BY <1>1, PrefixGrows
<1>3. 0 \in T
  BY <1>1
<1>4. ASSUME NEW n \in 0 .. (N - 1), n \in T PROVE n + 1 \in T
  <2>1. n \in 0 .. N /\ n < N /\ n + 1 \in 0 .. N /\ n + 1 \in 1 .. N
    BY <1>1
  <2> DEFINE x == Total(SubSeq(q, 1, k))
             y == Total(SubSeq(q, 1, n))
             z == Total(SubSeq(q, 1, n + 1))
  <2>2. x \in Nat /\ y \in Nat /\ q[n + 1] \in Nat \ {0} /\ z = y + q[n + 1]
    BY <1>1, <1>2, <2>1
  <2>3. k < n => x < y
    BY <1>4
  <2>4. k < n + 1 => k < n \/ k = n
    BY <2>1
  <2>5. k = n => x = y
    OBVIOUS
  <2> HIDE DEF x, y, z
  <2>6. k < n + 1 => x < z
    BY <2>2, <2>3, <2>4, <2>5
  <2>7. QED
    BY <2>1, <2>6 DEF x, z
<1>5. N \in T
  <2> HIDE DEF T
  <2>1. \A n \in 0 .. (N - 1) : n \in T => n + 1 \in T
    BY <1>4
  <2> HIDE DEF N
  <2>2. \A n \in 0 .. N : n \in T
    BY <1>1, <1>3, <2>1, Counting
  <2>3. QED
    BY <1>1, <2>2
<1>6. SubSeq(q, 1, N) = q
  BY <1>1, PrefixGrows
<1>7. k < N
  OBVIOUS
<1>8. QED
  BY <1>5, <1>6, <1>7

\* A text that fits a target, cut or not, fits a larger one.
LEMMA TextRendered ==
  ASSUME NEW lines \in Seq(Nat), NEW target \in Nat
  PROVE  /\ RenderText(lines, target) \in Nat
         /\ \A less \in 0 .. target :
              RenderText(lines, less) <= less => RenderText(lines, target) <= target
<1> DEFINE fitting(t) == {k \in 1 .. Len(lines) - 1 :
                            Total(SubSeq(lines, 1, k)) + Marker <= t}
           kept(t) == IF fitting(t) = {} THEN 1 ELSE Max(fitting(t))
           cut(k) == Total(SubSeq(lines, 1, k)) + Marker
<1>1. Total(lines) \in Nat /\ Marker \in Nat /\ Len(lines) \in Nat
  BY AssemblyConstants, TotalIsNat
<1>2. \A k \in 0 .. Len(lines) : cut(k) \in Nat
  <2>1. \A k \in 0 .. Len(lines) : Total(SubSeq(lines, 1, k)) \in Nat
    BY PrefixGrows
  <2>2. QED
    BY <1>1, <2>1
<1>3. \A t \in Nat : fitting(t) # {} => kept(t) \in fitting(t)
  <2>1. ASSUME NEW t \in Nat, fitting(t) # {} PROVE Max(fitting(t)) \in fitting(t)
    <3>1. fitting(t) \in SUBSET (1 .. Len(lines))
      BY <1>1
    <3> HIDE DEF fitting
    <3>2. QED
      BY <1>1, <2>1, <3>1, MaxIsLargest
  <2>2. QED
    BY <2>1
<1>4. \A t : RenderText(lines, t) = IF Total(lines) <= t THEN Total(lines) ELSE cut(kept(t))
  BY DEF RenderText
<1>5. \A t \in Nat : \A k \in fitting(t) : k \in 0 .. Len(lines) /\ cut(k) <= t
  BY <1>1
<1>6. \A t, u \in Nat : t <= u => fitting(t) \subseteq fitting(u)
  <2>1. ASSUME NEW t \in Nat, NEW u \in Nat, t <= u, NEW k \in fitting(t) PROVE k \in fitting(u)
    <3> DEFINE x == cut(k)
    <3>1. x \in Nat /\ x <= t
      BY <1>2, <1>5
    <3>2. x <= u
      <4> HIDE DEF x
      <4> QED BY <2>1, <3>1
    <3>3. QED
      BY <3>2
  <2>2. QED
    BY <2>1
<1>7. \A t \in Nat : fitting(t) = {} => kept(t) = 1
  OBVIOUS
<1>8. Total(lines) <= target \/ Len(lines) # 0
  <2>1. Len(lines) = 0 => lines = <<>>
    OBVIOUS
  <2>2. QED
    BY <2>1, TotalEmpty
<1>9. Len(lines) # 0 => 1 \in 0 .. Len(lines)
  BY <1>1
<1> HIDE DEF fitting, kept, cut
<1>10. RenderText(lines, target) \in Nat
  BY <1>1, <1>2, <1>3, <1>4, <1>5, <1>7, <1>8, <1>9
<1>11. ASSUME NEW less \in 0 .. target, RenderText(lines, less) <= less
       PROVE  RenderText(lines, target) <= target
  <2>1. less \in Nat /\ less <= target
    OBVIOUS
  <2>2. CASE Total(lines) <= target
    BY <1>4, <2>2
  <2>3. CASE ~ (Total(lines) <= target)
    <3>1. ~ (Total(lines) <= less)
      BY <1>1, <2>1, <2>3
    <3>2. CASE fitting(target) # {}
      BY <1>3, <1>4, <1>5, <2>3, <3>2
    <3>3. CASE fitting(target) = {}
      <4>1. fitting(less) = {}
        BY <1>6, <2>1, <3>3
      <4>2. RenderText(lines, less) = cut(1) /\ RenderText(lines, target) = cut(1)
        BY <1>4, <1>7, <2>1, <2>3, <3>1, <3>3, <4>1
      <4>3. cut(1) \in Nat
        BY <1>2, <1>8, <1>9, <2>3
      <4>4. QED
        BY <1>11, <2>1, <4>2, <4>3
    <3>4. QED
      BY <3>2, <3>3
  <2>4. QED
    BY <2>2, <2>3
<1>12. QED
  BY <1>10, <1>11

\* A source that fits whole is rendered whole.
LEMMA SourceRendered ==
  ASSUME NEW header \in Nat, NEW symbols \in Seq(Nat \ {0}), NEW target \in Nat
  PROVE  /\ RenderSource(header, symbols, target) \in Nat
         /\ header + Total(symbols) \in Nat
         /\ header + Total(symbols) <= target =>
              RenderSource(header, symbols, target) = header + Total(symbols)
<1> DEFINE N == Len(symbols)
           Size(k) == header + Total(SubSeq(symbols, 1, k))
           stops == {k \in 1 .. Len(symbols) :
                       \/ Size(k) >= target
                       \/ k < Len(symbols) /\ Size(k + 1) > target}
           kept == IF stops = {} THEN Len(symbols) ELSE Min(stops)
<1>1. symbols \in Seq(Nat) /\ N \in Nat /\ Marker \in Nat
  BY AssemblyConstants
<1>2. \A k \in 0 .. N : Size(k) \in Nat
  <2>1. \A k \in 0 .. N : Total(SubSeq(symbols, 1, k)) \in Nat
    BY <1>1, PrefixGrows
  <2>2. QED
    BY <2>1
<1>3. Size(N) = header + Total(symbols)
  <2>1. N \in 0 .. Len(symbols)
    BY <1>1
  <2>2. SubSeq(symbols, 1, N) = symbols
    <3> HIDE DEF N
    <3>1. N = Len(symbols)
      BY DEF N
    <3> QED BY <1>1, <2>1, <3>1, PrefixGrows
  <2>3. QED
    BY <2>2
<1>4. \A k \in 0 .. N : k # N => Size(k) < Size(N)
  <2>1. ASSUME NEW k \in 0 .. N, k # N PROVE Size(k) < Size(N)
    <3> DEFINE x == Total(SubSeq(symbols, 1, k))
               y == Total(symbols)
    <3>1. x < y
      BY <2>1, PrefixIsLess
    <3>2. x \in Nat /\ y \in Nat
      BY <1>1, PrefixGrows, TotalIsNat
    <3>3. Size(k) = header + x /\ Size(N) = header + y
      BY <1>3
    <3> HIDE DEF x, y, Size
    <3>4. QED
      BY <3>1, <3>2, <3>3
  <2>2. QED
    BY <2>1
<1>5. stops # {} => kept \in stops
  <2>1. stops \in SUBSET Nat
    OBVIOUS
  <2> HIDE DEF stops
  <2>2. QED
    BY <2>1, MinIsLeast
<1>6. kept \in 0 .. N
  <2>1. stops \subseteq 0 .. N /\ N \in 0 .. N
    BY <1>1
  <2>2. stops = {} => kept = N
    OBVIOUS
  <2> HIDE DEF stops, kept
  <2>3. QED
    BY <1>5, <2>1, <2>2
<1>7. RenderSource(header, symbols, target) = Size(kept) + (IF kept < N THEN Marker ELSE 0)
  BY DEF RenderSource
<1>8. RenderSource(header, symbols, target) \in Nat
  <2> HIDE DEF Size, kept, N
  <2> QED BY <1>1, <1>2, <1>6, <1>7
<1>9. ASSUME Size(N) <= target PROVE kept = N
  <2>1. ASSUME NEW k \in stops, k # N PROVE FALSE
    <3>1. k \in 1 .. N /\ k < N /\ k \in 0 .. N /\ k + 1 \in 0 .. N
      BY <1>1, <2>1
    <3>2. Size(k) >= target \/ Size(k + 1) > target
      OBVIOUS
    <3> DEFINE x == Size(k)
               y == Size(k + 1)
               z == Size(N)
    <3>3. x < z /\ x \in Nat /\ y \in Nat /\ z \in Nat
      <4> HIDE DEF Size
      <4>1. N \in 0 .. N
        BY <1>1
      <4> QED BY <1>2, <1>4, <2>1, <3>1, <4>1
    <3>4. y <= z
      <4> HIDE DEF Size
      <4>1. CASE k + 1 = N
        <5>1. y = z
          BY <4>1
        <5>2. QED
          BY <3>3, <5>1
      <4>2. CASE k + 1 # N
        <5>1. y < z
          BY <1>4, <3>1, <4>2
        <5>2. QED
          <6> HIDE DEF y, z
          <6> QED BY <3>3, <5>1
      <4>3. QED
        BY <4>1, <4>2
    <3>5. (x >= target \/ y > target) /\ z <= target
      BY <1>9, <3>2
    <3> HIDE DEF x, y, z
    <3>6. QED
      BY <3>3, <3>4, <3>5
  <2>2. stops = {} => kept = N
    OBVIOUS
  <2> HIDE DEF stops, kept
  <2>3. QED
    BY <1>5, <2>1, <2>2
<1>10. N \in 0 .. N /\ ~ (N < N)
  BY <1>1
<1> HIDE DEF Size, kept, N
<1>11. Size(N) <= target => RenderSource(header, symbols, target) = Size(N)
  <2>1. Size(N) \in Nat
    BY <1>2, <1>10
  <2>2. QED
    BY <1>7, <1>9, <1>10, <2>1
<1>12. QED
  BY <1>2, <1>3, <1>8, <1>10, <1>11

\* A candidate's size at a fidelity, when so much is left for it.
SizeOf(c, level, left) ==
  LET room == Greater(left - c.overhead, 0)
  IN  IF c.kind = "source" /\ level # "reference"
      THEN c.header + Total(c.symbols[level])
      ELSE Render(c, level, room)

\* The four fidelities.
LEMMA LevelsAre ==
  /\ ToSet(Ladder) = Cuts \union {"reference"}
  /\ DOMAIN Ladder = 1 .. 4 /\ \A i \in 1 .. 4 : Ladder[i] \in ToSet(Ladder)
<1>1. DOMAIN Ladder = 1 .. 4 /\ ToSet(Ladder) = {Ladder[i] : i \in 1 .. 4}
  <2>1. Len(Ladder) = 4 /\ DOMAIN Ladder = 1 .. 4
    BY DEF Ladder
  <2>2. QED
    BY <2>1 DEF ToSet
<1>2. 1 .. 4 = {1, 2, 3, 4}
  OBVIOUS
<1>3. {Ladder[i] : i \in {1, 2, 3, 4}} = Cuts \union {"reference"}
  BY DEF Ladder, Cuts
<1>4. QED
  BY <1>1, <1>2, <1>3

\* Both, for a candidate at a fidelity.
LEMMA RenderIsNat ==
  ASSUME NEW c \in Pool, NEW level \in ToSet(Ladder), NEW target \in Nat
  PROVE  /\ Render(c, level, target) \in Nat
         /\ c.kind = "source" /\ level # "reference" =>
              /\ c.header + Total(c.symbols[level]) \in Nat
              /\ c.header + Total(c.symbols[level]) <= target =>
                   Render(c, level, target) = c.header + Total(c.symbols[level])
<1>1. IsCandidate(c) /\ RefTokens \in Nat
  BY AssemblyConstants
<1>2. level \in Cuts \/ level = "reference"
  BY LevelsAre
<1>3. CASE level = "reference"
  <2>1. Render(c, level, target) = IF c.kind = "text" THEN RefTokens ELSE c.reference
    BY <1>3 DEF Render
  <2>2. c.kind = "text" \/ c.reference \in Nat
    BY <1>1 DEF IsCandidate
  <2>3. QED
    BY <1>1, <1>3, <2>1, <2>2
<1>4. CASE level # "reference" /\ c.kind = "text"
  <2>1. Render(c, level, target) = RenderText(c.lines, target)
    BY <1>4 DEF Render
  <2>2. c.lines \in Seq(Nat)
    BY <1>1, <1>4 DEF IsCandidate
  <2>3. QED
    BY <1>4, <2>1, <2>2, TextRendered
<1>5. CASE level # "reference" /\ c.kind = "source"
  <2>1. Render(c, level, target) = RenderSource(c.header, c.symbols[level], target)
    BY <1>5 DEF Render
  <2>2. c.header \in Nat /\ c.symbols \in [Cuts -> Seq(Nat \ {0})]
    BY <1>1, <1>5 DEF IsCandidate
  <2>3. c.symbols[level] \in Seq(Nat \ {0})
    BY <1>2, <1>5, <2>2
  <2> DEFINE h == c.header
             q == c.symbols[level]
  <2>4. h \in Nat /\ q \in Seq(Nat \ {0})
    BY <2>2, <2>3
  <2> HIDE DEF h, q
  <2>5. /\ RenderSource(h, q, target) \in Nat /\ h + Total(q) \in Nat
        /\ h + Total(q) <= target => RenderSource(h, q, target) = h + Total(q)
    BY <2>4, SourceRendered
  <2>6. QED
    BY <1>5, <2>1, <2>5 DEF h, q
<1>6. QED
  BY <1>1, <1>3, <1>4, <1>5 DEF IsCandidate

\* A candidate's size and its wrapper's are numbers.
LEMMA SizeIsNat ==
  ASSUME NEW c \in Pool, NEW level \in ToSet(Ladder), NEW left \in Int
  PROVE  SizeOf(c, level, left) \in Nat /\ c.overhead \in Nat
<1>1. c.overhead \in Nat
  BY AssemblyConstants DEF IsCandidate
<1>2. Greater(left - c.overhead, 0) \in Nat
  BY <1>1 DEF Greater
<1>3. QED
  BY <1>1, <1>2, RenderIsNat DEF SizeOf

\* What does not fit in the room there is does not fit in a smaller one.
LEMMA StillTooBig ==
  ASSUME NEW c \in Pool, NEW level \in ToSet(Ladder), NEW left \in Int, NEW less \in Int,
         less <= left, SizeOf(c, level, left) + c.overhead > left
  PROVE  SizeOf(c, level, less) + c.overhead > less
<1>1. SUFFICES ASSUME SizeOf(c, level, less) + c.overhead <= less PROVE FALSE
  <2>1. SizeOf(c, level, less) \in Nat /\ c.overhead \in Nat
    BY SizeIsNat
  <2>2. QED
    BY <1>1, <2>1
<1>2. SizeOf(c, level, less) \in Nat /\ SizeOf(c, level, left) \in Nat /\ c.overhead \in Nat
  BY SizeIsNat
<1> DEFINE room == left - c.overhead
           small == less - c.overhead
<1>3. /\ small \in Nat /\ room \in Nat /\ small \in 0 .. room
      /\ Greater(less - c.overhead, 0) = small /\ Greater(left - c.overhead, 0) = room
  BY <1>1, <1>2 DEF Greater
<1>4. SizeOf(c, level, less) <= small /\ SizeOf(c, level, left) > room
  BY <1>1, <1>2
<1>5. IsCandidate(c) /\ (level \in Cuts \/ level = "reference")
  BY AssemblyConstants, LevelsAre
<1>6. CASE c.kind = "source" \/ level = "reference"
  <2>1. SizeOf(c, level, less) = SizeOf(c, level, left)
    BY <1>5, <1>6 DEF SizeOf, Render, IsCandidate
  <2> HIDE DEF room, small
  <2>2. QED
    BY <1>2, <1>3, <1>4, <2>1
<1>7. CASE c.kind = "text" /\ level # "reference"
  <2>1. c.lines \in Seq(Nat)
    BY <1>5, <1>7 DEF IsCandidate
  <2>2. /\ SizeOf(c, level, less) = RenderText(c.lines, small)
        /\ SizeOf(c, level, left) = RenderText(c.lines, room)
    <3> HIDE DEF room, small
    <3> QED BY <1>3, <1>7 DEF SizeOf, Render
  <2> HIDE DEF room, small
  <2>3. RenderText(c.lines, room) <= room
    BY <1>3, <1>4, <2>1, <2>2, TextRendered
  <2>4. QED
    BY <1>2, <1>3, <1>4, <2>2, <2>3
<1>8. QED
  BY <1>5, <1>6, <1>7 DEF IsCandidate

\* What the assembler cannot place is too big, whole or as it would cut it.
LEMMA TooBigNow ==
  ASSUME NEW c \in Pool, NEW left \in Int,
         LET hard == Greater(left, 0)
             room == Greater(hard - c.overhead, 0)
         IN  {level \in FitOne(c, room) : Render(c, level, room) + c.overhead <= hard} = {},
         NEW level \in ToSet(Ladder)
  PROVE  SizeOf(c, level, left) + c.overhead > left
<1> DEFINE hard == Greater(left, 0)
           room == Greater(hard - c.overhead, 0)
           fits == {i \in DOMAIN Ladder : Render(c, Ladder[i], room) <= room}
<1>1. /\ c.overhead \in Nat /\ hard \in Nat /\ room \in Nat /\ left <= hard
      /\ Greater(left - c.overhead, 0) = room
  <2>1. c.overhead \in Nat
    BY AssemblyConstants DEF IsCandidate
  <2>2. QED
    BY <2>1 DEF Greater
<1>2. \A l \in ToSet(Ladder) : Render(c, l, room) \in Nat
  <2> HIDE DEF room
  <2> QED BY <1>1, RenderIsNat
<1>3. FitOne(c, room) = IF fits = {} THEN {} ELSE {Ladder[Min(fits)]}
  BY DEF FitOne
<1>4. \A i \in DOMAIN Ladder : i \in Nat /\ Ladder[i] \in ToSet(Ladder)
  <2>1. \A i \in 1 .. 4 : i \in Nat
    OBVIOUS
  <2>2. QED
    BY <2>1, LevelsAre
<1>5. \A l \in ToSet(Ladder) : \E i \in DOMAIN Ladder : Ladder[i] = l
  BY DEF ToSet
<1>6. room = IF hard - c.overhead < 0 THEN 0 ELSE hard - c.overhead
  BY <1>1 DEF Greater
<1>7. Render(c, level, room) + c.overhead > hard
  <2>1. CASE fits = {}
    <3>1. ~ (Render(c, level, room) <= room)
      <4> HIDE DEF room
      <4> QED BY <1>5, <2>1
    <3>2. Render(c, level, room) \in Nat
      BY <1>2
    <3> DEFINE x == Render(c, level, room)
    <3> HIDE DEF x, hard, room
    <3>3. x \in Nat /\ x > room
      BY <1>1, <3>1, <3>2 DEF x
    <3>4. x + c.overhead > hard
      BY <1>1, <1>6, <3>3
    <3>5. QED
      BY <3>4 DEF x
  <2>2. CASE fits # {}
    <3> DEFINE l == Ladder[Min(fits)]
    <3>1. Min(fits) \in fits
      <4>1. fits \in SUBSET Nat
        BY <1>4
      <4> HIDE DEF fits
      <4>2. QED
        BY <2>2, <4>1, MinIsLeast
    <3>2. l \in ToSet(Ladder) /\ Render(c, l, room) <= room
      <4>1. Min(fits) \in DOMAIN Ladder /\ Render(c, Ladder[Min(fits)], room) <= room
        BY <3>1
      <4>2. QED
        BY <1>4, <4>1
    <3>3. l \in FitOne(c, room)
      <4> HIDE DEF fits, room
      <4> QED BY <1>3, <2>2 
    <3>4. ~ (Render(c, l, room) + c.overhead <= hard)
      <4>1. {k \in FitOne(c, room) : Render(c, k, room) + c.overhead <= hard} = {}
        OBVIOUS
      <4> HIDE DEF l, room, hard
      <4>2. QED
        BY <3>3, <4>1
    <3> DEFINE x == Render(c, l, room)
               y == Render(c, level, room)
    <3>5. x \in Nat /\ y \in Nat /\ x <= room /\ ~ (x + c.overhead <= hard)
      <4> HIDE DEF l, room, hard
      <4> QED BY <1>2, <3>2, <3>4
    <3> HIDE DEF x, y, hard, room, l
    <3>6. y + c.overhead > hard
      BY <1>1, <1>6, <3>5
    <3>7. QED
      BY <3>6 DEF y
  <2>3. QED
    BY <2>1, <2>2
<1>8. /\ c.kind = "source" /\ level # "reference" =>
           /\ c.header + Total(c.symbols[level]) \in Nat
           /\ c.header + Total(c.symbols[level]) <= room =>
                Render(c, level, room) = c.header + Total(c.symbols[level])
      /\ Render(c, level, room) \in Nat
  <2> HIDE DEF room
  <2> QED BY <1>1, RenderIsNat
<1>9. CASE c.kind = "source" /\ level # "reference"
  <2> DEFINE x == c.header + Total(c.symbols[level])
             y == Render(c, level, room)
  <2>1. SizeOf(c, level, left) = x
    BY <1>9 DEF SizeOf
  <2>2. x \in Nat /\ y \in Nat /\ (x <= room => y = x) /\ y + c.overhead > hard
    <3> HIDE DEF room, hard
    <3> QED BY <1>7, <1>8, <1>9
  <2> HIDE DEF x, y, room, hard
  <2>3. x + c.overhead > left
    BY <1>1, <1>6, <2>2
  <2>4. QED
    BY <2>1, <2>3
<1>10. CASE ~ (c.kind = "source" /\ level # "reference")
  <2>1. SizeOf(c, level, left) = Render(c, level, room)
    <3> HIDE DEF room
    <3> QED BY <1>1, <1>10 DEF SizeOf
  <2> DEFINE y == Render(c, level, room)
  <2>2. y \in Nat /\ y + c.overhead > hard
    <3> HIDE DEF room, hard
    <3> QED BY <1>7, <1>8
  <2> HIDE DEF y, hard, room
  <2>3. y + c.overhead > left
    BY <1>1, <2>2
  <2>4. QED
    BY <2>1, <2>3 DEF y
<1>11. QED
  BY <1>9, <1>10

-----------------------------------------------------------------------------
(* Demands.                                                                *)

\* What a candidate adds to the demand.
LEMMA FullTokensIsNat ==
  ASSUME NEW c \in Pool
  PROVE  FullTokens(c) + c.overhead \in Nat
<1>1. IsCandidate(c)
  BY AssemblyConstants
<1>2. c.overhead \in Nat
  BY <1>1 DEF IsCandidate
<1>3. CASE c.kind = "text"
  <2>1. c.lines \in Seq(Nat)
    BY <1>1, <1>3 DEF IsCandidate
  <2>2. Total(c.lines) \in Nat
    BY <2>1, TotalIsNat
  <2>3. QED
    BY <1>2, <1>3, <2>2 DEF FullTokens
<1>4. CASE c.kind = "source"
  <2>1. "full" \in ToSet(Ladder) /\ "full" # "reference" /\ 0 \in Nat
    BY LevelsAre DEF Cuts
  <2>2. c.header + Total(c.symbols["full"]) \in Nat
    BY <1>4, <2>1, RenderIsNat
  <2>3. QED
    BY <1>2, <1>4, <2>2 DEF FullTokens
<1>5. QED
  BY <1>1, <1>3, <1>4 DEF IsCandidate

\* What a request wants of any section.
LEMMA DemandIs ==
  ASSUME NEW cands \in Requests, NEW s
  PROVE  Want(Demand(cands), s) \in Nat
<1>1. cands \in SUBSET Pool /\ IsFiniteSet(cands)
  BY AssemblyConstants
<1> DEFINE of == {d \in cands : d.section = s}
           f  == [c \in of |-> FullTokens(c) + c.overhead]
<1>2. f \in [of -> Nat]
  <2>1. \A c \in of : FullTokens(c) + c.overhead \in Nat
    BY <1>1, FullTokensIsNat
  <2>2. QED
    BY <2>1
<1>3. IsFiniteSet(of)
  <2>1. of \in SUBSET cands
    OBVIOUS
  <2> HIDE DEF of
  <2>2. QED
    BY <1>1, <2>1, FS_Subset
<1>4. SumOf(f) \in Nat
  <2> HIDE DEF f, of
  <2> QED BY <1>2, <1>3, SumIsNat
<1>5. s \in DOMAIN Demand(cands) => Demand(cands)[s] = SumOf(f)
  BY DEF Demand
<1>6. QED
  BY <1>4, <1>5 DEF Want

-----------------------------------------------------------------------------
(* The inductive invariant.                                                *)

Items == [cand : Pool, level : ToSet(Ladder), cost : Nat]
Nothing == [s \in SectionKinds |-> 0]

AssemblyShape ==
  /\ budget \in Budgets /\ fixed \in Nat
  /\ cap \in [SectionKinds -> Nat] /\ used \in [SectionKinds -> Nat]
  /\ queue \in Seq(Pool) /\ dropped \subseteq Pool /\ items \in Seq(Items)
  /\ phase \in {"allocate", "fit", "done", "policy", "unbudgeted", "infeasible"}
  /\ phase = "allocate" =>
       /\ items = <<>> /\ dropped = {} /\ cap = Nothing
       /\ ToSet(queue) \in Requests

\* What has been charged is what the items cost, and no more than is there.
AssemblyInv ==
  AssemblyShape /\ FitsBudget /\ NothingDroppedThatFits /\ AllocationByPriority

Costs == [i \in DOMAIN items |-> items[i].cost]

\* Before anything is placed nothing is used.
LEMMA NothingAddsUpToZero == SumOf(Nothing) = 0
<1>1. <<>> \in [{} -> Nat] /\ {} \in SUBSET SectionKinds /\ Nothing \in [SectionKinds -> Nat]
  BY DEF Nothing
<1>2. \A x \in SectionKinds \ {} : Nothing[x] = 0
  BY DEF Nothing
<1>3. SumOf(Nothing) = SumOf(<<>>)
  <2>1. \A x \in {} : Nothing[x] = <<>>[x]
    OBVIOUS
  <2> DEFINE g == <<>>
             E == {}
  <2>2. /\ g \in [E -> Nat] /\ \A x \in E : Nothing[x] = g[x]
        /\ E \in SUBSET SectionKinds /\ \A x \in SectionKinds \ E : Nothing[x] = 0
    BY <1>1, <1>2
  <2>a. IsFiniteSet(SectionKinds) /\ Nothing \in [SectionKinds -> Nat]
    BY <1>1, PlaceIs
  <2> DEFINE f == Nothing
  <2>b. /\ f \in [SectionKinds -> Nat] /\ \A x \in E : f[x] = g[x]
        /\ \A x \in SectionKinds \ E : f[x] = 0
    BY <2>2, <2>a
  <2> HIDE DEF f, g, E
  <2>3. SumOf(f) = SumOf(g)
    BY <2>2, <2>a, <2>b, SumExtended
  <2>4. QED
    BY <2>3 DEF f, g
<1>4. SumOf(<<>>) = Total(<<>>)
  BY DEF Total, SumOf, FoldSeq
<1>5. QED
  BY <1>3, <1>4, TotalEmpty

\* What a section may still take, before what is negative counts as nothing.
LeftFor(s) == Lesser(budget.available - GlobalUsed, cap[s] - used[s])

\* What a section may still take is what Hard computes, and a number.
LEMMA LeftIs ==
  ASSUME AssemblyShape, NEW s \in SectionKinds
  PROVE  /\ LeftFor(s) \in Int /\ Hard(s) = Greater(LeftFor(s), 0) /\ Hard(s) \in Nat
         /\ budget.available \in Nat /\ SumOf(used) \in Nat /\ GlobalUsed \in Nat
         /\ cap[s] \in Nat /\ used[s] \in Nat
<1>1. budget.available \in Nat /\ fixed \in Nat /\ cap[s] \in Nat /\ used[s] \in Nat
  BY AssemblyConstants DEF AssemblyShape, IsBudget
<1>2. SumOf(used) \in Nat
  <2>1. used \in [SectionKinds -> Nat]
    BY DEF AssemblyShape
  <2>2. QED
    BY <2>1, PlaceIs, SumIsNat
<1>3. GlobalUsed \in Nat
  BY <1>1, <1>2 DEF GlobalUsed
<1>4. LeftFor(s) \in Int
  BY <1>1, <1>3 DEF LeftFor, Lesser
<1>5. Hard(s) = Greater(LeftFor(s), 0)
  BY DEF Hard, LeftFor
<1>6. QED
  BY <1>1, <1>2, <1>3, <1>4, <1>5 DEF Greater

\* The property in these words.
LEMMA DroppedAreTooBig ==
  NothingDroppedThatFits <=>
    \A c \in dropped, level \in ToSet(Ladder) :
      SizeOf(c, level, LeftFor(c.section)) + c.overhead > LeftFor(c.section)
BY DEF NothingDroppedThatFits, SizeOf, LeftFor

\* The request is there, nothing is placed.
LEMMA AssemblyBegins ==
  AssemblyInit => AssemblyInv
<1> SUFFICES ASSUME AssemblyInit PROVE AssemblyInv
  OBVIOUS
<1>1. PICK cands \in Requests : queue = AssemblyOrder(cands)
  BY DEF AssemblyInit
<1>2. Lists(queue, cands) /\ cands \in SUBSET Pool
  BY <1>1, AssemblyOrderLists, AssemblyConstants
<1>3. queue \in Seq(Pool) /\ ToSet(queue) = cands
  <2> DEFINE N == Cardinality(cands)
  <2>1. queue \in [1 .. N -> cands] /\ N \in Nat /\ \A x \in cands : \E i \in 1 .. N : queue[i] = x
    BY <1>2 DEF Lists
  <2> HIDE DEF N
  <2>2. queue \in Seq(cands)
    BY <2>1
  <2>3. queue \in Seq(Pool)
    BY <1>2, <2>2
  <2>4. DOMAIN queue = 1 .. N
    BY <2>1
  <2>5. ToSet(queue) = cands
    BY <2>1, <2>4 DEF ToSet
  <2>6. QED
    BY <2>3, <2>5
<1>4. AssemblyShape
  <2>1. budget \in Budgets /\ fixed \in Nat
    BY AssemblyConstants DEF AssemblyInit
  <2>2. Nothing \in [SectionKinds -> Nat] /\ cap = Nothing /\ used = Nothing
    BY DEF Nothing, AssemblyInit
  <2>3. items \in Seq(Items)
    BY DEF AssemblyInit
  <2>4. QED
    BY <1>3, <2>1, <2>2, <2>3 DEF AssemblyShape, AssemblyInit
<1>5. FitsBudget
  <2>1. used = Nothing /\ cap = Nothing /\ SumOf(used) = 0 /\ items = <<>>
    BY NothingAddsUpToZero DEF Nothing, AssemblyInit
  <2>2. \A s \in SectionKinds : used[s] <= cap[s]
    BY <2>1 DEF Nothing
  <2>3. budget.available \in Nat /\ fixed \in Nat
    BY <1>4, AssemblyConstants DEF AssemblyShape, IsBudget
  <2>4. GlobalUsed = fixed
    BY <2>1, <2>3 DEF GlobalUsed
  <2>5. [i \in DOMAIN items |-> items[i].cost] = <<>>
    BY <2>1
  <2>6. QED
    BY <2>1, <2>2, <2>4, <2>5, TotalEmpty DEF FitsBudget
<1>6. NothingDroppedThatFits
  BY DEF NothingDroppedThatFits, AssemblyInit
<1>7. AllocationByPriority
  BY DEF AllocationByPriority, AssemblyInit
<1>8. QED
  BY <1>4, <1>5, <1>6, <1>7 DEF AssemblyInv

\* The caps of a request that is granted: a section not budgeted for has none.
Shared(demand) ==
  [s \in SectionKinds |-> IF s \in DOMAIN Caps(budget, demand) THEN Caps(budget, demand)[s] ELSE 0]

\* The caps are shared out, and nobody has used any of them.
LEMMA AllocateKeeps ==
  AssemblyInv /\ Allocate => AssemblyInv'
<1> SUFFICES ASSUME AssemblyInv, Allocate PROVE AssemblyInv'
  OBVIOUS
<1> DEFINE cands  == ToSet(queue)
           demand == Demand(cands)
           D      == DOMAIN budget.specs
<1>1. /\ AssemblyShape /\ FitsBudget /\ phase = "allocate"
      /\ items = <<>> /\ dropped = {} /\ cap = Nothing /\ cands \in Requests
      /\ budget \in Budgets /\ UNCHANGED <<budget, fixed, queue, items, dropped, used>>
  BY DEF AssemblyInv, AssemblyShape, Allocate
<1>2. /\ budget.available \in Nat /\ D \in SUBSET SectionKinds
  BY <1>1, AssemblyConstants DEF IsBudget
<1>3. \A s \in D : Want(demand, s) \in Nat
  <2> HIDE DEF cands
  <2> QED BY <1>1, DemandIs
<1>4. \/ phase' \in {"unbudgeted", "infeasible"} /\ cap' = cap
      \/ /\ phase' = "fit" /\ cap' = Shared(demand)
         /\ ~ (SumOf(Floors(budget.specs, demand)) > budget.available)
  BY DEF Allocate, Shared
<1>5. Candidates' = cands
  <2>1. Candidates' = {it.cand : it \in ToSet(items)} \cup dropped \cup ToSet(queue)
    BY <1>1 DEF Candidates
  <2>2. ToSet(<<>>) = {}
    BY DEF ToSet
  <2>3. QED
    BY <1>1, <2>1, <2>2
<1> HIDE DEF demand
<1>6. ASSUME phase' = "fit" /\ cap' = Shared(demand),
             ~ (SumOf(Floors(budget.specs, demand)) > budget.available)
      PROVE  /\ cap' \in [SectionKinds -> Nat]
             /\ Given(budget, demand, cap')
  <2>1. \A s \in D : Floors(budget.specs, demand)[s] \in Nat
    <3>1. \A s \in D : budget.specs[s].min \in Nat
      BY <1>1, AssemblyConstants DEF IsBudget
    <3>2. QED
      BY <1>3, <3>1 DEF Floors, Lesser
  <2>2. Floors(budget.specs, demand) \in [D -> Nat]
    BY <2>1 DEF Floors
  <2>3. SumOf(Floors(budget.specs, demand)) \in Nat
    <3> DEFINE F == Floors(budget.specs, demand)
    <3>1. F \in [D -> Nat]
      BY <2>2
    <3>2. IsFiniteSet(D)
      BY <1>1, ByPriorityLists
    <3> HIDE DEF F, D
    <3>3. SumOf(F) \in Nat
      BY <3>1, <3>2, SumIsNat
    <3>4. QED
      BY <3>3 DEF F
  <2>4. SumOf(Floors(budget.specs, demand)) <= budget.available
    <3> DEFINE x == SumOf(Floors(budget.specs, demand))
    <3>1. x \in Nat /\ ~ (x > budget.available)
      BY <1>6, <2>3
    <3> HIDE DEF x
    <3>2. x <= budget.available
      BY <1>2, <3>1
    <3>3. QED
      BY <3>2 DEF x
  <2>5. Caps(budget, demand) \in [D -> Nat]
    <3> DEFINE F     == Floors(budget.specs, demand)
               start == [alloc |-> F, left |-> budget.available - SumOf(F)]
               one   == TopUp(start, budget.specs, demand, "ideal")
               two   == TopUp(one, budget.specs, demand, "max")
    <3>1. two \in Accs(D) /\ Caps(budget, demand) = two.alloc
      BY <1>1, <1>3, <2>4, TopUpBothIs
    <3> HIDE DEF two, D
    <3>2. QED
      BY <3>1 DEF Accs
  <2>6. cap' = [s \in SectionKinds |-> IF s \in D THEN Caps(budget, demand)[s] ELSE 0]
    <3>1. DOMAIN Caps(budget, demand) = D
      BY <2>5
    <3> HIDE DEF D
    <3>2. QED
      BY <1>6, <3>1 DEF Shared
  <2>7. /\ cap' \in [SectionKinds -> Nat]
        /\ \A s \in SectionKinds \ D : cap'[s] = 0
        /\ \A s \in D : cap'[s] = Caps(budget, demand)[s]
    <3> HIDE DEF D
    <3> QED BY <1>2, <2>5, <2>6
  <2> DEFINE given == cap'
  <2>8. /\ given \in [SectionKinds -> Nat]
        /\ \A s \in SectionKinds \ DOMAIN budget.specs : given[s] = 0
        /\ \A s \in DOMAIN budget.specs : given[s] = Caps(budget, demand)[s]
    BY <2>7
  <2> HIDE DEF given
  <2>9. Given(budget, demand, given)
    BY <1>1, <1>3, <2>4, <2>8, CapsAreGiven
  <2>10. QED
    BY <2>7, <2>9 DEF given
<1>7. cap' \in [SectionKinds -> Nat]
  BY <1>1, <1>4, <1>6 DEF AssemblyShape
<1>8. AssemblyShape'
  <2>1. phase' \in {"fit", "unbudgeted", "infeasible"}
    BY <1>4
  <2>2. QED
    BY <1>1, <1>7, <2>1 DEF AssemblyShape
<1>9. \A s \in SectionKinds : used[s] = 0
  <2>1. \A s \in SectionKinds : used[s] <= 0 /\ used[s] \in Nat
    BY <1>1 DEF FitsBudget, Nothing, AssemblyShape
  <2>2. QED
    BY <2>1
<1>10. FitsBudget'
  <2>1. \A s \in SectionKinds : used'[s] <= cap'[s]
    BY <1>1, <1>7, <1>9
  <2>2. GlobalUsed' = GlobalUsed
    BY <1>1 DEF GlobalUsed
  <2>3. QED
    BY <1>1, <2>1, <2>2 DEF FitsBudget
<1>11. NothingDroppedThatFits'
  BY <1>1 DEF NothingDroppedThatFits
<1>12. AllocationByPriority'
  <2>1. CASE phase' = "fit"
    <3>1. Given(budget, demand, cap')
      BY <1>4, <1>6, <2>1
    <3>2. budget' = budget /\ Demand(Candidates') = demand
      BY <1>1, <1>5 DEF demand
    <3>3. QED
      BY <3>1, <3>2 DEF AllocationByPriority
  <2>2. CASE phase' # "fit"
    BY <1>4, <2>2 DEF AllocationByPriority
  <2>3. QED
    BY <2>1, <2>2
<1>13. QED
  BY <1>8, <1>10, <1>11, <1>12 DEF AssemblyInv

\* The candidate taken next and the others are the queue.
LEMMA HeadOfQueue ==
  ASSUME queue \in Seq(Pool), queue # <<>>
  PROVE  /\ Head(queue) \in Pool /\ Tail(queue) \in Seq(Pool)
         /\ ToSet(queue) = {Head(queue)} \cup ToSet(Tail(queue))
<1>1. Head(queue) \in Pool /\ Tail(queue) \in Seq(Pool)
  OBVIOUS
<1>2. /\ Len(queue) \in Nat \ {0} /\ Len(Tail(queue)) = Len(queue) - 1 /\ Head(queue) = queue[1]
      /\ \A i \in 1 .. Len(queue) - 1 : Tail(queue)[i] = queue[i + 1]
      /\ DOMAIN queue = 1 .. Len(queue) /\ DOMAIN Tail(queue) = 1 .. Len(Tail(queue))
  OBVIOUS
<1>3. \A x : x \in ToSet(queue) <=> \E i \in 1 .. Len(queue) : x = queue[i]
  BY <1>2 DEF ToSet
<1>4. \A x : x \in ToSet(Tail(queue)) <=> \E i \in 1 .. Len(queue) - 1 : x = queue[i + 1]
  BY <1>2 DEF ToSet
<1>5. \A i \in 1 .. Len(queue) : i = 1 \/ (i - 1 \in 1 .. Len(queue) - 1 /\ (i - 1) + 1 = i)
  BY <1>2
<1>6. 1 \in 1 .. Len(queue) /\ \A i \in 1 .. Len(queue) - 1 : i + 1 \in 1 .. Len(queue)
  BY <1>2
<1>7. \A x : x \in ToSet(queue) <=> x = Head(queue) \/ x \in ToSet(Tail(queue))
  <2>1. ASSUME NEW x, x \in ToSet(queue) PROVE x = Head(queue) \/ x \in ToSet(Tail(queue))
    <3>1. PICK i \in 1 .. Len(queue) : x = queue[i]
      BY <1>3, <2>1
    <3>2. i # 1 => x = queue[(i - 1) + 1]
      BY <1>5, <3>1
    <3>3. QED
      BY <1>2, <1>4, <1>5, <3>1, <3>2
  <2>2. ASSUME NEW x, x = Head(queue) \/ x \in ToSet(Tail(queue)) PROVE x \in ToSet(queue)
    BY <1>2, <1>3, <1>4, <1>6, <2>2
  <2>3. QED
    BY <2>1, <2>2
<1>8. QED
  BY <1>1, <1>7

\* A candidate that leaves the queue and is placed or dropped stays one of the
\* request's, which the budget was shared out for.
LEMMA AllocationStands ==
  ASSUME AssemblyInv, Candidates' = Candidates, budget' = budget, cap' = cap,
         phase = "fit"
  PROVE  AllocationByPriority'
<1>1. Given(budget, Demand(Candidates), cap)
  BY DEF AssemblyInv, AllocationByPriority
<1>2. QED
  BY <1>1 DEF AllocationByPriority

\* What is charged is within what is left, and then less is left for those
\* dropped before.
LEMMA PlaceNextKeeps ==
  AssemblyInv /\ PlaceNext => AssemblyInv'
<1> SUFFICES ASSUME AssemblyInv, PlaceNext PROVE AssemblyInv'
  OBVIOUS
<1> DEFINE c    == Head(queue)
           s    == c.section
           room == Greater(Hard(s) - c.overhead, 0)
<1>1. /\ AssemblyShape /\ FitsBudget /\ NothingDroppedThatFits
      /\ phase = "fit" /\ queue # <<>> /\ queue' = Tail(queue)
      /\ UNCHANGED <<budget, fixed, phase, cap, dropped>>
  BY DEF AssemblyInv, PlaceNext
<1>2. PICK level \in Placeable(c) :
        LET cost == Render(c, level, room) + c.overhead
        IN  /\ items' = Append(items, [cand |-> c, level |-> level, cost |-> cost])
            /\ used' = [used EXCEPT ![s] = @ + cost]
  BY DEF PlaceNext
<1> DEFINE cost == Render(c, level, room) + c.overhead
           item == [cand |-> c, level |-> level, cost |-> cost]
<1>3. /\ queue \in Seq(Pool) /\ c \in Pool /\ Tail(queue) \in Seq(Pool)
      /\ ToSet(queue) = {c} \cup ToSet(Tail(queue))
  <2>1. queue \in Seq(Pool)
    BY <1>1 DEF AssemblyShape
  <2>2. QED
    BY <1>1, <2>1, HeadOfQueue
<1>4. s \in SectionKinds /\ c.overhead \in Nat
  BY <1>3, AssemblyConstants DEF IsCandidate
<1>5. /\ LeftFor(s) \in Int /\ Hard(s) = Greater(LeftFor(s), 0) /\ Hard(s) \in Nat
      /\ budget.available \in Nat /\ SumOf(used) \in Nat /\ GlobalUsed \in Nat
      /\ cap[s] \in Nat /\ used[s] \in Nat
  <2> HIDE DEF s
  <2> QED BY <1>1, <1>4, LeftIs
<1>6. level \in ToSet(Ladder) /\ cost <= Hard(s)
  <2> DEFINE fits == {i \in DOMAIN Ladder : Render(c, Ladder[i], room) <= room}
  <2>1. level \in FitOne(c, room) /\ cost <= Hard(s)
    BY <1>2 DEF Placeable
  <2>2. FitOne(c, room) = IF fits = {} THEN {} ELSE {Ladder[Min(fits)]}
    BY DEF FitOne
  <2>3. fits \in SUBSET Nat /\ fits \in SUBSET (DOMAIN Ladder)
    <3>1. \A i \in 1 .. 4 : i \in Nat
      OBVIOUS
    <3>2. QED
      BY <3>1, LevelsAre
  <2>4. fits # {} => Min(fits) \in DOMAIN Ladder
    <3>1. fits # {} => Min(fits) \in fits
      <4> HIDE DEF fits
      <4> QED BY <2>3, MinIsLeast
    <3> HIDE DEF fits
    <3>2. QED
      BY <2>3, <3>1
  <2>5. level \in ToSet(Ladder)
    <3> HIDE DEF fits, room, c
    <3>1. fits # {} /\ level = Ladder[Min(fits)]
      BY <2>1, <2>2
    <3>2. QED
      BY <2>4, <3>1, LevelsAre
  <2>6. QED
    BY <2>1, <2>5
<1>7. cost \in Nat
  <2>1. room \in Nat
    <3> HIDE DEF s
    <3> QED BY <1>4, <1>5 DEF Greater
  <2> DEFINE r == Render(c, level, room)
  <2>2. r \in Nat
    <3> HIDE DEF room, c
    <3> QED BY <1>3, <1>6, <2>1, RenderIsNat
  <2>3. cost = r + c.overhead
    OBVIOUS
  <2> HIDE DEF r, cost
  <2>4. QED
    BY <1>4, <2>2, <2>3
<1>8. items' = Append(items, item) /\ used' = Raised(used, s, cost)
  BY <1>2 DEF Raised
<1>9. used \in [SectionKinds -> Nat] /\ items \in Seq(Items) /\ item \in Items
  <2>1. used \in [SectionKinds -> Nat] /\ items \in Seq(Items)
    BY <1>1 DEF AssemblyShape
  <2> HIDE DEF cost, c
  <2>2. item \in Items
    BY <1>3, <1>6, <1>7 DEF Items
  <2>3. QED
    BY <2>1, <2>2
<1> HIDE DEF c, s, room, cost
<1>10. /\ used' \in [SectionKinds -> Nat] /\ used'[s] = used[s] + cost
       /\ \A x \in SectionKinds : x # s => used'[x] = used[x]
  BY <1>4, <1>5, <1>7, <1>8, <1>9 DEF Raised
<1>11. AssemblyShape'
  <2>1. items' \in Seq(Items)
    <3> HIDE DEF item
    <3> QED BY <1>8, <1>9
  <2>2. QED
    BY <1>1, <1>3, <1>10, <2>1 DEF AssemblyShape
<1>12. SumOf(used') = SumOf(used) + cost
  <2>1. SumOf(Raised(used, s, cost)) = SumOf(used) + cost
    BY <1>4, <1>7, <1>9, PlaceIs, SumChanged
  <2>2. QED
    BY <1>8, <2>1
<1>13. GlobalUsed' = GlobalUsed + cost
  <2> DEFINE x == SumOf(used)
             y == SumOf(used')
  <2>1. x \in Nat /\ y = x + cost /\ fixed \in Nat
    BY <1>1, <1>5, <1>12 DEF AssemblyShape
  <2>2. GlobalUsed = fixed + x /\ GlobalUsed' = fixed + y
    BY <1>1 DEF GlobalUsed
  <2> HIDE DEF x, y
  <2>3. QED
    BY <1>7, <2>1, <2>2
<1>14. Costs \in Seq(Nat) /\ Costs' = Append(Costs, cost)
  <2>1. items' = Append(items, item) /\ item.cost = cost /\ items \in Seq(Items)
    BY <1>8, <1>9
  <2>2. \A i \in DOMAIN items : items[i].cost \in Nat
    <3>1. \A it \in Items : it.cost \in Nat
      BY DEF Items
    <3>2. \A i \in DOMAIN items : items[i] \in Items
      BY <1>9
    <3>3. QED
      BY <3>1, <3>2
  <2>3. Costs \in Seq(Nat) /\ Len(Costs) = Len(items)
    BY <2>1, <2>2 DEF Costs
  <2> HIDE DEF item
  <2>4. Len(items') = Len(items) + 1 /\ DOMAIN items' = 1 .. Len(items) + 1 /\ Len(items) \in Nat
    BY <2>1
  <2>5. \A i \in 1 .. Len(items) + 1 : items'[i] = IF i = Len(items) + 1 THEN item ELSE items[i]
    BY <2>1
  <2>6. Costs' = [i \in 1 .. Len(items) + 1 |-> items'[i].cost]
    BY <2>4 DEF Costs
  <2>7. Append(Costs, cost)
          = [i \in 1 .. Len(items) + 1 |-> IF i = Len(items) + 1 THEN cost ELSE Costs[i]]
    <3> DEFINE q == Costs
    <3>1. q \in Seq(Nat) /\ Len(q) = Len(items)
      BY <2>3
    <3> HIDE DEF q
    <3> DEFINE r == Append(q, cost)
               N == Len(q)
    <3>a. r \in Seq(Nat) /\ Len(r) = N + 1 /\ N \in Nat
      BY <1>7, <3>1
    <3>b. (\A i \in 1 .. N : r[i] = q[i]) /\ r[N + 1] = cost
      BY <1>7, <3>1
    <3> HIDE DEF r, N
    <3>c. r \in [1 .. N + 1 -> Nat]
      BY <3>a
    <3>d. \A i \in 1 .. N + 1 : i # N + 1 => i \in 1 .. N
      BY <3>a
    <3>e. \A i \in 1 .. N + 1 : r[i] = IF i = N + 1 THEN cost ELSE q[i]
      BY <3>b, <3>d
    <3>f. r = [i \in 1 .. N + 1 |-> IF i = N + 1 THEN cost ELSE q[i]]
      BY <3>c, <3>e
    <3>2. Append(q, cost) = [i \in 1 .. Len(q) + 1 |-> IF i = Len(q) + 1 THEN cost ELSE q[i]]
      BY <3>f DEF r, N
    <3>3. QED
      BY <3>1, <3>2 DEF q
  <2>8. \A i \in 1 .. Len(items) : Costs[i] = items[i].cost
    BY <2>1 DEF Costs
  <2>9. \A i \in 1 .. Len(items) + 1 :
          items'[i].cost = IF i = Len(items) + 1 THEN cost ELSE Costs[i]
    BY <2>1, <2>4, <2>5, <2>8
  <2>10. QED
    BY <2>3, <2>6, <2>7, <2>9
<1>15. LeftFor(s) = Lesser(budget.available - GlobalUsed, cap[s] - used[s])
  BY DEF LeftFor
<1>16. FitsBudget'
  <2>1. used[s] <= cap[s] /\ (fixed <= budget.available => GlobalUsed <= budget.available)
    BY <1>1, <1>4 DEF FitsBudget
  <2>2. cost = 0 \/ (cost <= budget.available - GlobalUsed /\ cost <= cap[s] - used[s])
    BY <1>5, <1>6, <1>7, <1>15 DEF Greater, Lesser
  <2>3. used'[s] <= cap[s]
    BY <1>5, <1>7, <1>10, <2>1, <2>2
  <2>4. \A x \in SectionKinds : used'[x] <= cap'[x]
    BY <1>1, <1>10, <2>3 DEF FitsBudget
  <2>5. fixed <= budget.available => GlobalUsed' <= budget.available
    <3> DEFINE x == GlobalUsed
               y == GlobalUsed'
    <3>1. /\ x \in Nat /\ y = x + cost /\ (fixed <= budget.available => x <= budget.available)
          /\ (cost = 0 \/ cost <= budget.available - x)
      BY <1>5, <1>13, <2>1, <2>2
    <3> HIDE DEF x, y
    <3>2. fixed <= budget.available => y <= budget.available
      BY <1>5, <1>7, <3>1
    <3>3. QED
      BY <3>2 DEF y
  <2>6. SumOf(used') = Total(Costs')
    <3>1. SumOf(used) = Total(Costs)
      BY <1>1 DEF FitsBudget, Costs
    <3>2. Total(Append(Costs, cost)) = Total(Costs) + cost
      BY <1>7, <1>14, TotalAppended
    <3>3. QED
      BY <1>12, <1>14, <3>1, <3>2
  <2>7. QED
    BY <1>1, <2>4, <2>5, <2>6 DEF FitsBudget, Costs
<1>17. \A x \in SectionKinds :
         LeftFor(x)' \in Int /\ LeftFor(x) \in Int /\ LeftFor(x)' <= LeftFor(x)
  <2>1. ASSUME NEW x \in SectionKinds
        PROVE  LeftFor(x)' \in Int /\ LeftFor(x) \in Int /\ LeftFor(x)' <= LeftFor(x)
    <3> DEFINE g == GlobalUsed
               h == GlobalUsed'
               a == budget.available
               k == cap[x]
               u == used[x]
               v == used'[x]
    <3>1. g \in Nat /\ h = g + cost /\ a \in Nat /\ k \in Nat /\ u \in Nat
      BY <1>1, <1>5, <1>13, <2>1, LeftIs
    <3>2. v = u \/ v = u + cost
      BY <1>10
    <3>3. LeftFor(x) = Lesser(a - g, k - u) /\ LeftFor(x)' = Lesser(a - h, k - v)
      BY <1>1 DEF LeftFor
    <3> HIDE DEF g, h, a, k, u, v
    <3>4. /\ Lesser(a - g, k - u) \in Int /\ Lesser(a - h, k - v) \in Int
          /\ Lesser(a - h, k - v) <= Lesser(a - g, k - u)
      BY <1>7, <3>1, <3>2 DEF Lesser
    <3>5. QED
      BY <3>3, <3>4
  <2>2. QED
    BY <2>1
<1>18. NothingDroppedThatFits'
  <2>1. ASSUME NEW d \in dropped, NEW l \in ToSet(Ladder)
        PROVE  SizeOf(d, l, LeftFor(d.section)') + d.overhead > LeftFor(d.section)'
    <3>1. d \in Pool /\ d.section \in SectionKinds
      BY <1>1, AssemblyConstants DEF AssemblyShape, IsCandidate
    <3>2. SizeOf(d, l, LeftFor(d.section)) + d.overhead > LeftFor(d.section)
      BY <1>1, DroppedAreTooBig
    <3> DEFINE left == LeftFor(d.section)
               less == LeftFor(d.section)'
    <3>3. left \in Int /\ less \in Int /\ less <= left
      BY <1>17, <3>1
    <3>4. SizeOf(d, l, left) + d.overhead > left
      BY <3>2
    <3> HIDE DEF left, less
    <3>5. SizeOf(d, l, less) + d.overhead > less
      BY <3>1, <3>3, <3>4, StillTooBig
    <3>6. QED
      BY <3>5 DEF less
  <2>2. dropped' = dropped
    BY <1>1
  <2>3. QED
    BY <2>1, <2>2 DEF NothingDroppedThatFits, SizeOf, LeftFor
<1>19. Candidates' = Candidates
  <2>1. \A x : x \in ToSet(items') <=> x \in ToSet(items) \/ x = item
    <3> HIDE DEF item
    <3>1. /\ Len(items) \in Nat /\ DOMAIN items = 1 .. Len(items)
          /\ DOMAIN items' = 1 .. Len(items) + 1
          /\ \A i \in 1 .. Len(items) + 1 :
               items'[i] = IF i = Len(items) + 1 THEN item ELSE items[i]
      BY <1>8, <1>9
    <3>2. \A x : x \in ToSet(items') <=> \E i \in 1 .. Len(items) + 1 : x = items'[i]
      BY <3>1 DEF ToSet
    <3>3. \A x : x \in ToSet(items) <=> \E i \in 1 .. Len(items) : x = items[i]
      BY <3>1 DEF ToSet
    <3>4. /\ Len(items) + 1 \in 1 .. Len(items) + 1
          /\ \A i \in 1 .. Len(items) + 1 : i = Len(items) + 1 \/ i \in 1 .. Len(items)
          /\ \A i \in 1 .. Len(items) : i \in 1 .. Len(items) + 1 /\ i # Len(items) + 1
      BY <3>1
    <3>5. QED
      BY <3>1, <3>2, <3>3, <3>4
  <2>2. item.cand = c
    OBVIOUS
  <2> HIDE DEF item
  <2>3. \A x : x \in {it.cand : it \in ToSet(items')}
               <=> x \in {it.cand : it \in ToSet(items)} \/ x = c
    BY <2>1, <2>2
  <2>4. \A x : x \in Candidates' <=> x \in Candidates
    BY <1>1, <1>3, <2>3 DEF Candidates
  <2>5. QED
    BY <2>4
<1>20. AllocationByPriority'
  BY <1>1, <1>19, AllocationStands
<1>21. QED
  BY <1>11, <1>16, <1>18, <1>20 DEF AssemblyInv

\* What is dropped has just been found too big.
LEMMA DropNextKeeps ==
  AssemblyInv /\ DropNext => AssemblyInv'
<1> SUFFICES ASSUME AssemblyInv, DropNext PROVE AssemblyInv'
  OBVIOUS
<1> DEFINE c == Head(queue)
<1>1. /\ AssemblyShape /\ FitsBudget /\ NothingDroppedThatFits
      /\ phase = "fit" /\ queue # <<>> /\ queue' = Tail(queue)
      /\ Placeable(c) = {} /\ dropped' = dropped \cup {c}
      /\ UNCHANGED <<budget, fixed, phase, cap, items, used>>
  BY DEF AssemblyInv, DropNext
<1>2. /\ queue \in Seq(Pool) /\ c \in Pool /\ Tail(queue) \in Seq(Pool)
      /\ ToSet(queue) = {c} \cup ToSet(Tail(queue))
  <2>1. queue \in Seq(Pool)
    BY <1>1 DEF AssemblyShape
  <2>2. QED
    BY <1>1, <2>1, HeadOfQueue
<1>3. c.section \in SectionKinds
  BY <1>2, AssemblyConstants DEF IsCandidate
<1>4. LeftFor(c.section) \in Int /\ Hard(c.section) = Greater(LeftFor(c.section), 0)
  <2> DEFINE s == c.section
  <2>1. s \in SectionKinds
    BY <1>3
  <2> HIDE DEF s
  <2>2. LeftFor(s) \in Int /\ Hard(s) = Greater(LeftFor(s), 0)
    BY <1>1, <2>1, LeftIs
  <2>3. QED
    BY <2>2 DEF s
<1>5. AssemblyShape'
  BY <1>1, <1>2 DEF AssemblyShape
<1>6. FitsBudget'
  BY <1>1 DEF FitsBudget, GlobalUsed
<1>7. \A x : LeftFor(x)' = LeftFor(x)
  BY <1>1 DEF LeftFor, GlobalUsed
<1>8. \A l \in ToSet(Ladder) :
        SizeOf(c, l, LeftFor(c.section)) + c.overhead > LeftFor(c.section)
  <2> DEFINE left == LeftFor(c.section)
             hard == Greater(left, 0)
             room == Greater(hard - c.overhead, 0)
  <2>1. Placeable(c) = {level \in FitOne(c, room) : Render(c, level, room) + c.overhead <= hard}
    BY <1>4 DEF Placeable
  <2>2. left \in Int /\ {level \in FitOne(c, room) : Render(c, level, room) + c.overhead <= hard} = {}
    BY <1>1, <1>4, <2>1
  <2> HIDE DEF left, c
  <2>3. \A l \in ToSet(Ladder) : SizeOf(c, l, left) + c.overhead > left
    BY <1>2, <2>2, TooBigNow
  <2>4. QED
    BY <2>3 DEF left
<1> HIDE DEF c
<1>9. NothingDroppedThatFits'
  <2>1. ASSUME NEW d \in dropped', NEW l \in ToSet(Ladder)
        PROVE  SizeOf(d, l, LeftFor(d.section)') + d.overhead > LeftFor(d.section)'
    <3>1. SizeOf(d, l, LeftFor(d.section)) + d.overhead > LeftFor(d.section)
      <4>1. CASE d = c
        BY <1>8, <4>1
      <4>2. CASE d \in dropped
        BY <1>1, <4>2, DroppedAreTooBig
      <4>3. QED
        BY <1>1, <4>1, <4>2
    <3>2. QED
      BY <1>7, <3>1
  <2>2. QED
    BY <2>1 DEF NothingDroppedThatFits, SizeOf, LeftFor
<1>10. Candidates' = Candidates
  BY <1>1, <1>2 DEF Candidates
<1>11. AllocationByPriority'
  BY <1>1, <1>10, AllocationStands
<1>12. QED
  BY <1>5, <1>6, <1>9, <1>11 DEF AssemblyInv

\* The end and the error of a policy item change nothing but the phase.
LEMMA AssemblyStopsOrStutters ==
  AssemblyInv /\ (PolicyDoesNotFit \/ EndAssembly \/ UNCHANGED assemblyVars) => AssemblyInv'
<1> SUFFICES ASSUME AssemblyInv,
                    PolicyDoesNotFit \/ EndAssembly \/ UNCHANGED assemblyVars
             PROVE  AssemblyInv'
  OBVIOUS
<1>1. /\ UNCHANGED <<budget, fixed, cap, queue, items, dropped, used>>
      /\ phase' = phase \/ (phase = "fit" /\ phase' \in {"policy", "done"})
  BY DEF PolicyDoesNotFit, EndAssembly, assemblyVars
<1>2. AssemblyShape'
  BY <1>1 DEF AssemblyInv, AssemblyShape
<1>3. FitsBudget'
  BY <1>1 DEF AssemblyInv, FitsBudget, GlobalUsed
<1>4. NothingDroppedThatFits'
  BY <1>1 DEF AssemblyInv, NothingDroppedThatFits, GlobalUsed
<1>5. AllocationByPriority'
  <2>1. Candidates' = Candidates
    BY <1>1 DEF Candidates
  <2>2. phase' \in {"fit", "done", "policy"} => phase \in {"fit", "done", "policy"}
    BY <1>1
  <2>3. QED
    BY <1>1, <2>1, <2>2 DEF AssemblyInv, AllocationByPriority
<1>6. QED
  BY <1>2, <1>3, <1>4, <1>5 DEF AssemblyInv

\* The invariant holds.
LEMMA AssemblyInvHolds ==
  AssemblySpec => []AssemblyInv
<1>1. AssemblyInit => AssemblyInv
  BY AssemblyBegins
<1>2. AssemblyInv /\ [AssemblyNext]_assemblyVars => AssemblyInv'
  BY AllocateKeeps, PlaceNextKeeps, DropNextKeeps, AssemblyStopsOrStutters DEF AssemblyNext
<1>3. QED
  BY <1>1, <1>2, PTL DEF AssemblySpec

\* The caps a request's sections are given stand as allocate's doc says, and go
\* on standing while the candidates are placed and dropped (budget.rs:168-256).
THEOREM SharesByPriority ==
  AssemblySpec => []AllocationByPriority
<1>1. AssemblyInv => AllocationByPriority
  BY DEF AssemblyInv
<1>2. QED
  BY <1>1, AssemblyInvHolds, PTL

\* A prompt stays within its caps and its window, and nothing was dropped that
\* would fit in what is left (assemble.rs:155-230).
THEOREM NothingIsWasted ==
  AssemblySpec => []PromptFillsBudget
<1>1. AssemblyInv => PromptFillsBudget
  BY DEF AssemblyInv, PromptFillsBudget
<1>2. QED
  BY <1>1, AssemblyInvHolds, PTL

-----------------------------------------------------------------------------
(* The permissions a tool call needs.                                      *)

States == {"none", "Implementing", "WaitingForPermission"} \union Terminal

Prompts == [id : Nat, call : Calls] \union {NoPrompt}

Answers == [stage : {"sent", "approved", "ran"}, task : Tasks, shown : Nat,
            named : BOOLEAN, decision : {"Once", "Task", "Deny"}, of : Prompts]

Grants == {GrantTo(t, call) : t \in Tasks, call \in Calls}

Runs == [task : Tasks, call : Calls, id : Nat, why : {"table", "grant", "answer"},
         by : Nat, meant : Nat]

\* Every variable keeps its shape.
GateTypeOK ==
  /\ mode \in Modes
  /\ taskMode \in [Tasks -> Modes \union {NoMode}]
  /\ grants \subseteq Grants
  /\ state \in [Tasks -> States]
  /\ driver \in [Tasks -> {"off", "ready", "ran"}]
  /\ issued \in [Tasks -> Calls \union {NoCall}]
  /\ prompt \in [Tasks -> Prompts]
  /\ count \in [Tasks -> Nat]
  /\ answer \in [Clients -> Answers \union {NoAnswer}]
  /\ crashes \in Nat
  /\ born \in [Tasks -> [mode : Modes \union {NoMode}, by : Nat]]
  /\ runs \in Seq(Runs)

\* An answer under approval holds a prompt that was really open.
Approved ==
  \A c \in Clients : answer[c].stage = "approved" => answer[c].of.call \in Calls /\ answer[c].of.id \in Nat

\* A call without an outcome belongs to a task at work.
Working == \A t \in Tasks : issued[t] # NoCall => state[t] = "Implementing"

\* A task that has not begun has no mode, no answer and no run.
Unborn ==
  /\ \A t \in Tasks : state[t] = "none" => taskMode[t] = NoMode
  /\ \A c \in Clients : answer[c] # NoAnswer => state[answer[c].task] # "none"
  /\ \A r \in Ran : state[r.task] # "none"

\* Until its driver has ended a task has, in the process it was created in,
\* the mode it was created with.
Pinned ==
  \A t \in Tasks :
    /\ born[t].by <= crashes
    /\ state[t] \in {"Implementing", "WaitingForPermission"} /\ born[t].by = crashes
         => EffectiveMode(t) = born[t].mode

\* Every grant held was given in this process.
GrantsGiven == \A g \in grants : \E a \in allowed : a.by = crashes /\ a.grant = g

GateInv == GateTypeOK /\ Approved /\ Working /\ Unborn /\ Pinned /\ GrantsGiven /\ UnaskedByRight
-----------------------------------------------------------------------------
(* Every variable keeps its shape.                                         *)

\* What Evaluate gives as its reason.
LEMMA EvaluateWhy ==
  ASSUME NEW m, NEW held, NEW t, NEW req
  PROVE  Evaluate(m, held, t, req).why \in {"table", "grant"}
BY DEF Evaluate

\* An answer that has begun is a record of the shape of Answers.
LEMMA BegunAnswer ==
  ASSUME GateTypeOK, NEW c \in Clients, answer[c].stage # "idle"
  PROVE  /\ answer[c] \in Answers /\ answer[c] # NoAnswer
         /\ answer[c].task \in Tasks /\ answer[c].of \in Prompts /\ answer[c].shown \in Nat
         /\ answer[c].named \in BOOLEAN
<1>1. answer[c] # NoAnswer
  BY DEF NoAnswer
<1>2. answer[c] \in Answers
  BY <1>1 DEF GateTypeOK
<1>3. QED
  BY <1>1, <1>2 DEF Answers

\* A prompt that is open names a call.
LEMMA OpenPrompt ==
  ASSUME GateTypeOK, NEW t \in Tasks
  PROVE  prompt[t].id \in Nat /\ (prompt[t] # NoPrompt => prompt[t].call \in Calls)
BY DEF GateTypeOK, Prompts, NoPrompt

\* Updating the stage of an answer, and the prompt it is of.
LEMMA AnswerUpdate ==
  ASSUME NEW a \in Answers, NEW o \in Prompts
  PROVE  /\ Approval(a, o) \in Answers
         /\ Approval(a, o).stage = "approved"
         /\ Approval(a, o).of = o
         /\ Approval(a, o).task = a.task
         /\ Executed(a) \in Answers
         /\ Executed(a).stage = "ran"
         /\ Executed(a).task = a.task
BY DEF Answers, Approval, Executed

\* No step changes the shape of a variable.
LEMMA TypeStep ==
  ASSUME GateTypeOK, Approved, [GateNext]_gateVars
  PROVE  GateTypeOK'
<1> USE ToolGateAssumption DEF GateTypeOK, States, Terminal
<1>1. ASSUME NEW t \in Tasks, CreateTask(t) PROVE GateTypeOK'
  BY <1>1 DEF CreateTask, history
<1>2. ASSUME NEW p \in Tasks, NEW t \in Tasks, CreateChild(p, t) PROVE GateTypeOK'
  BY <1>2 DEF CreateChild, history
<1>3. ASSUME NEW t \in Tasks, Issue(t) PROVE GateTypeOK'
  BY <1>3 DEF Issue, history, Prompts
<1>4. ASSUME NEW t \in Tasks, RunAllowed(t) PROVE GateTypeOK'
  <2> DEFINE r == [task |-> t, call |-> issued[t], id |-> count[t],
                   why |-> Evaluate(EffectiveMode(t), grants, t, issued[t]).why,
                   by |-> crashes, meant |-> count[t]]
  <2>1. r \in Runs
    BY <1>4, EvaluateWhy DEF RunAllowed, Runs
  <2>2. runs' = Append(runs, r)
    BY <1>4 DEF RunAllowed
  <2>3. runs' \in Seq(Runs)
    BY <2>1, <2>2
  <2>4. QED
    BY <1>4, <2>3 DEF RunAllowed, history
<1>5. ASSUME NEW t \in Tasks, JournalResult(t) PROVE GateTypeOK'
  BY <1>5 DEF JournalResult, history
<1>6. ASSUME NEW t \in Tasks, RunDenied(t) PROVE GateTypeOK'
  BY <1>6 DEF RunDenied, history
<1>7. ASSUME NEW t \in Tasks, RunAsks(t) PROVE GateTypeOK'
  BY <1>7 DEF RunAsks, history, Prompts
<1>8. ASSUME NEW t \in Tasks, EndDriver(t) PROVE GateTypeOK'
  BY <1>8 DEF EndDriver, history
<1>9. ASSUME NEW t \in Tasks, Resume(t) PROVE GateTypeOK'
  BY <1>9 DEF Resume, history
<1>10. ASSUME NEW t \in Tasks, NEW c \in Clients, BeginAnswer(c, t) PROVE GateTypeOK'
  <2>1. PICK decision \in {"Once", "Task", "Deny"}, named \in BOOLEAN :
          answer' = [answer EXCEPT ![c] = [stage |-> "sent", task |-> t, shown |-> prompt[t].id,
                                           named |-> named, decision |-> decision, of |-> NoPrompt]]
    BY <1>10 DEF BeginAnswer
  <2> DEFINE a == [stage |-> "sent", task |-> t, shown |-> prompt[t].id, named |-> named,
                   decision |-> decision, of |-> NoPrompt]
  <2>2. prompt[t].id \in Nat /\ NoPrompt \in Prompts
    BY OpenPrompt DEF Prompts
  <2>3. a \in Answers
    BY <2>2 DEF Answers
  <2>4. answer' \in [Clients -> Answers \union {NoAnswer}]
    BY <2>1, <2>3
  <2>5. UNCHANGED <<mode, taskMode, grants, state, driver, issued, prompt, count, crashes, born,
                    runs>>
    BY <1>10 DEF BeginAnswer
  <2>6. QED
    BY <2>4, <2>5
<1>11. ASSUME NEW c \in Clients, RefuseAnswer(c) PROVE GateTypeOK'
  BY <1>11 DEF RefuseAnswer, history
<1>12. ASSUME NEW c \in Clients, DenyCall(c) PROVE GateTypeOK'
  BY <1>12, BegunAnswer DEF DenyCall, AcceptAnswer, history, Prompts
<1>13. ASSUME NEW c \in Clients, ApproveCall(c) PROVE GateTypeOK'
  <2>1. answer[c] \in Answers /\ answer[c].task \in Tasks
    BY <1>13, BegunAnswer DEF ApproveCall, AcceptAnswer
  <2>2. prompt[answer[c].task] \in Prompts /\ prompt[answer[c].task].call \in Calls
    BY <1>13, <2>1, OpenPrompt DEF ApproveCall, AcceptAnswer
  <2>3. Approval(answer[c], prompt[answer[c].task]) \in Answers
    BY <2>1, <2>2, AnswerUpdate
  <2>4. answer' \in [Clients -> Answers \union {NoAnswer}]
    BY <1>13, <2>3 DEF ApproveCall
  <2>5. GrantTo(answer[c].task, prompt[answer[c].task].call) \in Grants
    BY <2>1, <2>2 DEF Grants
  <2>6. grants' \subseteq Grants
    BY <1>13, <2>5 DEF ApproveCall
  <2>7. UNCHANGED <<mode, taskMode, state, driver, issued, prompt, count, crashes, born, runs>>
    BY <1>13 DEF ApproveCall
  <2>8. QED
    BY <2>4, <2>6, <2>7
<1>14. ASSUME NEW c \in Clients, RunApproved(c) PROVE GateTypeOK'
  <2>1. answer[c] \in Answers /\ answer[c].task \in Tasks /\ answer[c].shown \in Nat
    BY <1>14, BegunAnswer DEF RunApproved
  <2>2. answer[c].of.call \in Calls /\ answer[c].of.id \in Nat
    BY <1>14 DEF RunApproved, Approved
  <2> DEFINE r == [task |-> answer[c].task, call |-> answer[c].of.call,
                   id |-> answer[c].of.id, why |-> "answer", by |-> crashes,
                   meant |-> IF answer[c].named THEN answer[c].shown ELSE answer[c].of.id]
  <2>3. r \in Runs
    BY <2>1, <2>2 DEF Runs
  <2>4. runs' = Append(runs, r)
    BY <1>14 DEF RunApproved
  <2>5. runs' \in Seq(Runs)
    BY <2>3, <2>4
  <2>6. Executed(answer[c]) \in Answers
    BY <2>1, AnswerUpdate DEF Answers
  <2>7. answer' = [answer EXCEPT ![c] = Executed(answer[c])]
    BY <1>14 DEF RunApproved
  <2>8. answer' \in [Clients -> Answers \union {NoAnswer}]
    BY <2>6, <2>7
  <2>9. UNCHANGED <<mode, taskMode, grants, state, driver, issued, prompt, count, crashes, born>>
    BY <1>14 DEF RunApproved, history
  <2>10. QED
    BY <2>5, <2>8, <2>9
<1>15. ASSUME NEW c \in Clients, EndAnswer(c) PROVE GateTypeOK'
  BY <1>15, BegunAnswer DEF EndAnswer, history, Prompts
<1>16. ASSUME ProcessEnds PROVE GateTypeOK'
  BY <1>16 DEF ProcessEnds, history
<1>17. CASE UNCHANGED gateVars
  BY <1>17 DEF gateVars
<1>18. QED
  BY <1>1, <1>2, <1>3, <1>4, <1>5, <1>6, <1>7, <1>8, <1>9, <1>10, <1>11, <1>12, <1>13, <1>14, <1>15, <1>16, <1>17 DEF GateNext, DriverNext, ClientNext
-----------------------------------------------------------------------------
(* The invariant, conjunct by conjunct.                                    *)

\* An approval takes the prompt that is open.
LEMMA ApprovedStep ==
  ASSUME GateTypeOK, Approved, [GateNext]_gateVars
  PROVE  Approved'
<1> USE DEF Approved
<1>1. ASSUME NEW t \in Tasks, CreateTask(t) PROVE Approved'
  BY <1>1 DEF CreateTask
<1>2. ASSUME NEW p \in Tasks, NEW t \in Tasks, CreateChild(p, t) PROVE Approved'
  BY <1>2 DEF CreateChild
<1>3. ASSUME NEW t \in Tasks, Issue(t) PROVE Approved'
  BY <1>3 DEF Issue
<1>4. ASSUME NEW t \in Tasks, RunAllowed(t) PROVE Approved'
  BY <1>4 DEF RunAllowed
<1>5. ASSUME NEW t \in Tasks, JournalResult(t) PROVE Approved'
  BY <1>5 DEF JournalResult
<1>6. ASSUME NEW t \in Tasks, RunDenied(t) PROVE Approved'
  BY <1>6 DEF RunDenied
<1>7. ASSUME NEW t \in Tasks, RunAsks(t) PROVE Approved'
  BY <1>7 DEF RunAsks
<1>8. ASSUME NEW t \in Tasks, EndDriver(t) PROVE Approved'
  BY <1>8 DEF EndDriver
<1>9. ASSUME NEW t \in Tasks, Resume(t) PROVE Approved'
  BY <1>9 DEF Resume
<1>10. ASSUME NEW t \in Tasks, NEW c \in Clients, BeginAnswer(c, t) PROVE Approved'
  BY <1>10 DEF BeginAnswer, GateTypeOK
<1>11. ASSUME NEW c \in Clients, RefuseAnswer(c) PROVE Approved'
  BY <1>11 DEF RefuseAnswer, NoAnswer, GateTypeOK
<1>12. ASSUME NEW c \in Clients, DenyCall(c) PROVE Approved'
  BY <1>12 DEF DenyCall, NoAnswer, GateTypeOK
<1>13. ASSUME NEW c \in Clients, ApproveCall(c) PROVE Approved'
  <2>1. answer[c] \in Answers /\ answer[c].task \in Tasks /\ prompt[answer[c].task] \in Prompts
    BY <1>13, BegunAnswer DEF ApproveCall, AcceptAnswer, GateTypeOK
  <2>2. prompt[answer[c].task].call \in Calls /\ prompt[answer[c].task].id \in Nat
    BY <1>13, <2>1, OpenPrompt DEF ApproveCall, AcceptAnswer
  <2>3. Approval(answer[c], prompt[answer[c].task]).of = prompt[answer[c].task]
    BY <2>1, AnswerUpdate
  <2>4. answer'[c] = Approval(answer[c], prompt[answer[c].task])
        /\ \A d \in Clients : d # c => answer'[d] = answer[d]
    BY <1>13 DEF ApproveCall, GateTypeOK
  <2>5. QED
    BY <2>2, <2>3, <2>4
<1>14. ASSUME NEW c \in Clients, RunApproved(c) PROVE Approved'
  <2>1. Executed(answer[c]).stage = "ran"
    BY <1>14, BegunAnswer, AnswerUpdate DEF RunApproved, Answers
  <2>2. answer'[c].stage = "ran" /\ \A d \in Clients : d # c => answer'[d] = answer[d]
    BY <1>14, <2>1 DEF RunApproved, GateTypeOK
  <2>3. QED
    BY <2>2
<1>15. ASSUME NEW c \in Clients, EndAnswer(c) PROVE Approved'
  BY <1>15 DEF EndAnswer, NoAnswer, GateTypeOK
<1>16. ASSUME ProcessEnds PROVE Approved'
  BY <1>16 DEF ProcessEnds, NoAnswer, GateTypeOK
<1>17. CASE UNCHANGED gateVars
  BY <1>17 DEF gateVars
<1>18. QED
  BY <1>1, <1>2, <1>3, <1>4, <1>5, <1>6, <1>7, <1>8,
     <1>9, <1>10, <1>11, <1>12, <1>13, <1>14, <1>15, <1>16, <1>17 DEF GateNext, DriverNext, ClientNext

\* A task that waits, or is over, has no call without an outcome.
LEMMA WorkingStep ==
  ASSUME GateTypeOK, Working, [GateNext]_gateVars
  PROVE  Working'
<1> USE DEF Working, GateTypeOK
<1>1. ASSUME NEW t \in Tasks, CreateTask(t) PROVE Working'
  BY <1>1 DEF CreateTask
<1>2. ASSUME NEW p \in Tasks, NEW t \in Tasks, CreateChild(p, t) PROVE Working'
  BY <1>2 DEF CreateChild
<1>3. ASSUME NEW t \in Tasks, Issue(t) PROVE Working'
  BY <1>3 DEF Issue
<1>4. ASSUME NEW t \in Tasks, RunAllowed(t) PROVE Working'
  BY <1>4 DEF RunAllowed
<1>5. ASSUME NEW t \in Tasks, JournalResult(t) PROVE Working'
  BY <1>5 DEF JournalResult
<1>6. ASSUME NEW t \in Tasks, RunDenied(t) PROVE Working'
  BY <1>6 DEF RunDenied
<1>7. ASSUME NEW t \in Tasks, RunAsks(t) PROVE Working'
  BY <1>7 DEF RunAsks
<1>8. ASSUME NEW t \in Tasks, EndDriver(t) PROVE Working'
  BY <1>8 DEF EndDriver
<1>9. ASSUME NEW t \in Tasks, Resume(t) PROVE Working'
  BY <1>9 DEF Resume
<1>10. ASSUME NEW t \in Tasks, NEW c \in Clients, BeginAnswer(c, t) PROVE Working'
  BY <1>10 DEF BeginAnswer
<1>11. ASSUME NEW c \in Clients, RefuseAnswer(c) PROVE Working'
  BY <1>11 DEF RefuseAnswer
<1>12. ASSUME NEW c \in Clients, DenyCall(c) PROVE Working'
  BY <1>12, BegunAnswer DEF DenyCall, AcceptAnswer, GateTypeOK
<1>13. ASSUME NEW c \in Clients, ApproveCall(c) PROVE Working'
  BY <1>13 DEF ApproveCall
<1>14. ASSUME NEW c \in Clients, RunApproved(c) PROVE Working'
  BY <1>14 DEF RunApproved
<1>15. ASSUME NEW c \in Clients, EndAnswer(c) PROVE Working'
  BY <1>15, BegunAnswer DEF EndAnswer, GateTypeOK
<1>16. ASSUME ProcessEnds PROVE Working'
  BY <1>16 DEF ProcessEnds
<1>17. CASE UNCHANGED gateVars
  BY <1>17 DEF gateVars
<1>18. QED
  BY <1>1, <1>2, <1>3, <1>4, <1>5, <1>6, <1>7, <1>8,
     <1>9, <1>10, <1>11, <1>12, <1>13, <1>14, <1>15, <1>16, <1>17 DEF GateNext, DriverNext, ClientNext

\* A run adds one record to what ran.
LEMMA RanGrows ==
  ASSUME GateTypeOK, NEW r \in Runs, runs' = Append(runs, r)
  PROVE  Ran' = Ran \union {r}
<1>1. runs \in Seq(Runs) /\ DOMAIN runs = 1 .. Len(runs) /\ Len(runs) \in Nat
  BY DEF GateTypeOK
<1>2. DOMAIN runs' = 1 .. Len(runs) + 1 /\ runs'[Len(runs) + 1] = r
      /\ \A i \in DOMAIN runs : runs'[i] = runs[i]
  BY <1>1
<1>3. QED
  BY <1>1, <1>2 DEF Ran

\* What ran was of a task.
LEMMA RanTyped ==
  ASSUME GateTypeOK
  PROVE  Ran \subseteq Runs /\ \A r \in Ran : r.task \in Tasks /\ r.by \in Nat
<1>1. Ran \subseteq Runs
  BY DEF GateTypeOK, Ran
<1>2. QED
  BY <1>1 DEF Runs

\* What RunAllowed adds: the call that has no outcome, and why it ran.
LEMMA AllowedRun ==
  ASSUME GateTypeOK, NEW t \in Tasks, RunAllowed(t)
  PROVE  \E r \in Runs :
           /\ Ran' = Ran \union {r}
           /\ r.task = t /\ r.call = issued[t] /\ r.by = crashes
           /\ r.why = Evaluate(EffectiveMode(t), grants, t, issued[t]).why
<1> DEFINE r == [task |-> t, call |-> issued[t], id |-> count[t],
                 why |-> Evaluate(EffectiveMode(t), grants, t, issued[t]).why,
                 by |-> crashes, meant |-> count[t]]
<1>1. r \in Runs
  BY EvaluateWhy DEF RunAllowed, Runs, GateTypeOK
<1>2. runs' = Append(runs, r)
  BY DEF RunAllowed
<1>3. Ran' = Ran \union {r}
  BY <1>1, <1>2, RanGrows
<1>4. r.task = t /\ r.call = issued[t] /\ r.by = crashes
      /\ r.why = Evaluate(EffectiveMode(t), grants, t, issued[t]).why
  OBVIOUS
<1>5. QED
  BY <1>1, <1>3, <1>4

\* What RunApproved adds: a run that was asked for.
LEMMA ApprovedRun ==
  ASSUME GateTypeOK, Approved, NEW c \in Clients, RunApproved(c)
  PROVE  \E r \in Runs :
           Ran' = Ran \union {r} /\ r.task = answer[c].task /\ r.why = "answer"
<1>1. answer[c] \in Answers /\ answer[c].task \in Tasks /\ answer[c].shown \in Nat
  BY BegunAnswer DEF RunApproved
<1>2. answer[c].of.call \in Calls /\ answer[c].of.id \in Nat
  BY DEF RunApproved, Approved
<1> DEFINE r == [task |-> answer[c].task, call |-> answer[c].of.call,
                 id |-> answer[c].of.id, why |-> "answer", by |-> crashes,
                 meant |-> IF answer[c].named THEN answer[c].shown ELSE answer[c].of.id]
<1>3. r \in Runs
  BY <1>1, <1>2 DEF Runs, GateTypeOK
<1>4. runs' = Append(runs, r)
  BY DEF RunApproved
<1>5. QED
  BY <1>3, <1>4, RanGrows

\* A task that has begun stays begun, and only such a task runs or is answered.
LEMMA UnbornStep ==
  ASSUME GateTypeOK, Approved, Working, Unborn, [GateNext]_gateVars
  PROVE  Unborn'
<1> USE DEF Unborn, GateTypeOK
<1>1. ASSUME NEW t \in Tasks, CreateTask(t) PROVE Unborn'
  <2>1. Ran' = Ran
    BY <1>1 DEF CreateTask, Ran
  <2>2. QED
    BY <1>1, <2>1, RanTyped DEF CreateTask, history
<1>2. ASSUME NEW p \in Tasks, NEW t \in Tasks, CreateChild(p, t) PROVE Unborn'
  <2>1. Ran' = Ran
    BY <1>2 DEF CreateChild, Ran
  <2>2. QED
    BY <1>2, <2>1, RanTyped DEF CreateChild, history
<1>3. ASSUME NEW t \in Tasks, Issue(t) PROVE Unborn'
  <2>1. Ran' = Ran
    BY <1>3 DEF Issue, Ran
  <2>2. QED
    BY <1>3, <2>1, RanTyped DEF Issue, history
<1>4. ASSUME NEW t \in Tasks, RunAllowed(t) PROVE Unborn'
  <2>1. PICK r \in Runs : Ran' = Ran \union {r} /\ r.task = t
    BY <1>4, AllowedRun
  <2>2. state[t] = "Implementing"
    BY <1>4 DEF RunAllowed, Working
  <2>3. QED
    BY <1>4, <2>1, <2>2, RanTyped DEF RunAllowed, history
<1>5. ASSUME NEW t \in Tasks, JournalResult(t) PROVE Unborn'
  <2>1. Ran' = Ran
    BY <1>5 DEF JournalResult, Ran
  <2>2. QED
    BY <1>5, <2>1, RanTyped DEF JournalResult, history
<1>6. ASSUME NEW t \in Tasks, RunDenied(t) PROVE Unborn'
  <2>1. Ran' = Ran
    BY <1>6 DEF RunDenied, Ran
  <2>2. QED
    BY <1>6, <2>1, RanTyped DEF RunDenied, history
<1>7. ASSUME NEW t \in Tasks, RunAsks(t) PROVE Unborn'
  <2>1. Ran' = Ran
    BY <1>7 DEF RunAsks, Ran
  <2>2. QED
    BY <1>7, <2>1, RanTyped DEF RunAsks, history
<1>8. ASSUME NEW t \in Tasks, EndDriver(t) PROVE Unborn'
  <2>1. Ran' = Ran
    BY <1>8 DEF EndDriver, Ran
  <2>2. QED
    BY <1>8, <2>1, RanTyped DEF EndDriver, history
<1>9. ASSUME NEW t \in Tasks, Resume(t) PROVE Unborn'
  <2>1. Ran' = Ran
    BY <1>9 DEF Resume, Ran
  <2>2. QED
    BY <1>9, <2>1, RanTyped DEF Resume, history
<1>10. ASSUME NEW t \in Tasks, NEW c \in Clients, BeginAnswer(c, t) PROVE Unborn'
  <2>1. state[t] # "none" /\ UNCHANGED <<state, taskMode, runs>>
    BY <1>10 DEF BeginAnswer
  <2>2. answer'[c].task = t /\ \A d \in Clients : d # c => answer'[d] = answer[d]
    BY <1>10 DEF BeginAnswer
  <2>3. Ran' = Ran
    BY <2>1 DEF Ran
  <2>4. QED
    BY <2>1, <2>2, <2>3
<1>11. ASSUME NEW c \in Clients, RefuseAnswer(c) PROVE Unborn'
  <2>1. Ran' = Ran
    BY <1>11 DEF RefuseAnswer, Ran
  <2>2. QED
    BY <1>11, <2>1, RanTyped, BegunAnswer DEF RefuseAnswer, history
<1>12. ASSUME NEW c \in Clients, DenyCall(c) PROVE Unborn'
  <2>1. Ran' = Ran
    BY <1>12 DEF DenyCall, Ran
  <2>2. QED
    BY <1>12, <2>1, RanTyped, BegunAnswer DEF DenyCall, history, AcceptAnswer
<1>13. ASSUME NEW c \in Clients, ApproveCall(c) PROVE Unborn'
  <2>1. answer[c] # NoAnswer /\ answer[c] \in Answers /\ prompt[answer[c].task] \in Prompts
    BY <1>13, BegunAnswer DEF ApproveCall, AcceptAnswer
  <2>2. Approval(answer[c], prompt[answer[c].task]).task = answer[c].task
    BY <2>1, AnswerUpdate
  <2>3. answer' = [answer EXCEPT ![c] = Approval(answer[c], prompt[answer[c].task])]
        /\ UNCHANGED <<state, taskMode, runs>>
    BY <1>13 DEF ApproveCall
  <2>4. Ran' = Ran
    BY <2>3 DEF Ran
  <2>5. QED
    BY <2>1, <2>2, <2>3, <2>4
<1>14. ASSUME NEW c \in Clients, RunApproved(c) PROVE Unborn'
  <2>1. PICK r \in Runs : Ran' = Ran \union {r} /\ r.task = answer[c].task
    BY <1>14, ApprovedRun
  <2>2. answer[c] # NoAnswer
    BY <1>14, BegunAnswer DEF RunApproved
  <2>3. answer[c] \in Answers /\ Executed(answer[c]).task = answer[c].task
    BY <1>14, BegunAnswer, AnswerUpdate DEF RunApproved
  <2>4. answer' = [answer EXCEPT ![c] = Executed(answer[c])]
        /\ UNCHANGED <<state, taskMode>>
    BY <1>14 DEF RunApproved
  <2>5. QED
    BY <2>1, <2>2, <2>3, <2>4, RanTyped
<1>15. ASSUME NEW c \in Clients, EndAnswer(c) PROVE Unborn'
  <2>1. answer[c].task \in Tasks /\ answer[c] # NoAnswer /\ state[answer[c].task] # "none"
    BY <1>15, BegunAnswer DEF EndAnswer
  <2>2. \A u \in Tasks : state[u] # "none" => state'[u] # "none"
    BY <1>15, <2>1 DEF EndAnswer
  <2>3. \A u \in Tasks : state'[u] = "none" => state[u] = "none"
    BY <2>2
  <2>4. answer' = [answer EXCEPT ![c] = NoAnswer] /\ UNCHANGED <<taskMode, runs>>
    BY <1>15 DEF EndAnswer
  <2>5. \A d \in Clients : answer'[d] # NoAnswer
                          => answer'[d] = answer[d] /\ answer[d].task \in Tasks
    BY <2>4 DEF Answers
  <2>6. Ran' = Ran
    BY <2>4 DEF Ran
  <2>7. QED
    BY <2>2, <2>3, <2>4, <2>5, <2>6, RanTyped
<1>16. ASSUME ProcessEnds PROVE Unborn'
  <2>1. Ran' = Ran
    BY <1>16 DEF ProcessEnds, Ran
  <2>2. QED
    BY <1>16, <2>1, RanTyped DEF ProcessEnds, history
<1>17. CASE UNCHANGED gateVars
  BY <1>17, RanTyped DEF gateVars, Ran
<1>18. QED
  BY <1>1, <1>2, <1>3, <1>4, <1>5, <1>6, <1>7, <1>8,
     <1>9, <1>10, <1>11, <1>12, <1>13, <1>14, <1>15, <1>16, <1>17 DEF GateNext, DriverNext, ClientNext

\* A task at work in the process it was created in is in the mode it was created with.
LEMMA PinnedStep ==
  ASSUME GateTypeOK, Unborn, Working, Pinned, [GateNext]_gateVars
  PROVE  Pinned'
<1> USE DEF Pinned, GateTypeOK, EffectiveMode, NoMode
<1>1. ASSUME NEW t \in Tasks, CreateTask(t) PROVE Pinned'
  BY <1>1, ToolGateAssumption DEF CreateTask, history
<1>2. ASSUME NEW p \in Tasks, NEW t \in Tasks, CreateChild(p, t) PROVE Pinned'
  BY <1>2 DEF CreateChild, history, Unborn
<1>3. ASSUME NEW t \in Tasks, Issue(t) PROVE Pinned'
  BY <1>3 DEF Issue, history
<1>4. ASSUME NEW t \in Tasks, RunAllowed(t) PROVE Pinned'
  BY <1>4 DEF RunAllowed, history
<1>5. ASSUME NEW t \in Tasks, JournalResult(t) PROVE Pinned'
  BY <1>5 DEF JournalResult, history
<1>6. ASSUME NEW t \in Tasks, RunDenied(t) PROVE Pinned'
  BY <1>6 DEF RunDenied, history
<1>7. ASSUME NEW t \in Tasks, RunAsks(t) PROVE Pinned'
  <2>1. state[t] = "Implementing"
    BY <1>7 DEF RunAsks, Working
  <2>2. \A u \in Tasks : state'[u] \in {"Implementing", "WaitingForPermission"}
                          => state[u] \in {"Implementing", "WaitingForPermission"}
    BY <1>7, <2>1 DEF RunAsks
  <2>3. UNCHANGED <<mode, taskMode, born, crashes>>
    BY <1>7 DEF RunAsks, history
  <2>4. QED
    BY <2>2, <2>3
<1>8. ASSUME NEW t \in Tasks, EndDriver(t) PROVE Pinned'
  <2>1. state'[t] \notin {"Implementing", "WaitingForPermission"}
    BY <1>8 DEF EndDriver, Terminal, Working
  <2>2. \A u \in Tasks : u # t => state'[u] = state[u] /\ taskMode'[u] = taskMode[u]
    BY <1>8 DEF EndDriver
  <2>3. QED
    BY <1>8, <2>1, <2>2 DEF EndDriver, history
<1>9. ASSUME NEW t \in Tasks, Resume(t) PROVE Pinned'
  BY <1>9 DEF Resume, history
<1>10. ASSUME NEW t \in Tasks, NEW c \in Clients, BeginAnswer(c, t) PROVE Pinned'
  BY <1>10 DEF BeginAnswer, history
<1>11. ASSUME NEW c \in Clients, RefuseAnswer(c) PROVE Pinned'
  BY <1>11 DEF RefuseAnswer, history
<1>12. ASSUME NEW c \in Clients, DenyCall(c) PROVE Pinned'
  BY <1>12, BegunAnswer DEF DenyCall, AcceptAnswer, history
<1>13. ASSUME NEW c \in Clients, ApproveCall(c) PROVE Pinned'
  BY <1>13 DEF ApproveCall, history
<1>14. ASSUME NEW c \in Clients, RunApproved(c) PROVE Pinned'
  BY <1>14 DEF RunApproved, history
<1>15. ASSUME NEW c \in Clients, EndAnswer(c) PROVE Pinned'
  BY <1>15, BegunAnswer DEF EndAnswer, history
<1>16. ASSUME ProcessEnds PROVE Pinned'
  BY <1>16 DEF ProcessEnds, history
<1>17. CASE UNCHANGED gateVars
  BY <1>17 DEF gateVars
<1>18. QED
  BY <1>1, <1>2, <1>3, <1>4, <1>5, <1>6, <1>7, <1>8,
     <1>9, <1>10, <1>11, <1>12, <1>13, <1>14, <1>15, <1>16, <1>17 DEF GateNext, DriverNext, ClientNext

\* A grant enters with the answer that gives it, and none outlives its process.
LEMMA GivenStep ==
  ASSUME GateTypeOK, GrantsGiven, [GateNext]_gateVars
  PROVE  GrantsGiven'
<1> USE DEF GrantsGiven
<1>1. ASSUME NEW t \in Tasks, CreateTask(t) PROVE GrantsGiven'
  BY <1>1 DEF CreateTask, history
<1>2. ASSUME NEW p \in Tasks, NEW t \in Tasks, CreateChild(p, t) PROVE GrantsGiven'
  BY <1>2 DEF CreateChild, history
<1>3. ASSUME NEW t \in Tasks, Issue(t) PROVE GrantsGiven'
  BY <1>3 DEF Issue, history
<1>4. ASSUME NEW t \in Tasks, RunAllowed(t) PROVE GrantsGiven'
  BY <1>4 DEF RunAllowed, history
<1>5. ASSUME NEW t \in Tasks, JournalResult(t) PROVE GrantsGiven'
  BY <1>5 DEF JournalResult, history
<1>6. ASSUME NEW t \in Tasks, RunDenied(t) PROVE GrantsGiven'
  BY <1>6 DEF RunDenied, history
<1>7. ASSUME NEW t \in Tasks, RunAsks(t) PROVE GrantsGiven'
  BY <1>7 DEF RunAsks, history
<1>8. ASSUME NEW t \in Tasks, EndDriver(t) PROVE GrantsGiven'
  BY <1>8 DEF EndDriver, history
<1>9. ASSUME NEW t \in Tasks, Resume(t) PROVE GrantsGiven'
  BY <1>9 DEF Resume, history
<1>10. ASSUME NEW t \in Tasks, NEW c \in Clients, BeginAnswer(c, t) PROVE GrantsGiven'
  BY <1>10 DEF BeginAnswer, history
<1>11. ASSUME NEW c \in Clients, RefuseAnswer(c) PROVE GrantsGiven'
  BY <1>11 DEF RefuseAnswer, history
<1>12. ASSUME NEW c \in Clients, DenyCall(c) PROVE GrantsGiven'
  BY <1>12 DEF DenyCall, history
<1>13. ASSUME NEW c \in Clients, ApproveCall(c) PROVE GrantsGiven'
  <2> DEFINE g == GrantTo(answer[c].task, prompt[answer[c].task].call)
  <2>1. CASE answer[c].decision = "Task"
    <3>1. [grant |-> g, by |-> crashes].by = crashes /\ [grant |-> g, by |-> crashes].grant = g
      OBVIOUS
    <3>2. grants' = grants \union {g} /\ allowed' = allowed \union {[grant |-> g, by |-> crashes]}
          /\ crashes' = crashes
      BY <1>13, <2>1 DEF ApproveCall
    <3> HIDE DEF g
    <3>3. QED
      BY <3>1, <3>2
  <2>2. CASE answer[c].decision # "Task"
    BY <1>13, <2>2 DEF ApproveCall
  <2>3. QED
    BY <2>1, <2>2
<1>14. ASSUME NEW c \in Clients, RunApproved(c) PROVE GrantsGiven'
  BY <1>14 DEF RunApproved, history
<1>15. ASSUME NEW c \in Clients, EndAnswer(c) PROVE GrantsGiven'
  BY <1>15 DEF EndAnswer, history
<1>16. ASSUME ProcessEnds PROVE GrantsGiven'
  BY <1>16 DEF ProcessEnds, history
<1>17. CASE UNCHANGED gateVars
  BY <1>17 DEF gateVars
<1>18. QED
  BY <1>1, <1>2, <1>3, <1>4, <1>5, <1>6, <1>7, <1>8,
     <1>9, <1>10, <1>11, <1>12, <1>13, <1>14, <1>15, <1>16, <1>17 DEF GateNext, DriverNext, ClientNext

\* Whatever runs unasked has the right to.
LEMMA UnaskedStep ==
  ASSUME GateTypeOK, Approved, Working, Unborn, Pinned, GrantsGiven, UnaskedByRight, [GateNext]_gateVars
  PROVE  UnaskedByRight'
<1> USE DEF UnaskedByRight
<1>1. ASSUME NEW t \in Tasks, CreateTask(t) PROVE UnaskedByRight'
  <2>1. Ran' = Ran /\ allowed' = allowed
    BY <1>1 DEF CreateTask, Ran
  <2>2. \A u \in Tasks : u # t => born'[u] = born[u]
    BY <1>1 DEF CreateTask, GateTypeOK
  <2>3. \A r \in Ran : r.task # t /\ r.task \in Tasks
    BY <1>1, RanTyped DEF CreateTask, Unborn
  <2>4. QED
    BY <2>1, <2>2, <2>3
<1>2. ASSUME NEW p \in Tasks, NEW t \in Tasks, CreateChild(p, t) PROVE UnaskedByRight'
  <2>1. Ran' = Ran /\ allowed' = allowed
    BY <1>2 DEF CreateChild, Ran
  <2>2. \A u \in Tasks : u # t => born'[u] = born[u]
    BY <1>2 DEF CreateChild, GateTypeOK
  <2>3. \A r \in Ran : r.task # t /\ r.task \in Tasks
    BY <1>2, RanTyped DEF CreateChild, Unborn
  <2>4. QED
    BY <2>1, <2>2, <2>3
<1>3. ASSUME NEW t \in Tasks, Issue(t) PROVE UnaskedByRight'
  <2>1. Ran' = Ran
    BY <1>3 DEF Issue, Ran
  <2>2. QED
    BY <1>3, <2>1, RanTyped DEF Issue, history
<1>4. ASSUME NEW t \in Tasks, RunAllowed(t) PROVE UnaskedByRight'
  <2>1. PICK r \in Runs :
          /\ Ran' = Ran \union {r}
          /\ r.task = t /\ r.call = issued[t] /\ r.by = crashes
          /\ r.why = Evaluate(EffectiveMode(t), grants, t, issued[t]).why
    BY <1>4, AllowedRun
  <2>2. UNCHANGED <<born, allowed, crashes>>
    BY <1>4 DEF RunAllowed, history
  <2>3. issued[t] \in Calls /\ state[t] = "Implementing"
        /\ Evaluate(EffectiveMode(t), grants, t, issued[t]).decision = "allow"
    BY <1>4 DEF RunAllowed, Working, GateTypeOK
  <2>4. CASE \E g \in grants : Covers(g, t, issued[t])
    <3>1. PICK g \in grants : Covers(g, t, issued[t])
      BY <2>4
    <3>2. g = GrantTo(t, issued[t])
      BY <3>1 DEF Covers, SameKind, GrantTo, GateTypeOK, Grants
    <3>3. \E a \in allowed : a.by = crashes /\ a.grant = GrantTo(t, issued[t])
      BY <3>2 DEF GrantsGiven
    <3>4. r.why = "grant"
      BY <2>1, <2>4 DEF Evaluate
    <3>5. QED
      BY <2>1, <2>2, <3>3, <3>4
  <2>5. CASE ~\E g \in grants : Covers(g, t, issued[t])
    <3>1. r.why = "table" /\ DefaultDecision(EffectiveMode(t), issued[t]) = "allow"
      BY <2>1, <2>3, <2>5 DEF Evaluate
    <3>2. born[t].by = crashes => EffectiveMode(t) = born[t].mode
      BY <2>3 DEF Pinned
    <3>3. QED
      BY <2>1, <2>2, <3>1, <3>2
  <2>6. QED
    BY <2>4, <2>5
<1>5. ASSUME NEW t \in Tasks, JournalResult(t) PROVE UnaskedByRight'
  <2>1. Ran' = Ran
    BY <1>5 DEF JournalResult, Ran
  <2>2. QED
    BY <1>5, <2>1, RanTyped DEF JournalResult, history
<1>6. ASSUME NEW t \in Tasks, RunDenied(t) PROVE UnaskedByRight'
  <2>1. Ran' = Ran
    BY <1>6 DEF RunDenied, Ran
  <2>2. QED
    BY <1>6, <2>1, RanTyped DEF RunDenied, history
<1>7. ASSUME NEW t \in Tasks, RunAsks(t) PROVE UnaskedByRight'
  <2>1. Ran' = Ran
    BY <1>7 DEF RunAsks, Ran
  <2>2. QED
    BY <1>7, <2>1, RanTyped DEF RunAsks, history
<1>8. ASSUME NEW t \in Tasks, EndDriver(t) PROVE UnaskedByRight'
  <2>1. Ran' = Ran
    BY <1>8 DEF EndDriver, Ran
  <2>2. QED
    BY <1>8, <2>1, RanTyped DEF EndDriver, history
<1>9. ASSUME NEW t \in Tasks, Resume(t) PROVE UnaskedByRight'
  <2>1. Ran' = Ran
    BY <1>9 DEF Resume, Ran
  <2>2. QED
    BY <1>9, <2>1, RanTyped DEF Resume, history
<1>10. ASSUME NEW t \in Tasks, NEW c \in Clients, BeginAnswer(c, t) PROVE UnaskedByRight'
  <2>1. Ran' = Ran
    BY <1>10 DEF BeginAnswer, Ran
  <2>2. QED
    BY <1>10, <2>1, RanTyped DEF BeginAnswer, history
<1>11. ASSUME NEW c \in Clients, RefuseAnswer(c) PROVE UnaskedByRight'
  <2>1. Ran' = Ran
    BY <1>11 DEF RefuseAnswer, Ran
  <2>2. QED
    BY <1>11, <2>1, RanTyped DEF RefuseAnswer, history
<1>12. ASSUME NEW c \in Clients, DenyCall(c) PROVE UnaskedByRight'
  <2>1. Ran' = Ran
    BY <1>12 DEF DenyCall, Ran
  <2>2. QED
    BY <1>12, <2>1, RanTyped DEF DenyCall, history
<1>13. ASSUME NEW c \in Clients, ApproveCall(c) PROVE UnaskedByRight'
  <2>1. Ran' = Ran
    BY <1>13 DEF ApproveCall, Ran
  <2>2. QED
    BY <1>13, <2>1, RanTyped DEF ApproveCall, history
<1>14. ASSUME NEW c \in Clients, RunApproved(c) PROVE UnaskedByRight'
  <2>1. PICK r \in Runs : Ran' = Ran \union {r} /\ r.why = "answer"
    BY <1>14, ApprovedRun
  <2>2. UNCHANGED <<born, allowed>>
    BY <1>14 DEF RunApproved, history
  <2>3. QED
    BY <2>1, <2>2
<1>15. ASSUME NEW c \in Clients, EndAnswer(c) PROVE UnaskedByRight'
  <2>1. Ran' = Ran
    BY <1>15 DEF EndAnswer, Ran
  <2>2. QED
    BY <1>15, <2>1, RanTyped DEF EndAnswer, history
<1>16. ASSUME ProcessEnds PROVE UnaskedByRight'
  <2>1. Ran' = Ran
    BY <1>16 DEF ProcessEnds, Ran
  <2>2. QED
    BY <1>16, <2>1, RanTyped DEF ProcessEnds, history
<1>17. CASE UNCHANGED gateVars
  BY <1>17, RanTyped DEF gateVars, Ran
<1>18. QED
  BY <1>1, <1>2, <1>3, <1>4, <1>5, <1>6, <1>7, <1>8,
     <1>9, <1>10, <1>11, <1>12, <1>13, <1>14, <1>15, <1>16, <1>17 DEF GateNext, DriverNext, ClientNext

-----------------------------------------------------------------------------

\* The invariant holds at the start.
LEMMA GateInvInit ==
  ASSUME GateInit
  PROVE  GateInv
<1> USE ToolGateAssumption DEF GateInit
<1>1. GateTypeOK
  BY DEF GateTypeOK, States, Prompts, NoAnswer
<1>2. Approved
  BY DEF Approved, NoAnswer
<1>3. Working
  BY DEF Working
<1>4. Unborn
  BY DEF Unborn, Ran
<1>5. Pinned
  BY DEF Pinned
<1>6. GrantsGiven
  BY DEF GrantsGiven
<1>7. UnaskedByRight
  BY DEF UnaskedByRight, Ran
<1>8. QED
  BY <1>1, <1>2, <1>3, <1>4, <1>5, <1>6, <1>7 DEF GateInv

\* Every step keeps every part of the invariant.
LEMMA GateStep ==
  ASSUME GateInv, [GateNext]_gateVars
  PROVE  GateInv'
BY TypeStep, ApprovedStep, WorkingStep, UnbornStep, PinnedStep, GivenStep, UnaskedStep DEF GateInv

\* Whatever runs without being asked about was allowed by the mode its task
\* was created with, or by a grant the user gave that task in this process.
THEOREM NothingUnasked == GateSpec => []UnaskedByRight
<1>1. GateInit => GateInv
  BY GateInvInit
<1>2. GateInv /\ [GateNext]_gateVars => GateInv'
  BY GateStep
<1>3. GateInv => UnaskedByRight
  BY DEF GateInv
<1>4. QED
  BY <1>1, <1>2, <1>3, PTL DEF GateSpec
-----------------------------------------------------------------------------
(* An answer runs the call of the prompt it names, and a call runs once.   *)

Waits(t) == state[t] = "WaitingForPermission"

\* No run of t is of its call n.
NoRun(t, n) == \A r \in Ran : r.task = t => r.id # n

\* Only calls that were issued run or are asked about.
Numbered(t) ==
  /\ \A r \in Ran : r.task = t => r.id <= count[t]
  /\ prompt[t].id <= count[t]

\* A journaled call whose run is not about to be journaled has not run.
Fresh(t) == issued[t] # NoCall /\ driver[t] # "ran" => NoRun(t, count[t])

\* One client answers, and what it approved is the prompt that is open.
OneAnswer(t) ==
  /\ \A c, d \in Answering(t) : c = d
  /\ \A c \in Answering(t) : answer[c].stage # "sent" => Waits(t) /\ answer[c].of = prompt[t]

\* Until an answer has run it, the call asked about has not run.
Unrun(t) ==
  Waits(t) => /\ driver[t] = "off"
              /\ (\A c \in Answering(t) : answer[c].stage # "ran") => NoRun(t, prompt[t].id)

Fits(t) == Numbered(t) /\ Fresh(t) /\ OneAnswer(t) /\ Unrun(t)

\* It is so of every task no two clients answer at once and no kill cut off.
AllFit == \A t \in Tasks \ raced : Fits(t)

\* An approval that names a prompt is of that prompt.
Named ==
  \A c \in Clients : answer[c].stage = "approved" /\ answer[c].named
                       => answer[c].shown = answer[c].of.id

\* No call of an unraced task runs twice.
OnceEach ==
  \A i, k \in DOMAIN runs :
    runs[k].task = runs[i].task /\ runs[k].id = runs[i].id /\ runs[i].task \notin raced => k = i

AnswersInv == GateTypeOK /\ Approved /\ Working /\ AllFit /\ Named /\ OnceEach /\ \A r \in Ran : r.id = r.meant

\* What a step does not touch of a task stays fit.
LEMMA FitsKept ==
  ASSUME NEW u \in Tasks, Fits(u),
         \A r \in Ran' : r.task = u => r \in Ran,
         count'[u] = count[u], prompt'[u] = prompt[u], issued'[u] = issued[u],
         driver'[u] = driver[u], state'[u] = state[u],
         \A d \in Clients : d \in Answering(u)' \/ d \in Answering(u) => answer'[d] = answer[d]
  PROVE  Fits(u)'
<1>1. Answering(u)' = Answering(u) /\ \A d \in Answering(u) : answer'[d] = answer[d]
  BY DEF Answering
<1>2. \A n : NoRun(u, n) => NoRun(u, n)'
  BY DEF NoRun
<1>3. Numbered(u)'
  BY DEF Fits, Numbered
<1>4. Fresh(u)'
  BY <1>2 DEF Fits, Fresh
<1>5. OneAnswer(u)'
  BY <1>1 DEF Fits, OneAnswer, Waits
<1>6. Unrun(u)'
  BY <1>1, <1>2 DEF Fits, Unrun, Waits
<1>7. QED
  BY <1>3, <1>4, <1>5, <1>6 DEF Fits

\* A client's step leaves the answers to other tasks alone.
LEMMA OthersAnswers ==
  ASSUME GateTypeOK, NEW c \in Clients, NEW u \in Tasks, NEW x,
         answer' = [answer EXCEPT ![c] = x],
         answer[c].stage = "idle" \/ answer[c].task # u,
         x.stage = "idle" \/ x.task # u
  PROVE  \A d \in Clients : d \in Answering(u)' \/ d \in Answering(u) => answer'[d] = answer[d]
BY DEF GateTypeOK, Answering

\* Approving and executing an answer leave what it shows and names alone.
LEMMA AnswerNames ==
  ASSUME NEW a \in Answers, NEW o \in Prompts
  PROVE  /\ Approval(a, o).named = a.named /\ Approval(a, o).shown = a.shown
         /\ Executed(a).of = a.of
BY DEF Answers, Approval, Executed

\* What RunAllowed adds: the call just issued, once more.
LEMMA AllowedRunOf ==
  ASSUME GateTypeOK, NEW t \in Tasks, RunAllowed(t)
  PROVE  \E r \in Runs : runs' = Append(runs, r) /\ r.task = t /\ r.id = count[t] /\ r.meant = r.id
<1> DEFINE r == [task |-> t, call |-> issued[t], id |-> count[t],
                 why |-> Evaluate(EffectiveMode(t), grants, t, issued[t]).why,
                 by |-> crashes, meant |-> count[t]]
<1>1. r \in Runs
  BY EvaluateWhy DEF RunAllowed, Runs, GateTypeOK
<1>2. runs' = Append(runs, r)
  BY DEF RunAllowed
<1>3. r.task = t /\ r.id = count[t] /\ r.meant = r.id
  OBVIOUS
<1>4. QED
  BY <1>1, <1>2, <1>3

\* What RunApproved adds: the call of the prompt approved.
LEMMA ApprovedRunOf ==
  ASSUME GateTypeOK, Approved, Named, NEW c \in Clients, RunApproved(c)
  PROVE  \E r \in Runs :
           /\ runs' = Append(runs, r)
           /\ r.task = answer[c].task /\ r.id = answer[c].of.id /\ r.meant = r.id
<1>1. answer[c] \in Answers /\ answer[c].task \in Tasks /\ answer[c].shown \in Nat
  BY BegunAnswer DEF RunApproved
<1>2. answer[c].of.call \in Calls /\ answer[c].of.id \in Nat
  BY DEF RunApproved, Approved
<1> DEFINE r == [task |-> answer[c].task, call |-> answer[c].of.call,
                 id |-> answer[c].of.id, why |-> "answer", by |-> crashes,
                 meant |-> IF answer[c].named THEN answer[c].shown ELSE answer[c].of.id]
<1>3. r \in Runs
  BY <1>1, <1>2 DEF Runs, GateTypeOK
<1>4. runs' = Append(runs, r)
  BY DEF RunApproved
<1>5. answer[c].named => answer[c].shown = answer[c].of.id
  BY DEF RunApproved, Named
<1>6. r.task = answer[c].task /\ r.id = answer[c].of.id /\ r.meant = r.id
  BY <1>5
<1>7. QED
  BY <1>3, <1>4, <1>6

\* A call that has not run yet, run now, has run once.
LEMMA OnceMore ==
  ASSUME GateTypeOK, OnceEach, NEW r \in Runs, runs' = Append(runs, r), raced' = raced,
         r.task \notin raced => NoRun(r.task, r.id)
  PROVE  OnceEach'
<1>1. runs \in Seq(Runs) /\ DOMAIN runs = 1 .. Len(runs) /\ Len(runs) \in Nat
  BY DEF GateTypeOK
<1>2. DOMAIN runs' = 1 .. Len(runs) + 1 /\ runs'[Len(runs) + 1] = r
      /\ \A i \in DOMAIN runs : runs'[i] = runs[i]
  BY <1>1
<1>3. \A i \in DOMAIN runs' : i \in DOMAIN runs \/ i = Len(runs) + 1
  BY <1>1, <1>2
<1>4. \A i \in DOMAIN runs : runs[i] \in Ran
  BY DEF Ran
<1>5. \A i \in DOMAIN runs : runs[i].task = r.task /\ runs[i].id = r.id => r.task \in raced
  BY <1>4 DEF NoRun
<1>6. QED
  BY <1>2, <1>3, <1>5 DEF OnceEach

\* No step of an unraced task unfits it.
LEMMA FitsStep ==
  ASSUME GateTypeOK, Approved, Named, Working, AllFit, [GateNext]_gateVars
  PROVE  AllFit'
<1> SUFFICES ASSUME NEW u \in Tasks, u \notin raced' PROVE Fits(u)'
  BY DEF AllFit
<1>0. u \notin raced /\ Fits(u)
  <2>1. raced \subseteq raced'
    BY DEF gateVars, GateNext, DriverNext, ClientNext, history, CreateTask, CreateChild, Issue, RunAllowed,
           JournalResult, RunDenied, RunAsks, EndDriver, Resume, BeginAnswer, RefuseAnswer, DenyCall,
           ApproveCall, RunApproved, EndAnswer, ProcessEnds
  <2>2. QED
    BY <2>1 DEF AllFit
<1> DEFINE AtRest == \A d \in Clients : d \in Answering(u)' \/ d \in Answering(u) => answer'[d] = answer[d]
<1>w. issued[u] # NoCall => state[u] = "Implementing"
  BY DEF Working
<1>t. count[u] \in Nat /\ prompt[u].id \in Nat
  BY OpenPrompt DEF GateTypeOK
<1>1. ASSUME NEW t \in Tasks, CreateTask(t) \/ \E p \in Tasks : CreateChild(p, t) PROVE Fits(u)'
  <2>1. /\ UNCHANGED <<count, prompt, issued, answer, runs>>
        /\ state' = [state EXCEPT ![t] = "Implementing"] /\ driver' = [driver EXCEPT ![t] = "ready"]
        /\ state[t] = "none"
    BY <1>1 DEF CreateTask, CreateChild
  <2>2. Ran' = Ran /\ Answering(u)' = Answering(u)
    BY <2>1 DEF Ran, Answering
  <2>3. CASE u # t
    BY <1>0, <2>1, <2>2, <2>3, FitsKept DEF GateTypeOK
  <2>4. CASE u = t
    <3>1. issued'[u] = NoCall /\ ~Waits(u) /\ ~Waits(u)'
      BY <1>w, <2>1, <2>4 DEF Waits, GateTypeOK
    <3>2. QED
      BY <1>0, <2>1, <2>2, <3>1 DEF Fits, Numbered, Fresh, OneAnswer, Unrun
  <2>5. QED
    BY <2>3, <2>4
<1>2. ASSUME NEW t \in Tasks, Issue(t) PROVE Fits(u)'
  <2>1. /\ count' = [count EXCEPT ![t] = @ + 1] /\ prompt' = [prompt EXCEPT ![t] = NoPrompt]
        /\ UNCHANGED <<answer, runs, state, driver>> /\ state[t] = "Implementing"
        /\ \E call \in Calls : issued' = [issued EXCEPT ![t] = call]
    BY <1>2 DEF Issue
  <2>2. Ran' = Ran /\ Answering(u)' = Answering(u)
    BY <2>1 DEF Ran, Answering
  <2>3. CASE u # t
    <3>1. count'[u] = count[u] /\ prompt'[u] = prompt[u] /\ issued'[u] = issued[u]
      BY <2>1, <2>3 DEF GateTypeOK
    <3>2. QED
      BY <1>0, <2>1, <2>2, <3>1, FitsKept
  <2>4. CASE u = t
    <3>1. ~Waits(u) /\ ~Waits(u)' /\ count'[u] = count[u] + 1 /\ prompt'[u].id = 0
      BY <2>1, <2>4 DEF Waits, GateTypeOK, NoPrompt
    <3>2. \A r \in Ran : r.task = u => r.id \in Nat /\ r.id <= count[u]
      BY <1>0, RanTyped DEF Fits, Numbered, Runs
    <3>3. Numbered(u)' /\ Fresh(u)'
      BY <1>t, <2>2, <3>1, <3>2 DEF Numbered, Fresh, NoRun
    <3>4. QED
      BY <1>0, <2>1, <2>2, <3>1, <3>3 DEF Fits, OneAnswer, Unrun
  <2>5. QED
    BY <2>3, <2>4
<1>3. ASSUME NEW t \in Tasks, RunAllowed(t) PROVE Fits(u)'
  <2>1. PICK r \in Runs : runs' = Append(runs, r) /\ r.task = t /\ r.id = count[t]
    BY <1>3, AllowedRunOf
  <2>2. Ran' = Ran \union {r}
    BY <2>1, RanGrows
  <2>3. UNCHANGED <<count, prompt, issued, answer, state>> /\ driver' = [driver EXCEPT ![t] = "ran"]
        /\ issued[t] # NoCall
    BY <1>3 DEF RunAllowed
  <2>4. Answering(u)' = Answering(u)
    BY <2>3 DEF Answering
  <2>5. CASE u # t
    BY <1>0, <2>1, <2>2, <2>3, <2>4, <2>5, FitsKept DEF GateTypeOK
  <2>6. CASE u = t
    <3>1. ~Waits(u) /\ ~Waits(u)' /\ driver'[u] = "ran"
      BY <1>w, <2>3, <2>6 DEF Waits, GateTypeOK
    <3>2. Numbered(u)'
      BY <1>0, <1>t, <2>1, <2>2, <2>3, <2>6 DEF Fits, Numbered
    <3>3. QED
      BY <1>0, <2>3, <2>4, <3>1, <3>2 DEF Fits, Fresh, OneAnswer, Unrun
  <2>7. QED
    BY <2>5, <2>6
<1>4. ASSUME NEW t \in Tasks, JournalResult(t) PROVE Fits(u)'
  <2>1. /\ UNCHANGED <<count, prompt, answer, state, runs>> /\ driver[t] = "ran"
        /\ driver' = [driver EXCEPT ![t] = "ready"] /\ issued' = [issued EXCEPT ![t] = NoCall]
    BY <1>4 DEF JournalResult
  <2>2. Ran' = Ran /\ Answering(u)' = Answering(u)
    BY <2>1 DEF Ran, Answering
  <2>3. CASE u # t
    BY <1>0, <2>1, <2>2, <2>3, FitsKept DEF GateTypeOK
  <2>4. CASE u = t
    <3>1. issued'[u] = NoCall /\ ~Waits(u) /\ ~Waits(u)'
      BY <1>0, <2>1, <2>4 DEF Waits, GateTypeOK, Fits, Unrun
    <3>2. QED
      BY <1>0, <2>1, <2>2, <3>1 DEF Fits, Numbered, Fresh, OneAnswer, Unrun
  <2>5. QED
    BY <2>3, <2>4
<1>5. ASSUME NEW t \in Tasks, RunDenied(t) PROVE Fits(u)'
  <2>1. /\ UNCHANGED <<count, prompt, answer, driver, runs>> /\ driver[t] = "ready"
        /\ state' = [state EXCEPT ![t] = "Failed"] /\ issued' = [issued EXCEPT ![t] = NoCall]
    BY <1>5 DEF RunDenied
  <2>2. Ran' = Ran /\ Answering(u)' = Answering(u)
    BY <2>1 DEF Ran, Answering
  <2>3. CASE u # t
    BY <1>0, <2>1, <2>2, <2>3, FitsKept DEF GateTypeOK
  <2>4. CASE u = t
    <3>1. issued'[u] = NoCall /\ ~Waits(u) /\ ~Waits(u)'
      BY <1>0, <2>1, <2>4 DEF Waits, GateTypeOK, Fits, Unrun
    <3>2. QED
      BY <1>0, <2>1, <2>2, <3>1 DEF Fits, Numbered, Fresh, OneAnswer, Unrun
  <2>5. QED
    BY <2>3, <2>4
<1>6. ASSUME NEW t \in Tasks, RunAsks(t) PROVE Fits(u)'
  <2>1. /\ UNCHANGED <<count, answer, runs>> /\ driver[t] = "ready" /\ issued[t] # NoCall
        /\ prompt' = [prompt EXCEPT ![t] = [id |-> count[t], call |-> issued[t]]]
        /\ issued' = [issued EXCEPT ![t] = NoCall]
        /\ state' = [state EXCEPT ![t] = "WaitingForPermission"]
        /\ driver' = [driver EXCEPT ![t] = "off"]
    BY <1>6 DEF RunAsks
  <2>2. Ran' = Ran /\ Answering(u)' = Answering(u)
    BY <2>1 DEF Ran, Answering
  <2>3. CASE u # t
    <3>1. /\ prompt'[u] = prompt[u] /\ issued'[u] = issued[u] /\ state'[u] = state[u]
          /\ driver'[u] = driver[u] /\ count'[u] = count[u]
      BY <2>1, <2>3 DEF GateTypeOK
    <3>2. QED
      BY <1>0, <2>1, <2>2, <3>1, FitsKept
  <2>4. CASE u = t
    <3>1. ~Waits(u) /\ NoRun(u, count[u])
      BY <1>0, <2>1, <2>4 DEF Fits, Unrun, Fresh
    <3>2. prompt'[u].id = count[u] /\ driver'[u] = "off" /\ issued'[u] = NoCall
      BY <2>1, <2>4 DEF GateTypeOK
    <3>3. \A c \in Answering(u)' : answer'[c].stage = "sent"
      BY <1>0, <2>1, <2>2, <3>1 DEF Fits, OneAnswer
    <3>4. OneAnswer(u)'
      BY <1>0, <2>2, <3>3 DEF Fits, OneAnswer
    <3>5. Numbered(u)'
      BY <1>0, <1>t, <2>1, <2>2, <3>2 DEF Fits, Numbered
    <3>6. QED
      BY <2>2, <3>1, <3>2, <3>4, <3>5 DEF Fits, Fresh, Unrun, NoRun
  <2>5. QED
    BY <2>3, <2>4
<1>7. ASSUME NEW t \in Tasks, EndDriver(t) PROVE Fits(u)'
  <2>1. /\ UNCHANGED <<count, prompt, answer, issued, runs>> /\ driver[t] = "ready"
        /\ state' = [state EXCEPT ![t] = IF @ = "Failed" THEN @ ELSE "Completed"]
        /\ driver' = [driver EXCEPT ![t] = "off"] /\ issued[t] = NoCall
    BY <1>7 DEF EndDriver
  <2>2. Ran' = Ran /\ Answering(u)' = Answering(u)
    BY <2>1 DEF Ran, Answering
  <2>3. CASE u # t
    BY <1>0, <2>1, <2>2, <2>3, FitsKept DEF GateTypeOK
  <2>4. CASE u = t
    <3>1. issued'[u] = NoCall /\ ~Waits(u) /\ ~Waits(u)'
      BY <1>0, <2>1, <2>4 DEF Waits, GateTypeOK, Fits, Unrun
    <3>2. QED
      BY <1>0, <2>1, <2>2, <3>1 DEF Fits, Numbered, Fresh, OneAnswer, Unrun
  <2>5. QED
    BY <2>3, <2>4
<1>8. ASSUME NEW t \in Tasks, Resume(t) PROVE Fits(u)'
  <2>1. /\ UNCHANGED <<count, prompt, answer, issued, state, runs>> /\ driver[t] = "off"
        /\ driver' = [driver EXCEPT ![t] = "ready"] /\ state[t] = "Implementing"
    BY <1>8 DEF Resume
  <2>2. Ran' = Ran /\ Answering(u)' = Answering(u)
    BY <2>1 DEF Ran, Answering
  <2>3. CASE u # t
    BY <1>0, <2>1, <2>2, <2>3, FitsKept DEF GateTypeOK
  <2>4. CASE u = t
    <3>1. ~Waits(u) /\ ~Waits(u)'
      BY <2>1, <2>4 DEF Waits
    <3>2. Fresh(u)'
      BY <1>0, <2>1, <2>2, <2>4 DEF Fits, Fresh, NoRun
    <3>3. QED
      BY <1>0, <2>1, <2>2, <3>1, <3>2 DEF Fits, Numbered, OneAnswer, Unrun
  <2>5. QED
    BY <2>3, <2>4
<1>9. ASSUME NEW t \in Tasks, NEW c \in Clients, BeginAnswer(c, t) PROVE Fits(u)'
  <2>1. PICK decision \in {"Once", "Task", "Deny"}, named \in BOOLEAN :
          answer' = [answer EXCEPT ![c] = [stage |-> "sent", task |-> t, shown |-> prompt[t].id,
                                           named |-> named, decision |-> decision, of |-> NoPrompt]]
    BY <1>9 DEF BeginAnswer
  <2> DEFINE a == [stage |-> "sent", task |-> t, shown |-> prompt[t].id, named |-> named,
                   decision |-> decision, of |-> NoPrompt]
  <2>2. answer' = [answer EXCEPT ![c] = a] /\ a.stage = "sent" /\ a.task = t
    BY <2>1
  <2> HIDE DEF a
  <2>3. /\ UNCHANGED <<state, driver, issued, prompt, count, runs>> /\ answer[c].stage = "idle"
        /\ raced' = IF Answering(t) # {} THEN raced \union {t} ELSE raced
    BY <1>9 DEF BeginAnswer, NoAnswer
  <2>4. Ran' = Ran
    BY <2>3 DEF Ran
  <2>5. CASE u # t
    <3>1. \A d \in Clients : d \in Answering(u)' \/ d \in Answering(u) => answer'[d] = answer[d]
      BY <2>2, <2>3, <2>5, OthersAnswers
    <3>2. QED
      BY <1>0, <2>3, <2>4, <3>1, FitsKept
  <2>6. CASE u = t
    <3>1. Answering(u) = {}
      BY <2>3, <2>6
    <3>2. \A d \in Answering(u)' : d = c /\ answer'[d].stage = "sent"
      BY <2>2, <3>1 DEF Answering, GateTypeOK
    <3>3. OneAnswer(u)'
      BY <3>2 DEF OneAnswer
    <3>4. Unrun(u)'
      BY <1>0, <2>3, <2>4, <3>1 DEF Fits, Unrun, Waits, NoRun
    <3>5. QED
      BY <1>0, <2>3, <2>4, <3>3, <3>4 DEF Fits, Numbered, Fresh, NoRun
  <2>7. QED
    BY <2>5, <2>6
<1>10. ASSUME NEW c \in Clients, RefuseAnswer(c) PROVE Fits(u)'
  <2>1. /\ UNCHANGED <<state, driver, issued, prompt, count, runs>> /\ answer[c].stage = "sent"
        /\ answer' = [answer EXCEPT ![c] = NoAnswer]
    BY <1>10 DEF RefuseAnswer
  <2>2. Ran' = Ran
    BY <2>1 DEF Ran
  <2>3. CASE u # answer[c].task
    <3>1. \A d \in Clients : d \in Answering(u)' \/ d \in Answering(u) => answer'[d] = answer[d]
      BY <2>1, <2>3, OthersAnswers DEF NoAnswer
    <3>2. QED
      BY <1>0, <2>1, <2>2, <3>1, FitsKept
  <2>4. CASE u = answer[c].task
    <3>1. \A d \in Answering(u)' : d \in Answering(u) /\ answer'[d] = answer[d]
      BY <2>1 DEF Answering, GateTypeOK, NoAnswer
    <3>2. \A d \in Answering(u) : d = c
      BY <1>0, <2>1, <2>4 DEF Fits, OneAnswer, Answering
    <3>3. OneAnswer(u)'
      BY <1>0, <2>1, <3>1 DEF Fits, OneAnswer, Waits
    <3>4. Unrun(u)'
      BY <1>0, <2>1, <2>2, <3>2 DEF Fits, Unrun, Waits, NoRun
    <3>5. QED
      BY <1>0, <2>1, <2>2, <3>3, <3>4 DEF Fits, Numbered, Fresh, NoRun
  <2>5. QED
    BY <2>3, <2>4
<1>11. ASSUME NEW c \in Clients, DenyCall(c) PROVE Fits(u)'
  <2> DEFINE t == answer[c].task
  <2>1. /\ UNCHANGED <<driver, issued, count, runs>> /\ answer[c].stage = "sent"
        /\ answer' = [answer EXCEPT ![c] = NoAnswer] /\ state[t] = "WaitingForPermission"
        /\ prompt' = [prompt EXCEPT ![t] = NoPrompt] /\ state' = [state EXCEPT ![t] = "Failed"]
    BY <1>11 DEF DenyCall, AcceptAnswer
  <2>2. Ran' = Ran
    BY <2>1 DEF Ran
  <2>3. CASE u # t
    <3>1. \A d \in Clients : d \in Answering(u)' \/ d \in Answering(u) => answer'[d] = answer[d]
      BY <2>1, <2>3, OthersAnswers DEF NoAnswer
    <3>2. prompt'[u] = prompt[u] /\ state'[u] = state[u]
      BY <2>1, <2>3 DEF GateTypeOK
    <3>3. QED
      BY <1>0, <2>1, <2>2, <3>1, <3>2, FitsKept
  <2>4. CASE u = t
    <3>1. \A d \in Answering(u) : d = c
      BY <1>0, <2>1, <2>4 DEF Fits, OneAnswer, Answering
    <3>2. Answering(u)' = {}
      BY <2>1, <3>1 DEF Answering, GateTypeOK, NoAnswer
    <3>3. ~Waits(u)' /\ issued'[u] = NoCall /\ prompt'[u].id = 0
      BY <1>w, <2>1, <2>4 DEF Waits, GateTypeOK, NoPrompt
    <3>4. Numbered(u)'
      BY <1>0, <1>t, <2>1, <2>2, <3>3 DEF Fits, Numbered
    <3>5. QED
      BY <3>2, <3>3, <3>4 DEF Fits, Fresh, OneAnswer, Unrun
  <2>5. QED
    BY <2>3, <2>4
<1>12. ASSUME NEW c \in Clients, ApproveCall(c) PROVE Fits(u)'
  <2> DEFINE t == answer[c].task
             a == Approval(answer[c], prompt[t])
  <2>1. /\ UNCHANGED <<state, driver, issued, prompt, count, runs>> /\ answer[c].stage = "sent"
        /\ answer' = [answer EXCEPT ![c] = a] /\ state[t] = "WaitingForPermission"
    BY <1>12 DEF ApproveCall, AcceptAnswer
  <2>2. answer[c] \in Answers /\ t \in Tasks
    BY <2>1, BegunAnswer
  <2>3. a.stage = "approved" /\ a.of = prompt[t] /\ a.task = t
    <3>1. prompt[t] \in Prompts
      BY <2>2 DEF GateTypeOK
    <3>2. QED
      BY <2>2, <3>1, AnswerUpdate
  <2>4. Ran' = Ran
    BY <2>1 DEF Ran
  <2> HIDE DEF a
  <2>5. CASE u # t
    <3>1. \A d \in Clients : d \in Answering(u)' \/ d \in Answering(u) => answer'[d] = answer[d]
      BY <2>1, <2>3, <2>5, OthersAnswers
    <3>2. QED
      BY <1>0, <2>1, <2>4, <3>1, FitsKept
  <2>6. CASE u = t
    <3>1. c \in Answering(u) /\ \A d \in Answering(u) : d = c
      BY <1>0, <2>1, <2>6 DEF Fits, OneAnswer, Answering
    <3>2. \A d \in Answering(u)' : d = c
      BY <2>1, <3>1 DEF Answering, GateTypeOK
    <3>3. answer'[c].of = prompt'[u] /\ Waits(u)'
      BY <2>1, <2>3, <2>6 DEF Waits, GateTypeOK
    <3>4. OneAnswer(u)'
      BY <3>2, <3>3 DEF OneAnswer
    <3>5. Unrun(u)'
      BY <1>0, <2>1, <2>4, <3>1 DEF Fits, Unrun, Waits, NoRun
    <3>6. QED
      BY <1>0, <2>1, <2>4, <3>4, <3>5 DEF Fits, Numbered, Fresh, NoRun
  <2>7. QED
    BY <2>5, <2>6
<1>13. ASSUME NEW c \in Clients, RunApproved(c) PROVE Fits(u)'
  <2> DEFINE t == answer[c].task
             a == Executed(answer[c])
  <2>1. PICK r \in Runs : runs' = Append(runs, r) /\ r.task = t /\ r.id = answer[c].of.id
    BY <1>13, ApprovedRunOf
  <2>2. Ran' = Ran \union {r}
    BY <2>1, RanGrows
  <2>3. /\ UNCHANGED <<state, driver, issued, prompt, count>> /\ answer[c].stage = "approved"
        /\ answer' = [answer EXCEPT ![c] = a]
    BY <1>13 DEF RunApproved
  <2>4. answer[c] \in Answers /\ t \in Tasks
    BY <2>3, BegunAnswer
  <2>5. a.stage = "ran" /\ a.task = t /\ a.of = answer[c].of
    <3>1. NoPrompt \in Prompts
      BY DEF Prompts
    <3>2. QED
      BY <2>4, <3>1, AnswerUpdate, AnswerNames
  <2> HIDE DEF a
  <2>6. CASE u # t
    <3>1. \A d \in Clients : d \in Answering(u)' \/ d \in Answering(u) => answer'[d] = answer[d]
      BY <2>3, <2>5, <2>6, OthersAnswers
    <3>2. \A s \in Ran' : s.task = u => s \in Ran
      BY <2>1, <2>2, <2>6
    <3>3. QED
      BY <1>0, <2>3, <3>1, <3>2, FitsKept
  <2>7. CASE u = t
    <3>1. c \in Answering(u) /\ (\A d \in Answering(u) : d = c)
          /\ Waits(u) /\ answer[c].of = prompt[u]
      BY <1>0, <2>3, <2>7 DEF Fits, OneAnswer, Answering
    <3>2. \A d \in Answering(u)' : d = c
      BY <2>3, <3>1 DEF Answering, GateTypeOK
    <3>3. c \in Answering(u)' /\ answer'[c].stage = "ran" /\ answer'[c].of = prompt'[u] /\ Waits(u)'
      BY <2>3, <2>5, <2>7, <3>1 DEF Waits, GateTypeOK, Answering
    <3>4. OneAnswer(u)'
      BY <3>2, <3>3 DEF OneAnswer
    <3>5. Unrun(u)'
      BY <1>0, <2>3, <3>1, <3>3 DEF Fits, Unrun
    <3>6. Numbered(u)'
      BY <1>0, <2>1, <2>2, <2>3, <2>7, <3>1 DEF Fits, Numbered
    <3>7. issued'[u] = NoCall
      BY <1>w, <2>3, <3>1 DEF Waits
    <3>8. QED
      BY <3>4, <3>5, <3>6, <3>7 DEF Fits, Fresh
  <2>8. QED
    BY <2>6, <2>7
<1>14. ASSUME NEW c \in Clients, EndAnswer(c) PROVE Fits(u)'
  <2> DEFINE t == answer[c].task
  <2>1. /\ UNCHANGED <<issued, count, runs>> /\ answer[c].stage = "ran"
        /\ answer' = [answer EXCEPT ![c] = NoAnswer]
        /\ prompt' = [prompt EXCEPT ![t] = IF @ = answer[c].of THEN NoPrompt ELSE @]
        /\ state[t] = "WaitingForPermission" => state' = [state EXCEPT ![t] = "Implementing"]
        /\ state[t] = "WaitingForPermission" => driver' = [driver EXCEPT ![t] = "ready"]
        /\ state[t] # "WaitingForPermission" => UNCHANGED <<state, driver>>
    BY <1>14 DEF EndAnswer
  <2>2. Ran' = Ran
    BY <2>1 DEF Ran
  <2>3. CASE u # t
    <3>1. \A d \in Clients : d \in Answering(u)' \/ d \in Answering(u) => answer'[d] = answer[d]
      BY <2>1, <2>3, OthersAnswers DEF NoAnswer
    <3>2. prompt'[u] = prompt[u] /\ state'[u] = state[u] /\ driver'[u] = driver[u]
      BY <2>1, <2>3 DEF GateTypeOK
    <3>3. QED
      BY <1>0, <2>1, <2>2, <3>1, <3>2, FitsKept
  <2>4. CASE u = t
    <3>1. (\A d \in Answering(u) : d = c) /\ Waits(u) /\ answer[c].of = prompt[u]
      BY <1>0, <2>1, <2>4 DEF Fits, OneAnswer, Answering
    <3>2. Answering(u)' = {}
      BY <2>1, <3>1 DEF Answering, GateTypeOK, NoAnswer
    <3>3. ~Waits(u)' /\ issued'[u] = NoCall /\ prompt'[u].id = 0
      BY <1>w, <2>1, <2>4, <3>1 DEF Waits, GateTypeOK, NoPrompt
    <3>4. Numbered(u)'
      BY <1>0, <1>t, <2>1, <2>2, <3>3 DEF Fits, Numbered
    <3>5. QED
      BY <3>2, <3>3, <3>4 DEF Fits, Fresh, OneAnswer, Unrun
  <2>5. QED
    BY <2>3, <2>4
<1>15. ASSUME ProcessEnds PROVE Fits(u)'
  <2>1. /\ UNCHANGED <<state, issued, prompt, count, runs>>
        /\ driver' = [t \in Tasks |-> "off"] /\ answer' = [c \in Clients |-> NoAnswer]
        /\ raced' = raced \union {t \in Tasks : Answering(t) # {} \/ driver[t] = "ran"}
    BY <1>15 DEF ProcessEnds
  <2>2. Answering(u) = {} /\ driver[u] # "ran"
    BY <2>1
  <2>3. Answering(u)' = {}
    BY <2>1 DEF Answering, NoAnswer
  <2>4. Ran' = Ran /\ driver'[u] = "off"
    BY <2>1 DEF Ran
  <2>5. Numbered(u)' /\ Fresh(u)'
    BY <1>0, <2>1, <2>2, <2>4 DEF Fits, Numbered, Fresh, NoRun
  <2>6. OneAnswer(u)' /\ Unrun(u)'
    BY <1>0, <2>1, <2>2, <2>3, <2>4 DEF Fits, OneAnswer, Unrun, Waits, NoRun
  <2>7. QED
    BY <2>5, <2>6 DEF Fits
<1>16. CASE UNCHANGED gateVars
  <2>1. Ran' = Ran
    BY <1>16 DEF gateVars, Ran
  <2>2. QED
    BY <1>0, <1>16, <2>1, FitsKept DEF gateVars
<1>17. QED
  BY <1>1, <1>2, <1>3, <1>4, <1>5, <1>6, <1>7, <1>8, <1>9, <1>10, <1>11, <1>12, <1>13, <1>14,
     <1>15, <1>16 DEF GateNext, DriverNext, ClientNext

\* An approval that names a prompt was accepted because that prompt is open.
LEMMA NamedStep ==
  ASSUME GateTypeOK, Named, [GateNext]_gateVars
  PROVE  Named'
<1>1. CASE UNCHANGED answer
  BY <1>1 DEF Named
<1>2. ASSUME NEW c \in Clients, NEW x, answer' = [answer EXCEPT ![c] = x], x.stage # "approved"
      PROVE  Named'
  BY <1>2 DEF Named, GateTypeOK
<1>3. ASSUME NEW t \in Tasks, NEW c \in Clients, BeginAnswer(c, t) PROVE Named'
  <2>1. PICK decision \in {"Once", "Task", "Deny"}, named \in BOOLEAN :
          answer' = [answer EXCEPT ![c] = [stage |-> "sent", task |-> t, shown |-> prompt[t].id,
                                           named |-> named, decision |-> decision, of |-> NoPrompt]]
    BY <1>3 DEF BeginAnswer
  <2> DEFINE a == [stage |-> "sent", task |-> t, shown |-> prompt[t].id, named |-> named,
                   decision |-> decision, of |-> NoPrompt]
  <2>2. answer' = [answer EXCEPT ![c] = a] /\ a.stage # "approved"
    BY <2>1
  <2> HIDE DEF a
  <2>3. QED
    BY <1>2, <2>2
<1>4. ASSUME NEW c \in Clients, RefuseAnswer(c) \/ DenyCall(c) \/ EndAnswer(c) PROVE Named'
  <2>1. NoAnswer.stage # "approved"
    BY DEF NoAnswer
  <2>2. answer' = [answer EXCEPT ![c] = NoAnswer]
    BY <1>4 DEF RefuseAnswer, DenyCall, EndAnswer
  <2>3. QED
    BY <1>2, <2>1, <2>2
<1>5. ASSUME NEW c \in Clients, ApproveCall(c) PROVE Named'
  <2> DEFINE p == prompt[answer[c].task]
  <2>1. answer[c] \in Answers /\ answer[c].task \in Tasks
    BY <1>5, BegunAnswer DEF ApproveCall, AcceptAnswer
  <2>2. p \in Prompts
    BY <2>1 DEF GateTypeOK
  <2>3. answer[c].named => answer[c].shown = p.id
    BY <1>5 DEF ApproveCall, AcceptAnswer, NamesPrompt
  <2>4. answer' = [answer EXCEPT ![c] = Approval(answer[c], p)]
    BY <1>5 DEF ApproveCall
  <2> HIDE DEF p
  <2>5. /\ Approval(answer[c], p).of = p /\ Approval(answer[c], p).named = answer[c].named
        /\ Approval(answer[c], p).shown = answer[c].shown
    BY <2>1, <2>2, AnswerUpdate, AnswerNames
  <2>6. QED
    BY <2>3, <2>4, <2>5 DEF Named, GateTypeOK
<1>6. ASSUME NEW c \in Clients, RunApproved(c) PROVE Named'
  <2>1. answer[c] \in Answers
    BY <1>6, BegunAnswer DEF RunApproved
  <2>2. Executed(answer[c]).stage = "ran"
    BY <2>1 DEF Answers, Executed
  <2>3. QED
    BY <1>2, <1>6, <2>2 DEF RunApproved
<1>7. ProcessEnds => Named'
  BY DEF ProcessEnds, Named, NoAnswer
<1>8. ASSUME NEW t \in Tasks, DriverNext(t) PROVE UNCHANGED answer
  BY <1>8 DEF DriverNext, CreateTask, CreateChild, Issue, RunAllowed, JournalResult, RunDenied,
              RunAsks, EndDriver, Resume
<1>9. QED
  BY <1>1, <1>3, <1>4, <1>5, <1>6, <1>7, <1>8 DEF GateNext, ClientNext, gateVars

\* No step runs the call of an unraced task again, nor another call than meant.
LEMMA OnceStep ==
  ASSUME GateTypeOK, Approved, Working, Named, AllFit, OnceEach, \A r \in Ran : r.id = r.meant, [GateNext]_gateVars
  PROVE  OnceEach' /\ (\A r \in Ran : r.id = r.meant)'
<1>1. ASSUME UNCHANGED runs, raced \subseteq raced'
      PROVE  OnceEach' /\ (\A r \in Ran : r.id = r.meant)'
  BY <1>1 DEF OnceEach, Ran
<1>2. ASSUME NEW t \in Tasks, RunAllowed(t)
      PROVE  OnceEach' /\ (\A r \in Ran : r.id = r.meant)'
  <2>1. PICK r \in Runs :
          runs' = Append(runs, r) /\ r.task = t /\ r.id = count[t] /\ r.meant = r.id
    BY <1>2, AllowedRunOf
  <2>2. t \notin raced => NoRun(t, count[t])
    BY <1>2 DEF RunAllowed, AllFit, Fits, Fresh
  <2>3. raced' = raced
    BY <1>2 DEF RunAllowed, history
  <2>4. QED
    BY <2>1, <2>2, <2>3, OnceMore, RanGrows
<1>3. ASSUME NEW c \in Clients, RunApproved(c)
      PROVE  OnceEach' /\ (\A r \in Ran : r.id = r.meant)'
  <2> DEFINE t == answer[c].task
  <2>1. PICK r \in Runs :
          runs' = Append(runs, r) /\ r.task = t /\ r.id = answer[c].of.id /\ r.meant = r.id
    BY <1>3, ApprovedRunOf
  <2>2. t \in Tasks /\ answer[c].stage = "approved" /\ raced' = raced
    BY <1>3, BegunAnswer DEF RunApproved, history
  <2>3. ASSUME t \notin raced PROVE NoRun(t, answer[c].of.id)
    <3>1. c \in Answering(t) /\ OneAnswer(t) /\ Unrun(t)
      BY <2>2, <2>3 DEF Answering, AllFit, Fits
    <3>2. QED
      BY <2>2, <3>1 DEF OneAnswer, Unrun
  <2>4. QED
    BY <2>1, <2>2, <2>3, OnceMore, RanGrows
<1>4. ASSUME NEW t \in Tasks, DriverNext(t), ~RunAllowed(t)
      PROVE  UNCHANGED runs /\ raced \subseteq raced'
  BY <1>4 DEF DriverNext, CreateTask, CreateChild, Issue, JournalResult, RunDenied, RunAsks,
              EndDriver, Resume, history
<1>5. ASSUME NEW c \in Clients, ClientNext(c), ~RunApproved(c)
      PROVE  UNCHANGED runs /\ raced \subseteq raced'
  BY <1>5 DEF ClientNext, BeginAnswer, RefuseAnswer, DenyCall, ApproveCall, EndAnswer, history
<1>6. ProcessEnds \/ UNCHANGED gateVars => UNCHANGED runs /\ raced \subseteq raced'
  BY DEF ProcessEnds, gateVars
<1>7. QED
  BY <1>1, <1>2, <1>3, <1>4, <1>5, <1>6 DEF GateNext

\* An answer that names a prompt runs the call of that prompt and no later
\* one, and a prompt's call runs once, unless two clients answered it at the
\* same time or a kill hid that it had run.
THEOREM AnswersFit == GateSpec => []AnswersFitPrompts
<1>1. GateInit => AnswersInv
  <2> SUFFICES ASSUME GateInit PROVE AnswersInv
    OBVIOUS
  <2>1. GateTypeOK /\ Approved /\ Working
    BY GateInvInit DEF GateInv
  <2>2. Ran = {} /\ OnceEach
    BY DEF GateInit, Ran, OnceEach
  <2>3. Named /\ \A t \in Tasks : Answering(t) = {}
    BY DEF GateInit, Named, NoAnswer, Answering
  <2>4. \A t \in Tasks : prompt[t].id = 0 /\ count[t] = 0 /\ issued[t] = NoCall /\ ~Waits(t)
    BY DEF GateInit, NoPrompt, Waits
  <2>5. AllFit
    BY <2>2, <2>3, <2>4 DEF AllFit, Fits, Numbered, Fresh, OneAnswer, Unrun
  <2>6. QED
    BY <2>1, <2>2, <2>3, <2>5 DEF AnswersInv
<1>2. AnswersInv /\ [GateNext]_gateVars => AnswersInv'
  BY TypeStep, ApprovedStep, WorkingStep, NamedStep, FitsStep, OnceStep DEF AnswersInv
<1>3. AnswersInv => AnswersFitPrompts
  <2> SUFFICES ASSUME AnswersInv PROVE AnswersFitPrompts
    OBVIOUS
  <2>1. \A i \in DOMAIN runs : runs[i] \in Ran
    BY DEF Ran
  <2>2. QED
    BY <2>1 DEF AnswersInv, OnceEach, AnswersFitPrompts
<1>4. QED
  BY <1>1, <1>2, <1>3, PTL DEF GateSpec

=============================================================================
