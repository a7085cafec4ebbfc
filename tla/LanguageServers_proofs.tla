------------------------ MODULE LanguageServers_proofs ------------------------
(***************************************************************************)
(* Theorems about LanguageServers, for any callers, languages, cap and     *)
(* number of servers: no process is leaked, no more run than may, what a   *)
(* server asks is answered, and answers find who waits for them.           *)
(***************************************************************************)
EXTENDS LanguageServers, FiniteSetTheorems, TLAPS

\* The part of the types the argument needs; sessions are those born.
Shape ==
  /\ slots \in [Languages -> Sessions \union {Nobody}]
  /\ lock \in Callers \union {NoCaller}
  /\ at \in [Callers -> Caller]
  /\ born \in Sessions \union {0}
  /\ proc \in [Sessions -> {"none", "up", "gone"}]
  /\ nextId \in [Sessions -> Ids \union {0}]
  /\ \A l \in Languages : slots[l] <= born
  /\ \A c \in Callers : at[c].s <= born /\ \A s \in at[c].rest : s <= born
  /\ \A s \in Sessions : proc[s] = "up" => s <= born

\* A call that brings a server up, or puts it down because it would not come up.
Starts(x) == x.op # "shutdown" /\ x.then \in {"init", "bye"} /\ x.pc # "use"

\* What the place a call is at says of the call.
Placed(x) ==
  /\ x.pc # "idle" => x.lang \in Languages
  /\ x.pc \in {"idle", "lock"} => x.then = "none" /\ x.s = Nobody /\ x.rest = {}
  /\ x.pc = "idle" => x.op = "query"
  /\ x.pc = "use" => x.op # "shutdown"
  /\ x.pc = "next" => x.op = "shutdown"
  /\ x.pc = "ready" => Starts(x)
  /\ x.pc \in {"bye", "exit", "reap"} => Starts(x) \/ x.op = "shutdown"
  /\ x.pc \in {"request", "send", "wait"} => x.then \in {"init", "bye", "query"}
  /\ x.pc \in {"send", "wait"} => x.id \in Ids
  /\ x.then \in {"init", "query"} => x.op # "shutdown"
  /\ x.op = "shutdown" => x.pc \in {"lock", "next", "bye", "request", "send", "wait", "exit", "reap"}
  /\ x.pc \notin {"idle", "lock", "next"} => x.s \in Sessions

AllPlaced == \A c \in Callers : Placed(at[c])

\* The mutex is held exactly through a start.
LockIsStart == \A c \in Callers : Starts(at[c]) <=> lock = c

\* While it is held there is room for the server that is being started.
Room ==
  /\ Cardinality(Running) <= MaxServers
  /\ \A c \in Callers :
       lock = c => /\ slots[at[c].lang] = Nobody
                   /\ Cardinality(Running) < MaxServers

\* Whoever closes the workspace is done with one server before it takes the next.
PutsDownInTurn ==
  \A c \in Callers : at[c].op = "shutdown" /\ at[c].pc \in {"lock", "next"} /\ at[c].s \in Sessions
                       => proc[at[c].s] # "up"

\* A server that runs is in a slot, being started or being put down.
Held ==
  \A s \in Sessions : proc[s] = "up" =>
    \/ \E l \in Languages : slots[l] = s
    \/ \E c \in Callers : Starts(at[c]) /\ at[c].s = s
    \/ PutDown(s)

IInv == Shape /\ AllPlaced /\ LockIsStart /\ Room /\ PutsDownInTurn /\ Held

-----------------------------------------------------------------------------
(* Facts about the state alone.                                            *)

LEMMA InvInit == Init => IInv
<1> SUFFICES ASSUME Init PROVE IInv
  OBVIOUS
<1> USE LanguageServersAssumption DEF Init, Idle, Nobody, Sessions, Ids
<1>1. Running = {}
  BY DEF Running
<1>2. Shape
  BY DEF Shape, Caller, Places
<1>3. AllPlaced /\ LockIsStart /\ PutsDownInTurn /\ Held
  BY DEF AllPlaced, Placed, LockIsStart, Starts, PutsDownInTurn, Held
<1>4. Room
  BY <1>1, FS_EmptySet DEF Room
<1> QED
  BY <1>2, <1>3, <1>4 DEF IInv

LEMMA RunningFinite == IsFiniteSet(Running) /\ Cardinality(Running) \in Nat
BY LanguageServersAssumption, FS_Subset, FS_CardinalityType DEF Running

LEMMA IdleCall ==
  /\ Idle \in Caller
  /\ Idle.pc = "idle" /\ Idle.op = "query" /\ Idle.s = Nobody /\ Idle.then = "none"
  /\ Idle.rest = {}
BY DEF Idle, Caller, Places, Nobody, Sessions, Ids

\* What is known of the call that moves.
LEMMA CallKnown ==
  ASSUME IInv, NEW c \in Callers
  PROVE  /\ at \in [Callers -> Caller] /\ at[c] \in Caller
         /\ Placed(at[c]) /\ at[c].s <= born
         /\ nextId \in [Sessions -> Ids \union {0}]
         /\ slots \in [Languages -> Sessions \union {Nobody}]
         /\ \A l \in Languages : slots[l] <= born
BY DEF IInv, Shape, AllPlaced

\* One call moves; it neither begins nor ends a start, and owns what it owned.
LEMMA CallMoves ==
  ASSUME IInv, NEW c \in Callers, NEW x \in Caller,
         at' = [at EXCEPT ![c] = x],
         slots' = slots, lock' = lock, born' = born, proc' = proc,
         nextId' \in [Sessions -> Ids \union {0}],
         Placed(x), x.s <= born, x.rest \in {at[c].rest, {}},
         Starts(x) <=> Starts(at[c]),
         Starts(x) => x.s = at[c].s /\ x.lang = at[c].lang,
         at[c].op = "shutdown" => x.op = "shutdown" /\ x.s = at[c].s /\ x.rest = at[c].rest,
         x.op = "shutdown" /\ x.pc \in {"lock", "next"} => x.s \notin Sessions
  PROVE  IInv'
<1> USE DEF IInv
<1>1. at'[c] = x /\ \A d \in Callers \ {c} : at'[d] = at[d]
  BY DEF Shape
<1>2. Shape'
  BY <1>1 DEF Shape
<1>3. AllPlaced'
  BY <1>1 DEF AllPlaced
<1>4. LockIsStart'
  BY <1>1 DEF LockIsStart
<1>5. Running' = Running
  BY DEF Running
<1>6. Room'
  BY <1>1, <1>5 DEF Room, LockIsStart
<1>7. PutsDownInTurn'
  BY <1>1 DEF PutsDownInTurn
<1>8. ASSUME NEW s \in Sessions, PutDown(s) PROVE PutDown(s)'
  BY <1>1, <1>8 DEF PutDown
<1>9. Held'
  <2> SUFFICES ASSUME NEW s \in Sessions, proc[s] = "up",
                      ~ (\E l \in Languages : slots[l] = s), ~ PutDown(s)
               PROVE  \E d \in Callers : Starts(at'[d]) /\ at'[d].s = s
    BY <1>8 DEF Held
  <2>1. PICK d \in Callers : Starts(at[d]) /\ at[d].s = s
    BY DEF Held
  <2> QED
    BY <1>1, <2>1
<1> QED
  BY <1>2, <1>3, <1>4, <1>6, <1>7, <1>9

\* A call that is neither a start nor a shutdown returns.
LEMMA CallReturns ==
  ASSUME IInv, NEW c \in Callers, Returns(c),
         slots' = slots, lock' = lock, born' = born, proc' = proc, nextId' = nextId,
         ~ Starts(at[c]), at[c].op # "shutdown"
  PROVE  IInv'
<1>1. Placed(Idle) /\ ~ Starts(Idle)
  BY IdleCall DEF Placed, Starts
<1>2. Idle.s <= born
  BY IdleCall DEF IInv, Shape, Nobody, Sessions
<1>3. Idle.op # "shutdown" /\ Idle \in Caller /\ Idle.rest = {}
  BY IdleCall
<1>4. at' = [at EXCEPT ![c] = Idle] /\ nextId' \in [Sessions -> Ids \union {0}]
  BY CallKnown DEF Returns
<1> QED
  BY <1>1, <1>2, <1>3, <1>4, CallMoves

-----------------------------------------------------------------------------
(* Steps of a call that neither begin nor end a start.                     *)

LEMMA BeginKeeps ==
  ASSUME IInv, NEW c \in Callers, NEW op \in Ops, NEW l \in Languages, Begin(c, op, l)
  PROVE  IInv'
<1> DEFINE x == [Idle EXCEPT !.pc = "lock", !.op = op, !.lang = l]
<1>1. op \in {"query", "open", "shutdown"} /\ at[c].op = "query" /\ ~ Starts(at[c])
  BY CallKnown, LanguageServersAssumption, IdleCall DEF Begin, Placed, Caller, Starts
<1>2. x \in Caller
  BY <1>1, CallKnown, LanguageServersAssumption, IdleCall DEF Caller, Places
<1>3. /\ x.pc = "lock" /\ x.op = op /\ x.lang = l
      /\ x.s = Idle.s /\ x.id = Idle.id /\ x.then = Idle.then /\ x.rest = Idle.rest
  BY CallKnown, LanguageServersAssumption, IdleCall DEF Caller
<1>4. at' = [at EXCEPT ![c] = x]
  BY CallKnown DEF Begin, Starts
<1>5. slots' = slots /\ lock' = lock /\ born' = born /\ proc' = proc /\ nextId' \in [Sessions -> Ids \union {0}]
  BY CallKnown DEF Begin, pool, past, server, table, Placed, Ids
<1> HIDE DEF x
<1>6. Placed(x) /\ (Starts(x) <=> Starts(at[c])) /\ x.s <= born
  BY <1>1, <1>3, CallKnown, LanguageServersAssumption, IdleCall DEF Begin, Placed, Starts, Starts
<1>7. /\ Starts(x) => x.s = at[c].s /\ x.lang = at[c].lang
      /\ at[c].op = "shutdown" => x.op = "shutdown" /\ x.s = at[c].s /\ x.rest = at[c].rest
      /\ x.op = "shutdown" /\ x.pc \in {"lock", "next"} => x.s \notin Sessions
  BY <1>1, <1>3, <1>6, CallKnown, LanguageServersAssumption, IdleCall DEF Placed, Starts, Sessions, Nobody
<1> QED
  BY <1>2, <1>3, <1>4, <1>5, <1>6, <1>7, IdleCall, CallMoves

LEMMA UsesRunningKeeps ==
  ASSUME IInv, NEW c \in Callers, UsesRunning(c)
  PROVE  IInv'
<1> DEFINE x == [at[c] EXCEPT !.pc = "use", !.s = slots[at[c].lang]]
<1>1. at[c].lang \in Languages /\ slots[at[c].lang] \in Sessions /\ at[c].pc = "lock"
  BY CallKnown DEF UsesRunning, Placed, Caller, IsAlive
<1>2. x \in Caller
  BY <1>1, CallKnown DEF Caller, Places
<1>3. /\ x.pc = "use" /\ x.s = slots[at[c].lang]
      /\ x.op = at[c].op /\ x.lang = at[c].lang /\ x.id = at[c].id /\ x.then = at[c].then /\ x.rest = at[c].rest
  BY CallKnown DEF Caller
<1>4. at' = [at EXCEPT ![c] = x]
  BY CallKnown DEF UsesRunning, IsAlive
<1>5. slots' = slots /\ lock' = lock /\ born' = born /\ proc' = proc /\ nextId' \in [Sessions -> Ids \union {0}]
  BY CallKnown DEF UsesRunning, pool, past, server, table, Placed, Ids
<1> HIDE DEF x
<1>6. Placed(x) /\ (Starts(x) <=> Starts(at[c])) /\ x.s <= born
  BY <1>1, <1>3, CallKnown DEF UsesRunning, Placed, Starts, IsAlive
<1>7. /\ Starts(x) => x.s = at[c].s /\ x.lang = at[c].lang
      /\ at[c].op = "shutdown" => x.op = "shutdown" /\ x.s = at[c].s /\ x.rest = at[c].rest
      /\ x.op = "shutdown" /\ x.pc \in {"lock", "next"} => x.s \notin Sessions
  BY <1>1, <1>3, <1>6, CallKnown DEF Placed, Starts, Sessions, Nobody
<1> QED
  BY <1>2, <1>3, <1>4, <1>5, <1>6, <1>7, IdleCall, CallMoves

LEMMA RequestKeeps ==
  ASSUME IInv, NEW c \in Callers, Request(c)
  PROVE  IInv'
<1> DEFINE n == nextId[at[c].s] + 1
<1> DEFINE x == [at[c] EXCEPT !.pc = "send", !.id = n]
<1>1. /\ nextId' = [nextId EXCEPT ![at[c].s] = n] /\ nextId[at[c].s] < MaxIds
      /\ at' = [at EXCEPT ![c].pc = "send", ![c].id = nextId'[at[c].s]]
      /\ at[c].pc = "request"
  BY DEF Request
<1>2. at[c].s \in Sessions /\ n \in Ids
  BY <1>1, CallKnown, LanguageServersAssumption DEF Placed, Ids
<1>3. nextId'[at[c].s] = n /\ nextId' \in [Sessions -> Ids \union {0}]
  BY <1>1, <1>2, CallKnown
<1>4. x \in Caller
  BY <1>2, CallKnown DEF Caller, Places
<1>5. /\ x.pc = "send" /\ x.id = n
      /\ x.op = at[c].op /\ x.lang = at[c].lang /\ x.s = at[c].s /\ x.then = at[c].then /\ x.rest = at[c].rest
  BY CallKnown DEF Caller
<1>6. at' = [at EXCEPT ![c] = x]
  BY <1>1, <1>3, CallKnown
<1>7. slots' = slots /\ lock' = lock /\ born' = born /\ proc' = proc /\ nextId' \in [Sessions -> Ids \union {0}]
  BY <1>3 DEF Request, pool, past, server
<1> HIDE DEF x
<1>8. Placed(x) /\ (Starts(x) <=> Starts(at[c])) /\ x.s <= born
  BY <1>1, <1>2, <1>5, CallKnown DEF Request, Placed, Starts
<1>9. /\ Starts(x) => x.s = at[c].s /\ x.lang = at[c].lang
      /\ at[c].op = "shutdown" => x.op = "shutdown" /\ x.s = at[c].s /\ x.rest = at[c].rest
      /\ x.op = "shutdown" /\ x.pc \in {"lock", "next"} => x.s \notin Sessions
  BY <1>1, <1>2, <1>5, <1>8, CallKnown DEF Placed, Starts, Sessions, Nobody
<1> QED
  BY <1>4, <1>5, <1>6, <1>7, <1>8, <1>9, IdleCall, CallMoves

LEMMA SendKeeps ==
  ASSUME IInv, NEW c \in Callers, Send(c)
  PROVE  IInv'
<1> DEFINE x == [at[c] EXCEPT !.pc = "wait"]
<1>1. at[c].pc = "send"
  BY CallKnown DEF Send, Placed, Caller, Set
<1>2. x \in Caller
  BY <1>1, CallKnown DEF Caller, Places
<1>3. /\ x.pc = "wait"
      /\ x.op = at[c].op /\ x.lang = at[c].lang /\ x.s = at[c].s /\ x.id = at[c].id /\ x.then = at[c].then /\ x.rest = at[c].rest
  BY CallKnown DEF Caller
<1>4. at' = [at EXCEPT ![c] = x]
  BY CallKnown DEF Send, Set
<1>5. slots' = slots /\ lock' = lock /\ born' = born /\ proc' = proc /\ nextId' \in [Sessions -> Ids \union {0}]
  BY CallKnown DEF Send, pool, past, server, table, Placed, Ids
<1> HIDE DEF x
<1>6. Placed(x) /\ (Starts(x) <=> Starts(at[c])) /\ x.s <= born
  BY <1>1, <1>3, CallKnown DEF Send, Placed, Starts, Set
<1>7. /\ Starts(x) => x.s = at[c].s /\ x.lang = at[c].lang
      /\ at[c].op = "shutdown" => x.op = "shutdown" /\ x.s = at[c].s /\ x.rest = at[c].rest
      /\ x.op = "shutdown" /\ x.pc \in {"lock", "next"} => x.s \notin Sessions
  BY <1>1, <1>3, <1>6, CallKnown DEF Placed, Starts, Sessions, Nobody
<1> QED
  BY <1>2, <1>3, <1>4, <1>5, <1>6, <1>7, IdleCall, CallMoves

\* Whatever a request comes to.
LEMMA ResumeKeeps ==
  ASSUME IInv, NEW c \in Callers, NEW good \in BOOLEAN, Resume(c, good),
         at[c].pc \in {"send", "wait"},
         slots' = slots, lock' = lock, born' = born, proc' = proc, nextId' = nextId
  PROVE  IInv'
<1>1. CASE GoesOn(c, good) = "idle"
  <2>1. Returns(c)
    BY <1>1 DEF Resume, Returns
  <2>2. ~ Starts(at[c]) /\ at[c].op # "shutdown"
    BY <1>1, CallKnown DEF GoesOn, Placed, Starts
  <2> QED
    BY <2>1, <2>2, CallReturns
<1>2. CASE GoesOn(c, good) # "idle"
  <2> DEFINE x == [at[c] EXCEPT !.pc = GoesOn(c, good), !.id = 0]
  <2>1. /\ at[c].then \in {"init", "bye"}
        /\ GoesOn(c, good) \in {"ready", "bye", "exit"}
        /\ at[c].then = "bye" => GoesOn(c, good) = "exit"
    BY <1>2, CallKnown DEF GoesOn, Placed
  <2>2. x \in Caller
    BY <2>1, CallKnown DEF Caller, Places
  <2>3. /\ x.pc = GoesOn(c, good) /\ x.id = 0
        /\ x.op = at[c].op /\ x.lang = at[c].lang /\ x.s = at[c].s /\ x.then = at[c].then
        /\ x.rest = at[c].rest
    BY CallKnown DEF Caller
  <2>4. at' = [at EXCEPT ![c] = x]
    BY <1>2, CallKnown DEF Resume
  <2> HIDE DEF x
  <2>5. Placed(x) /\ (Starts(x) <=> Starts(at[c])) /\ x.s <= born
    BY <2>1, <2>3, CallKnown DEF Placed, Starts
  <2>6. nextId' \in [Sessions -> Ids \union {0}] /\ x.pc \notin {"lock", "next"}
    BY <2>1, <2>3, CallKnown
  <2> QED
    BY <2>2, <2>3, <2>4, <2>5, <2>6, CallMoves
<1> QED
  BY <1>1, <1>2

LEMMA SendFailsKeeps ==
  ASSUME IInv, NEW c \in Callers, SendFails(c)
  PROVE  IInv'
<1>1. slots' = slots /\ lock' = lock /\ born' = born /\ proc' = proc /\ nextId' = nextId
  BY DEF SendFails, pool, past, server, table
<1>2. at[c].pc = "send" /\ Resume(c, FALSE)
  BY DEF SendFails
<1> QED
  BY <1>1, <1>2, ResumeKeeps

LEMMA TimesOutKeeps ==
  ASSUME IInv, NEW c \in Callers, TimesOut(c)
  PROVE  IInv'
<1>1. slots' = slots /\ lock' = lock /\ born' = born /\ proc' = proc /\ nextId' = nextId
  BY DEF TimesOut, pool, past, server, table
<1>2. at[c].pc = "wait" /\ Resume(c, FALSE)
  BY DEF TimesOut
<1> QED
  BY <1>1, <1>2, ResumeKeeps

LEMMA ReceiveKeeps ==
  ASSUME IInv, NEW c \in Callers, Receive(c)
  PROVE  IInv'
<1> DEFINE good == reply[at[c].s][at[c].id] = "ok"
<1>1. slots' = slots /\ lock' = lock /\ born' = born /\ proc' = proc /\ nextId' = nextId
  BY DEF Receive, pool, past, server
<1>2. at[c].pc = "wait" /\ Resume(c, good)
  BY DEF Receive
<1> QED
  BY <1>1, <1>2, ResumeKeeps

LEMMA UseOpenKeeps ==
  ASSUME IInv, NEW c \in Callers, UseOpen(c)
  PROVE  IInv'
<1>1. slots' = slots /\ lock' = lock /\ born' = born /\ proc' = proc /\ nextId' = nextId
  BY DEF UseOpen, pool, past, server, table
<1>2. at[c].pc = "use" /\ Returns(c)
  BY DEF UseOpen
<1> QED
  BY <1>1, <1>2, CallReturns, CallKnown DEF Placed, Starts

LEMMA UseQueryKeeps ==
  ASSUME IInv, NEW c \in Callers, UseQuery(c)
  PROVE  IInv'
<1> DEFINE x == [at[c] EXCEPT !.pc = "request", !.then = "query"]
<1>1. at[c].pc = "use" /\ at[c].op # "shutdown" /\ ~ Starts(at[c]) /\ at[c].s \in Sessions
  BY CallKnown DEF UseQuery, Placed, Starts
<1>2. slots' = slots /\ lock' = lock /\ born' = born /\ proc' = proc /\ nextId' = nextId
  BY DEF UseQuery, pool, past, server, table
<1>3. CASE able[at[c].s]
  <2>1. x \in Caller
    BY CallKnown DEF Caller, Places
  <2>2. /\ x.pc = "request" /\ x.then = "query"
        /\ x.op = at[c].op /\ x.lang = at[c].lang /\ x.s = at[c].s
        /\ x.rest = at[c].rest
    BY CallKnown DEF Caller
  <2>3. at' = [at EXCEPT ![c] = x] /\ nextId' \in [Sessions -> Ids \union {0}]
    BY <1>2, <1>3, CallKnown DEF UseQuery
  <2> HIDE DEF x
  <2>4. Placed(x) /\ ~ Starts(x) /\ x.s <= born
    BY <1>1, <2>2, CallKnown DEF Placed, Starts
  <2> QED
    BY <1>1, <1>2, <2>1, <2>2, <2>3, <2>4, CallMoves
<1>4. CASE ~ able[at[c].s]
  BY <1>1, <1>2, <1>4, CallReturns DEF UseQuery, Returns
<1> QED
  BY <1>3, <1>4

LEMMA ByeKeeps ==
  ASSUME IInv, NEW c \in Callers, Bye(c)
  PROVE  IInv'
<1> DEFINE x == [at[c] EXCEPT !.pc = "request", !.then = "bye"]
<1>1. at[c].pc = "bye"
  BY CallKnown DEF Bye, Placed, Caller
<1>2. x \in Caller
  BY <1>1, CallKnown DEF Caller, Places
<1>3. /\ x.pc = "request" /\ x.then = "bye"
      /\ x.op = at[c].op /\ x.lang = at[c].lang /\ x.s = at[c].s /\ x.id = at[c].id /\ x.rest = at[c].rest
  BY CallKnown DEF Caller
<1>4. at' = [at EXCEPT ![c] = x]
  BY CallKnown DEF Bye
<1>5. slots' = slots /\ lock' = lock /\ born' = born /\ proc' = proc /\ nextId' \in [Sessions -> Ids \union {0}]
  BY CallKnown DEF Bye, pool, past, server, table, Placed, Ids
<1> HIDE DEF x
<1>6. Placed(x) /\ (Starts(x) <=> Starts(at[c])) /\ x.s <= born
  BY <1>1, <1>3, CallKnown DEF Bye, Placed, Starts
<1>7. /\ Starts(x) => x.s = at[c].s /\ x.lang = at[c].lang
      /\ at[c].op = "shutdown" => x.op = "shutdown" /\ x.s = at[c].s /\ x.rest = at[c].rest
      /\ x.op = "shutdown" /\ x.pc \in {"lock", "next"} => x.s \notin Sessions
  BY <1>1, <1>3, <1>6, CallKnown DEF Placed, Starts, Sessions, Nobody
<1> QED
  BY <1>2, <1>3, <1>4, <1>5, <1>6, <1>7, IdleCall, CallMoves

LEMMA ExitKeeps ==
  ASSUME IInv, NEW c \in Callers, Exit(c)
  PROVE  IInv'
<1> DEFINE x == [at[c] EXCEPT !.pc = "reap"]
<1>1. at[c].pc = "exit"
  BY CallKnown DEF Exit, Placed, Caller, Set
<1>2. x \in Caller
  BY <1>1, CallKnown DEF Caller, Places
<1>3. /\ x.pc = "reap"
      /\ x.op = at[c].op /\ x.lang = at[c].lang /\ x.s = at[c].s /\ x.id = at[c].id /\ x.then = at[c].then /\ x.rest = at[c].rest
  BY CallKnown DEF Caller
<1>4. at' = [at EXCEPT ![c] = x]
  BY CallKnown DEF Exit, Set
<1>5. slots' = slots /\ lock' = lock /\ born' = born /\ proc' = proc /\ nextId' \in [Sessions -> Ids \union {0}]
  BY CallKnown DEF Exit, pool, past, server, table, Placed, Ids
<1> HIDE DEF x
<1>6. Placed(x) /\ (Starts(x) <=> Starts(at[c])) /\ x.s <= born
  BY <1>1, <1>3, CallKnown DEF Exit, Placed, Starts, Set
<1>7. /\ Starts(x) => x.s = at[c].s /\ x.lang = at[c].lang
      /\ at[c].op = "shutdown" => x.op = "shutdown" /\ x.s = at[c].s /\ x.rest = at[c].rest
      /\ x.op = "shutdown" /\ x.pc \in {"lock", "next"} => x.s \notin Sessions
  BY <1>1, <1>3, <1>6, CallKnown DEF Placed, Starts, Sessions, Nobody
<1> QED
  BY <1>2, <1>3, <1>4, <1>5, <1>6, <1>7, IdleCall, CallMoves

-----------------------------------------------------------------------------
(* Steps that kill servers, start them and put them down.                  *)

\* Nothing of a call, a slot or the mutex changes, and no server comes up.
LEMMA OthersKeep ==
  ASSUME IInv,
         at' = at, slots' = slots, lock' = lock, born' = born, nextId' = nextId,
         proc' \in [Sessions -> {"none", "up", "gone"}],
         \A s \in Sessions : proc'[s] = "up" => proc[s] = "up"
  PROVE  IInv'
<1> USE DEF IInv
<1>1. Shape'
  BY DEF Shape
<1>2. AllPlaced' /\ LockIsStart'
  BY DEF AllPlaced, LockIsStart
<1>3. Running' = Running
  BY DEF Running
<1>4. Room'
  BY <1>3 DEF Room
<1>5. PutsDownInTurn' /\ Held'
  BY DEF PutsDownInTurn, Held, PutDown
<1> QED
  BY <1>1, <1>2, <1>4, <1>5

\* Dropping the server of a language empties its slot and ends its process.
LEMMA DropKnown ==
  ASSUME IInv, NEW l \in Languages
  PROVE  /\ Dropped(l) \in [Languages -> Sessions \union {Nobody}]
         /\ Dropped(l)[l] = Nobody
         /\ \A m \in Languages \ {l} : Dropped(l)[m] = slots[m]
         /\ Killed(slots[l]) \in [Sessions -> {"none", "up", "gone"}]
         /\ \A s \in Sessions : Killed(slots[l])[s] = "up" => proc[s] = "up" /\ slots[l] # s
BY DEF IInv, Shape, Dropped, Killed, Nobody, Sessions

LEMMA RunningWithout ==
  ASSUME IInv, NEW l \in Languages, slots' = Dropped(l)
  PROVE  /\ Running' = Running \ {l}
         /\ Cardinality(Running') \in Nat /\ Cardinality(Running') <= Cardinality(Running)
<1>1. Running' = Running \ {l}
  BY DropKnown DEF Running
<1>2. Running \ {l} \in SUBSET Running
  OBVIOUS
<1> QED
  BY <1>1, <1>2, RunningFinite, FS_Subset, FS_CardinalityType

\* A call that goes without a server drops the dead one of its language.
LEMMA DropReturns ==
  ASSUME IInv, NEW c \in Callers, at[c].pc = "lock", at[c].op # "shutdown",
         slots' = Dropped(at[c].lang), proc' = Killed(slots[at[c].lang]), Returns(c),
         lock = NoCaller, lock' = lock, born' = born, nextId' = nextId
  PROVE  IInv'
<1> DEFINE l == at[c].lang
<1>1. l \in Languages /\ ~ Starts(at[c])
  BY CallKnown DEF Placed, Starts
<1>2. /\ at' \in [Callers -> Caller] /\ at'[c] = Idle
      /\ \A d \in Callers \ {c} : at'[d] = at[d]
  BY CallKnown, IdleCall DEF Returns
<1>3. Placed(Idle) /\ ~ Starts(Idle) /\ Idle.s <= born
  BY IdleCall DEF Placed, Starts, IInv, Shape, Nobody, Sessions
<1> HIDE DEF l
<1>4. Shape'
  <2>1. /\ slots' \in [Languages -> Sessions \union {Nobody}]
        /\ \A m \in Languages : slots'[m] <= born
    BY <1>1, DropKnown DEF l, IInv, Shape, Nobody, Sessions
  <2>2. /\ proc' \in [Sessions -> {"none", "up", "gone"}]
        /\ \A s \in Sessions : proc'[s] = "up" => s <= born
    BY <1>1, DropKnown DEF l, IInv, Shape
  <2>3. \A d \in Callers : at'[d].s <= born /\ \A s \in at'[d].rest : s <= born
    BY <1>2, <1>3, IdleCall DEF IInv, Shape
  <2> QED
    BY <1>2, <2>1, <2>2, <2>3 DEF IInv, Shape
<1>5. AllPlaced' /\ LockIsStart'
  BY <1>1, <1>2, <1>3, LanguageServersAssumption DEF IInv, AllPlaced, LockIsStart
<1>6. Room'
  BY <1>1, RunningWithout, RunningFinite, LanguageServersAssumption DEF l, IInv, Room
<1>7. PutsDownInTurn'
  BY <1>1, <1>2, IdleCall, DropKnown DEF l, IInv, PutsDownInTurn
<1>8. Held'
  <2> SUFFICES ASSUME NEW s \in Sessions, proc'[s] = "up"
               PROVE  \/ \E m \in Languages : slots'[m] = s
                      \/ \E d \in Callers : Starts(at'[d]) /\ at'[d].s = s
                      \/ PutDown(s)'
    BY DEF Held
  <2>1. proc[s] = "up" /\ slots[l] # s
    BY <1>1, DropKnown DEF l
  <2>2. CASE \E m \in Languages : slots[m] = s
    BY <1>1, <2>1, <2>2, DropKnown DEF l
  <2>3. CASE \E d \in Callers : Starts(at[d]) /\ at[d].s = s
    BY <1>1, <1>2, <2>3
  <2>4. CASE PutDown(s)
    BY <1>2, <2>4 DEF PutDown
  <2> QED
    BY <2>1, <2>2, <2>3, <2>4 DEF IInv, Held
<1> QED
  BY <1>4, <1>5, <1>6, <1>7, <1>8 DEF IInv

LEMMA DoesWithoutKeeps ==
  ASSUME IInv, NEW c \in Callers, DoesWithout(c)
  PROVE  IInv'
BY DropReturns DEF DoesWithout, past, table

LEMMA SpawnFailsKeeps ==
  ASSUME IInv, NEW c \in Callers, NEW reason, SpawnFails(c, reason)
  PROVE  IInv'
BY DropReturns DEF SpawnFails, MayStart, past, table

LEMMA SpawnKeeps ==
  ASSUME IInv, NEW c \in Callers, Spawn(c)
  PROVE  IInv'
<1> DEFINE l == at[c].lang
           b == born + 1
           x == [at[c] EXCEPT !.pc = "request", !.s = b, !.then = "init"]
<1>1. /\ at[c].pc = "lock" /\ at[c].op # "shutdown" /\ lock = NoCaller /\ ~ IsFull(l)
      /\ born < MaxSessions /\ born' = b /\ lock' = c /\ nextId' = nextId
      /\ slots' = Dropped(l)
      /\ proc' = [Killed(slots[l]) EXCEPT ![b] = "up"]
  BY DEF Spawn, MayStart, HeldBy, table
<1>2. l \in Languages /\ ~ Starts(at[c]) /\ b \in Sessions /\ born \in Nat
  BY <1>1, CallKnown, LanguageServersAssumption DEF Placed, Starts, IInv, Shape, Sessions
<1>3. x \in Caller
  BY <1>2, CallKnown DEF Caller, Places
<1>4. /\ x.pc = "request" /\ x.s = b /\ x.then = "init"
      /\ x.op = at[c].op /\ x.lang = at[c].lang /\ x.rest = at[c].rest
  BY CallKnown DEF Caller
<1>5. at' = [at EXCEPT ![c] = x]
  BY <1>1, CallKnown DEF Spawn
<1> HIDE DEF x
<1>6. /\ at' \in [Callers -> Caller] /\ at'[c] = x
      /\ \A d \in Callers \ {c} : at'[d] = at[d]
  BY <1>3, <1>5, CallKnown
<1>7. Placed(x) /\ Starts(x)
  BY <1>1, <1>2, <1>4, CallKnown DEF Placed, Starts
<1>8. /\ proc' \in [Sessions -> {"none", "up", "gone"}]
      /\ \A s \in Sessions \ {b} : proc'[s] = "up" => proc[s] = "up" /\ slots[l] # s
  BY <1>1, <1>2, DropKnown
<1> HIDE DEF l, b
<1>9. Shape'
  <2>1. /\ slots' \in [Languages -> Sessions \union {Nobody}]
        /\ \A m \in Languages : slots'[m] <= born
    BY <1>1, <1>2, DropKnown DEF IInv, Shape, Nobody
  <2>2. \A m \in Languages : slots'[m] <= b
    BY <1>2, <2>1 DEF b, Nobody, Sessions
  <2>3. \A d \in Callers : at'[d].s <= b /\ \A s \in at'[d].rest : s <= b
    BY <1>2, <1>4, <1>6, CallKnown DEF b, IInv, Shape, Caller, Sessions, Nobody
  <2>4. \A s \in Sessions : proc'[s] = "up" => s <= b
    BY <1>2, <1>8 DEF b, IInv, Shape, Sessions
  <2> QED
    BY <1>1, <1>2, <1>6, <1>8, <2>1, <2>2, <2>3, <2>4, CallKnown DEF Shape
<1>10. AllPlaced'
  BY <1>6, <1>7 DEF AllPlaced, IInv
<1>11. LockIsStart'
  BY <1>1, <1>6, <1>7, LanguageServersAssumption DEF LockIsStart, IInv
<1>12. Room'
  <2>1. Cardinality(Running') < MaxServers
    BY <1>1, <1>2, RunningWithout, RunningFinite, LanguageServersAssumption DEF IsFull
  <2>2. Cardinality(Running') <= MaxServers
    BY <1>1, <1>2, <2>1, RunningWithout, LanguageServersAssumption
  <2> QED
    BY <1>1, <1>2, <1>4, <1>6, <2>1, <2>2, DropKnown DEF Room, l
<1>13. PutsDownInTurn'
  <2> SUFFICES ASSUME NEW d \in Callers, at'[d].op = "shutdown", at'[d].pc \in {"lock", "next"},
                      at'[d].s \in Sessions
               PROVE  proc'[at'[d].s] # "up"
    BY DEF PutsDownInTurn
  <2>1. d # c
    BY <1>1, <1>4, <1>6
  <2>2. at[d].s <= born /\ at[d].s # b
    BY <1>2, <1>6, <2>1, CallKnown DEF b, Sessions
  <2> QED
    BY <1>6, <1>8, <2>1, <2>2 DEF IInv, PutsDownInTurn
<1>14. Held'
  <2> SUFFICES ASSUME NEW s \in Sessions, proc'[s] = "up"
               PROVE  \/ \E m \in Languages : slots'[m] = s
                      \/ \E d \in Callers : Starts(at'[d]) /\ at'[d].s = s
                      \/ PutDown(s)'
    BY DEF Held
  <2>1. CASE s = b
    BY <1>4, <1>6, <1>7, <2>1
  <2>2. CASE s # b
    <3>1. proc[s] = "up" /\ slots[l] # s
      BY <1>8, <2>2
    <3>2. CASE \E m \in Languages : slots[m] = s
      BY <1>1, <1>2, <3>1, <3>2, DropKnown
    <3>3. CASE \E d \in Callers : Starts(at[d]) /\ at[d].s = s
      BY <1>2, <1>6, <3>3
    <3>4. CASE PutDown(s)
      BY <1>1, <1>6, <3>4 DEF PutDown
    <3> QED
      BY <3>1, <3>2, <3>3, <3>4 DEF IInv, Held
  <2> QED
    BY <2>1, <2>2
<1> QED
  BY <1>9, <1>10, <1>11, <1>12, <1>13, <1>14 DEF IInv

LEMMA ReadyKeeps ==
  ASSUME IInv, NEW c \in Callers, Ready(c)
  PROVE  IInv'
<1> DEFINE l == at[c].lang
           x == [at[c] EXCEPT !.pc = "use"]
<1>1. /\ at[c].pc = "ready" /\ lock' = NoCaller /\ slots' = [slots EXCEPT ![l] = at[c].s]
      /\ proc' = proc /\ born' = born /\ nextId' = nextId
  BY DEF Ready, server, past, table
<1>2. /\ l \in Languages /\ Starts(at[c]) /\ lock = c /\ at[c].s \in Sessions
      /\ slots[l] = Nobody /\ Cardinality(Running) < MaxServers
  BY <1>1, CallKnown DEF Placed, IInv, LockIsStart, Room
<1>3. x \in Caller
  BY CallKnown DEF Caller, Places
<1>4. /\ x.pc = "use" /\ x.op = at[c].op /\ x.lang = at[c].lang /\ x.s = at[c].s
      /\ x.then = at[c].then /\ x.rest = at[c].rest
  BY CallKnown DEF Caller
<1>5. at' = [at EXCEPT ![c] = x]
  BY CallKnown DEF Ready, Set
<1> HIDE DEF x
<1>6. /\ at' \in [Callers -> Caller] /\ at'[c] = x
      /\ \A d \in Callers \ {c} : at'[d] = at[d]
  BY <1>3, <1>5, CallKnown
<1>7. Placed(x) /\ ~ Starts(x)
  BY <1>2, <1>4, CallKnown DEF Placed, Starts
<1>8. /\ slots' \in [Languages -> Sessions \union {Nobody}] /\ slots'[l] = at[c].s
      /\ \A m \in Languages \ {l} : slots'[m] = slots[m]
  BY <1>1, <1>2, CallKnown
<1> HIDE DEF l
<1>9. Shape'
  <2>1. \A m \in Languages : slots'[m] <= born
    BY <1>8, CallKnown
  <2>2. \A d \in Callers : at'[d].s <= born /\ \A s \in at'[d].rest : s <= born
    BY <1>4, <1>6, CallKnown DEF IInv, Shape
  <2> QED
    BY <1>1, <1>6, <1>8, <2>1, <2>2 DEF IInv, Shape
<1>10. AllPlaced'
  BY <1>6, <1>7 DEF AllPlaced, IInv
<1>11. LockIsStart'
  BY <1>1, <1>2, <1>6, <1>7, LanguageServersAssumption DEF LockIsStart, IInv
<1>12. Room'
  <2>1. Running' = Running \union {l}
    BY <1>2, <1>8 DEF Running, Nobody, Sessions
  <2>2. IsFiniteSet(Running) /\ l \notin Running
    BY <1>2, RunningFinite DEF Running
  <2>3. Cardinality(Running') = Cardinality(Running) + 1
    BY <2>1, <2>2, FS_AddElement
  <2>4. Cardinality(Running') <= MaxServers
    BY <1>2, <2>3, RunningFinite, LanguageServersAssumption
  <2> QED
    BY <1>1, <2>4, LanguageServersAssumption DEF Room
<1>13. PutsDownInTurn'
  BY <1>1, <1>4, <1>6 DEF IInv, PutsDownInTurn
<1>14. Held'
  <2> SUFFICES ASSUME NEW s \in Sessions, proc[s] = "up"
               PROVE  \/ \E m \in Languages : slots'[m] = s
                      \/ \E d \in Callers : Starts(at'[d]) /\ at'[d].s = s
                      \/ PutDown(s)'
    BY <1>1 DEF Held
  <2>1. CASE \E m \in Languages : slots[m] = s
    BY <1>2, <1>8, <2>1 DEF Nobody, Sessions
  <2>2. CASE \E d \in Callers : Starts(at[d]) /\ at[d].s = s
    BY <1>2, <1>6, <1>8, <2>2
  <2>3. CASE PutDown(s)
    BY <1>2, <1>6, <2>3 DEF PutDown, Starts
  <2> QED
    BY <2>1, <2>2, <2>3 DEF IInv, Held
<1> QED
  BY <1>9, <1>10, <1>11, <1>12, <1>13, <1>14 DEF IInv

\* Ending a process that is not in a slot any more.
LEMMA KilledKnown ==
  ASSUME IInv, NEW s \in Sessions
  PROVE  /\ Killed(s) \in [Sessions -> {"none", "up", "gone"}]
         /\ \A u \in Sessions : Killed(s)[u] = "up" => proc[u] = "up" /\ u # s
BY DEF IInv, Shape, Killed, Nobody, Sessions

LEMMA ReapKeeps ==
  ASSUME IInv, NEW c \in Callers, Reap(c)
  PROVE  IInv'
<1> DEFINE x == IF at[c].op # "shutdown" THEN Idle ELSE [at[c] EXCEPT !.pc = "next"]
<1>1. /\ at[c].pc = "reap" /\ proc' = Killed(at[c].s) /\ slots' = slots
      /\ born' = born /\ nextId' = nextId
      /\ lock' = IF at[c].op # "shutdown" THEN NoCaller ELSE lock
  BY DEF Reap, past, table
<1>2. /\ at[c].s \in Sessions
      /\ at[c].op # "shutdown" => Starts(at[c]) /\ lock = c
      /\ at[c].op = "shutdown" => ~ Starts(at[c]) /\ lock # c
  BY <1>1, CallKnown DEF Placed, Starts, IInv, LockIsStart
<1>3. at' = [at EXCEPT ![c] = x]
  BY CallKnown DEF Reap, Returns
<1>4. x \in Caller /\ ~ Starts(x) /\ Placed(x) /\ x.s <= born
  <2>1. CASE at[c].op # "shutdown"
    BY <2>1, IdleCall DEF Placed, Starts, IInv, Shape, Nobody, Sessions
  <2>2. CASE at[c].op = "shutdown"
    <3> DEFINE y == [at[c] EXCEPT !.pc = "next"]
    <3>1. /\ y \in Caller /\ y.pc = "next" /\ y.op = "shutdown" /\ y.lang = at[c].lang
          /\ y.s = at[c].s /\ y.then = at[c].then
      BY <2>2, CallKnown DEF Caller, Places
    <3> HIDE DEF y
    <3>2. ~ Starts(y) /\ Placed(y) /\ y.s <= born
      BY <1>1, <2>2, <3>1, CallKnown DEF Placed, Starts
    <3> QED
      BY <2>2, <3>1, <3>2 DEF y
  <2> QED
    BY <2>1, <2>2
<1>5. /\ at[c].op # "shutdown" => x.op = "query" /\ x.rest = {}
      /\ at[c].op = "shutdown" => x.op = "shutdown" /\ x.s = at[c].s /\ x.rest = at[c].rest
  BY IdleCall, CallKnown DEF Caller
<1> HIDE DEF x
<1>6. /\ at' \in [Callers -> Caller] /\ at'[c] = x
      /\ \A d \in Callers \ {c} : at'[d] = at[d]
  BY <1>3, <1>4, CallKnown
<1>7. /\ proc' \in [Sessions -> {"none", "up", "gone"}]
      /\ \A u \in Sessions : proc'[u] = "up" => proc[u] = "up" /\ u # at[c].s
  BY <1>1, <1>2, KilledKnown
<1>8. Shape'
  <2>1. \A d \in Callers : at'[d].s <= born /\ \A s \in at'[d].rest : s <= born
    BY <1>4, <1>5, <1>6, CallKnown DEF IInv, Shape
  <2>2. lock' \in Callers \union {NoCaller}
    BY <1>1 DEF IInv, Shape
  <2> QED
    BY <1>1, <1>6, <1>7, <2>1, <2>2 DEF IInv, Shape
<1>9. AllPlaced'
  BY <1>4, <1>6 DEF AllPlaced, IInv
<1>10. LockIsStart'
  BY <1>1, <1>2, <1>4, <1>6, LanguageServersAssumption DEF LockIsStart, IInv
<1>11. Room'
  <2>1. Running' = Running
    BY <1>1 DEF Running
  <2> QED
    BY <1>1, <1>2, <1>6, <2>1, LanguageServersAssumption DEF Room, IInv
<1>12. PutsDownInTurn'
  BY <1>5, <1>6, <1>7 DEF IInv, PutsDownInTurn
<1>13. Held'
  <2> SUFFICES ASSUME NEW s \in Sessions, proc[s] = "up", s # at[c].s
               PROVE  \/ \E m \in Languages : slots'[m] = s
                      \/ \E d \in Callers : Starts(at'[d]) /\ at'[d].s = s
                      \/ PutDown(s)'
    BY <1>7 DEF Held
  <2>1. CASE \E m \in Languages : slots[m] = s
    BY <1>1, <2>1
  <2>2. CASE \E d \in Callers : Starts(at[d]) /\ at[d].s = s
    BY <1>6, <2>2
  <2>3. CASE PutDown(s)
    BY <1>5, <1>6, <2>3 DEF PutDown
  <2> QED
    BY <2>1, <2>2, <2>3 DEF IInv, Held
<1> QED
  BY <1>8, <1>9, <1>10, <1>11, <1>12, <1>13 DEF IInv

LEMMA ShutdownAllKeeps ==
  ASSUME IInv, NEW c \in Callers, ShutdownAll(c)
  PROVE  IInv'
<1> DEFINE all == {slots[l] : l \in Running}
           x == [at[c] EXCEPT !.pc = "next", !.rest = all]
<1>1. /\ at[c].pc = "lock" /\ at[c].op = "shutdown" /\ lock = NoCaller /\ lock' = lock
      /\ slots' = [l \in Languages |-> Nobody]
      /\ proc' = proc /\ born' = born /\ nextId' = nextId
  BY DEF ShutdownAll, server, past, table
<1>2. /\ all \in SUBSET Sessions /\ \A s \in all : s <= born
      /\ \A d \in Callers : ~ Starts(at[d])
  BY <1>1, CallKnown, LanguageServersAssumption DEF Running, IInv, LockIsStart
<1>3. x \in Caller
  BY <1>2, CallKnown DEF Caller, Places
<1>4. /\ x.pc = "next" /\ x.op = at[c].op /\ x.lang = at[c].lang /\ x.s = at[c].s
      /\ x.then = at[c].then /\ x.rest = all
  BY CallKnown DEF Caller
<1>5. at' = [at EXCEPT ![c] = x]
  BY CallKnown DEF ShutdownAll
<1> HIDE DEF x
<1>6. /\ at' \in [Callers -> Caller] /\ at'[c] = x
      /\ \A d \in Callers \ {c} : at'[d] = at[d]
  BY <1>3, <1>5, CallKnown
<1>7. Placed(x) /\ ~ Starts(x) /\ x.s = Nobody /\ at[c].rest = {}
  BY <1>1, <1>4, CallKnown DEF Placed, Starts
<1>8. Shape'
  BY <1>1, <1>2, <1>4, <1>6 DEF IInv, Shape, Nobody, Sessions
<1>9. AllPlaced'
  BY <1>6, <1>7 DEF AllPlaced, IInv
<1>10. LockIsStart'
  BY <1>1, <1>6, <1>7, LanguageServersAssumption DEF LockIsStart, IInv
<1>11. Room'
  <2>1. Running' = {}
    BY <1>1 DEF Running
  <2> QED
    BY <1>1, <2>1, FS_EmptySet, LanguageServersAssumption DEF Room
<1>12. PutsDownInTurn'
  BY <1>1, <1>6, <1>7 DEF IInv, PutsDownInTurn, Nobody, Sessions
<1>13. Held'
  <2> SUFFICES ASSUME NEW s \in Sessions, proc[s] = "up"
               PROVE  PutDown(s)'
    BY <1>1 DEF Held
  <2>1. CASE \E l \in Languages : slots[l] = s
    <3>1. s \in all
      BY <2>1 DEF Running, Nobody, Sessions
    <3> QED
      BY <1>1, <1>4, <1>6, <3>1 DEF PutDown
  <2>2. CASE PutDown(s)
    BY <1>4, <1>6, <1>7, <2>2 DEF PutDown, Nobody, Sessions
  <2> QED
    BY <1>2, <2>1, <2>2 DEF IInv, Held
<1> QED
  BY <1>8, <1>9, <1>10, <1>11, <1>12, <1>13 DEF IInv

LEMMA ShutdownNextKeeps ==
  ASSUME IInv, NEW c \in Callers, ShutdownNext(c)
  PROVE  IInv'
<1>1. /\ at[c].pc = "next" /\ at[c].op = "shutdown" /\ ~ Starts(at[c])
      /\ slots' = slots /\ lock' = lock /\ proc' = proc /\ born' = born /\ nextId' = nextId
  BY CallKnown DEF ShutdownNext, pool, server, past, table, Placed, Starts
<1>2. PICK x \in Caller :
        /\ at' = [at EXCEPT ![c] = x]
        /\ x.s <= born /\ x.rest \in SUBSET at[c].rest
        /\ Placed(x) /\ ~ Starts(x)
        /\ x.op = "shutdown" => x.pc = "bye" /\ at[c].rest \ x.rest = {x.s}
        /\ x.op # "shutdown" => at[c].rest = {}
  <2>1. CASE at[c].rest = {}
    <3>1. at' = [at EXCEPT ![c] = Idle]
      BY <2>1 DEF ShutdownNext, Returns
    <3>2. Placed(Idle) /\ ~ Starts(Idle) /\ Idle.s <= born
      BY IdleCall DEF Placed, Starts, IInv, Shape, Nobody, Sessions
    <3> QED
      BY <2>1, <3>1, <3>2, IdleCall
  <2>2. CASE at[c].rest # {}
    <3>1. PICK s \in at[c].rest :
            at' = [at EXCEPT ![c].pc = "bye", ![c].s = s, ![c].rest = @ \ {s}]
      BY <2>2 DEF ShutdownNext
    <3> DEFINE y == [at[c] EXCEPT !.pc = "bye", !.s = s, !.rest = @ \ {s}]
    <3>2. at[c].rest \in SUBSET Sessions /\ s \in Sessions /\ s <= born
      BY <3>1, CallKnown DEF Caller, IInv, Shape
    <3>3. y \in Caller
      BY <3>2, CallKnown DEF Caller, Places
    <3>4. /\ y.pc = "bye" /\ y.s = s /\ y.rest = at[c].rest \ {s} /\ y.op = at[c].op
          /\ y.lang = at[c].lang /\ y.then = at[c].then
      BY CallKnown DEF Caller
    <3>5. at' = [at EXCEPT ![c] = y]
      BY <3>1, CallKnown
    <3> HIDE DEF y
    <3>6. Placed(y) /\ ~ Starts(y)
      BY <1>1, <3>2, <3>4, CallKnown DEF Placed, Starts
    <3>7. y.s <= born /\ y.op = "shutdown" /\ y.pc = "bye"
      BY <1>1, <3>2, <3>4
    <3>8. y.rest \in SUBSET at[c].rest /\ at[c].rest \ y.rest = {y.s}
      BY <3>1, <3>4
    <3> QED
      BY <3>3, <3>5, <3>6, <3>7, <3>8
  <2> QED
    BY <2>1, <2>2
<1>3. /\ at' \in [Callers -> Caller] /\ at'[c] = x
      /\ \A d \in Callers \ {c} : at'[d] = at[d]
  BY <1>2, CallKnown
<1>4. Shape'
  BY <1>1, <1>2, <1>3 DEF IInv, Shape
<1>5. AllPlaced' /\ LockIsStart'
  BY <1>1, <1>2, <1>3 DEF IInv, AllPlaced, LockIsStart
<1>6. Room'
  <2>1. Running' = Running
    BY <1>1 DEF Running
  <2>2. lock # c
    BY <1>1 DEF IInv, LockIsStart
  <2> QED
    BY <1>1, <1>3, <2>1, <2>2 DEF IInv, Room
<1>7. PutsDownInTurn'
  BY <1>1, <1>2, <1>3 DEF IInv, PutsDownInTurn
<1>8. Held'
  <2> SUFFICES ASSUME NEW s \in Sessions, proc[s] = "up"
               PROVE  \/ \E m \in Languages : slots[m] = s
                      \/ \E d \in Callers : Starts(at'[d]) /\ at'[d].s = s
                      \/ PutDown(s)'
    BY <1>1 DEF Held
  <2>1. CASE \E d \in Callers : Starts(at[d]) /\ at[d].s = s
    BY <1>1, <1>3, <2>1
  <2>2. CASE PutDown(s)
    <3>1. PICK d \in Callers : at[d].op = "shutdown" /\ (at[d].s = s \/ s \in at[d].rest)
      BY <2>2 DEF PutDown
    <3>2. CASE d # c
      BY <1>3, <3>1, <3>2 DEF PutDown
    <3>3. CASE d = c
      <4>1. s \in at[c].rest
        BY <1>1, <3>1, <3>3 DEF IInv, PutsDownInTurn
      <4> QED
        BY <1>2, <1>3, <4>1 DEF PutDown
    <3> QED
      BY <3>2, <3>3
  <2> QED
    BY <2>1, <2>2 DEF IInv, Held
<1> QED
  BY <1>4, <1>5, <1>6, <1>7, <1>8 DEF IInv

LEMMA ServerExitsKeeps ==
  ASSUME IInv, NEW s \in Sessions, ServerExits(s)
  PROVE  IInv'
BY KilledKnown, OthersKeep DEF ServerExits, pool, callers, table, Misbehaves

\* The tasks of a session, and a server that speaks, touch neither.
LEMMA WiresKeep ==
  ASSUME IInv, UNCHANGED <<at, slots, lock, born, nextId, proc>>
  PROVE  IInv'
<1>1. proc' \in [Sessions -> {"none", "up", "gone"}]
  BY DEF IInv, Shape
<1> QED
  BY <1>1, OthersKeep

LEMMA TaskKeeps ==
  ASSUME IInv, NEW s \in Sessions, TaskSteps(s)
  PROVE  IInv'
<1>1. CASE Writes(s)
  BY <1>1, WiresKeep DEF Writes, pool, callers, past, table
<1>2. CASE Dispatch(s)
  BY <1>2, WiresKeep DEF Dispatch, pool, callers, past, server
<1>3. CASE ReaderEnds(s)
  BY <1>3, WiresKeep DEF ReaderEnds, pool, callers, past
<1> QED
  BY <1>1, <1>2, <1>3 DEF TaskSteps

LEMMA ServerKeeps ==
  ASSUME IInv, NEW s \in Sessions, ServerSteps(s)
  PROVE  IInv'
<1>1. ASSUME NEW id \in Ids, NEW kind \in {"ok", "error"}, ServerAnswers(s, id, kind)
      PROVE  IInv'
  BY <1>1, WiresKeep DEF ServerAnswers, ServerSays, pool, callers, past, table
<1>2. CASE ServerAsks(s)
  BY <1>2, WiresKeep DEF ServerAsks, ServerSays, Misbehaves, pool, callers, table
<1>3. CASE ServerGarbles(s)
  BY <1>3, WiresKeep DEF ServerGarbles, ServerSays, Misbehaves, pool, callers, table
<1>4. CASE ServerExits(s)
  BY <1>4, ServerExitsKeeps
<1> QED
  BY <1>1, <1>2, <1>3, <1>4 DEF ServerSteps

LEMMA CallerKeeps ==
  ASSUME IInv, NEW c \in Callers, CallerSteps(c)
  PROVE  IInv'
<1>1. CASE UsesRunning(c) \/ DoesWithout(c)
  BY <1>1, UsesRunningKeeps, DoesWithoutKeeps
<1>2. CASE \E reason \in {"NotInstalled", "FailedToStart"} : SpawnFails(c, reason)
  BY <1>2, SpawnFailsKeeps
<1>3. CASE Spawn(c)
  BY <1>3, SpawnKeeps
<1>4. CASE Request(c) \/ Send(c) \/ SendFails(c) \/ Receive(c) \/ TimesOut(c)
  BY <1>4, RequestKeeps, SendKeeps, SendFailsKeeps, ReceiveKeeps, TimesOutKeeps
<1>5. CASE UseQuery(c) \/ UseOpen(c) \/ Ready(c)
  BY <1>5, UseQueryKeeps, UseOpenKeeps, ReadyKeeps
<1>6. CASE Bye(c) \/ Exit(c) \/ Reap(c)
  BY <1>6, ByeKeeps, ExitKeeps, ReapKeeps
<1>7. CASE ShutdownAll(c) \/ ShutdownNext(c)
  BY <1>7, ShutdownAllKeeps, ShutdownNextKeeps
<1> QED
  BY <1>1, <1>2, <1>3, <1>4, <1>5, <1>6, <1>7 DEF CallerSteps

LEMMA NextKeeps == IInv /\ [Next]_vars => IInv'
<1> SUFFICES ASSUME IInv, [Next]_vars PROVE IInv'
  OBVIOUS
<1>1. CASE \E c \in Callers : CallerSteps(c)
  BY <1>1, CallerKeeps
<1>2. CASE \E c \in Callers, op \in Ops, l \in Languages : Begin(c, op, l)
  BY <1>2, BeginKeeps
<1>3. CASE \E s \in Sessions : TaskSteps(s)
  BY <1>3, TaskKeeps
<1>4. CASE \E s \in Sessions : ServerSteps(s)
  BY <1>4, ServerKeeps
<1>5. CASE UNCHANGED vars
  BY <1>5, WiresKeep DEF vars, pool, callers, past, table, server
<1> QED
  BY <1>1, <1>2, <1>3, <1>4, <1>5 DEF Next

-----------------------------------------------------------------------------

\* Where a server may be that runs: in a slot, or with who brings it up.
LEMMA HeldIsOwned == IInv => NoOrphans
BY DEF IInv, Held, NoOrphans, Owned, Starts

\* No server process is leaked (pool.rs, terminate and kill_on_drop of
\* server.rs): through failed handshakes, deadlines, restarts and shutdowns, a
\* process that runs is in a slot, being started or being put down.
THEOREM NothingLeaks == Spec => []NoOrphans
<1>1. Spec => []IInv
  BY InvInit, NextKeeps, PTL DEF Spec
<1> QED
  BY <1>1, HeldIsOwned, PTL

LEMMA HeldIsCapped == IInv => CapHolds
<1> SUFFICES ASSUME IInv PROVE CapHolds
  OBVIOUS
<1> DEFINE up == {s \in Sessions : proc[s] = "up" /\ ~PutDown(s)}
           inSlots == {slots[l] : l \in Running}
           f == [l \in Running |-> slots[l]]
<1>1. /\ IsFiniteSet(inSlots) /\ Cardinality(inSlots) <= Cardinality(Running)
      /\ Cardinality(inSlots) \in Nat
  <2>1. f \in Surjection(Running, inSlots)
    BY DEF Surjection
  <2> QED
    BY <2>1, RunningFinite, FS_Surjection, FS_CardinalityType
<1>2. CASE lock = NoCaller
  <2>1. up \subseteq inSlots
    BY <1>2, LanguageServersAssumption DEF IInv, Held, LockIsStart, Running, Nobody, Sessions
  <2>2. Cardinality(up) <= Cardinality(inSlots) /\ Cardinality(up) \in Nat
    BY <1>1, <2>1, FS_Subset, FS_CardinalityType
  <2> QED
    BY <1>1, <2>2, RunningFinite, LanguageServersAssumption DEF IInv, Room, CapHolds
<1>3. CASE lock # NoCaller
  <2>1. lock \in Callers /\ Cardinality(Running) < MaxServers
    BY <1>3 DEF IInv, Shape, Room
  <2> DEFINE more == inSlots \union {at[lock].s}
  <2>2. up \subseteq more
    BY DEF IInv, Held, LockIsStart, Running, Nobody, Sessions
  <2> HIDE DEF inSlots
  <2>3. IsFiniteSet(more) /\ Cardinality(more) \in Nat
    BY <1>1, FS_AddElement, FS_CardinalityType
  <2>4. Cardinality(more) <= Cardinality(inSlots) + 1
    BY <1>1, FS_AddElement
  <2>5. Cardinality(up) <= Cardinality(more) /\ Cardinality(up) \in Nat
    BY <2>2, <2>3, FS_Subset, FS_CardinalityType
  <2> QED
    BY <1>1, <2>1, <2>3, <2>5, <2>4, RunningFinite, LanguageServersAssumption DEF CapHolds
<1> QED
  BY <1>2, <1>3

\* The pool never runs more than max_servers (pool.rs, PoolConfig), those that
\* are being shut down aside, however many callers start one at once: the check
\* of the cap and the start it allows are under one hold of the mutex.
THEOREM CapIsKept == Spec => []CapHolds
<1>1. Spec => []IInv
  BY InvInit, NextKeeps, PTL DEF Spec
<1> QED
  BY <1>1, HeldIsCapped, PTL
-----------------------------------------------------------------------------
(* What a server asks is answered.                                         *)

\* What goes over the wire; only requests and their answers have an id.
Outbound == [kind : {"request"}, id : Ids] \union [kind : {"note", "exit", "answer"}, id : {0}]
Inbound  == [kind : {"ok", "error"}, id : Ids] \union [kind : {"ask", "garbage"}, id : {0}]

WireShape ==
  /\ outgoing \in [Sessions -> Seq(Outbound)]
  /\ incoming \in [Sessions -> Seq(Inbound)]
  /\ pending \in [Sessions -> SUBSET Ids]
  /\ reply \in [Sessions -> [Ids -> Replies]]
  /\ seen \in [Sessions -> SUBSET Ids]
  /\ blocked \in [Sessions -> BOOLEAN]
  /\ writer \in [Sessions -> Ends] /\ reader \in [Sessions -> Ends]

Has(q, id) == \E i \in DOMAIN q : q[i].id = id
HasKind(q, kind) == \E i \in DOMAIN q : q[i].kind = kind
Once(q, id) == \A i, j \in DOMAIN q : q[i].id = id /\ q[j].id = id => i = j

\* A server that waits for us runs, so there is a task that writes to it, and
\* its question or our answer is on the way.
Asks(s) ==
  /\ blocked[s] => proc[s] = "up"
  /\ proc[s] = "up" => writer[s] = "running"
  /\ blocked[s] /\ reader[s] = "running"
       => HasKind(incoming[s], "ask") \/ HasKind(outgoing[s], "answer")

AskInv == WireShape /\ \A s \in Sessions : Asks(s)

LEMMA Appended ==
  ASSUME NEW S, NEW q \in Seq(S), NEW m
  PROVE  /\ DOMAIN Append(q, m) = 1 .. Len(q) + 1 /\ DOMAIN q = 1 .. Len(q) /\ Len(q) \in Nat
         /\ Append(q, m)[Len(q) + 1] = m
         /\ \A i \in 1 .. Len(q) : Append(q, m)[i] = q[i]
OBVIOUS

LEMMA Tailed ==
  ASSUME NEW S, NEW q \in Seq(S), q # <<>>
  PROVE  /\ DOMAIN Tail(q) = 1 .. Len(q) - 1 /\ DOMAIN q = 1 .. Len(q) /\ Len(q) \in Nat \ {0}
         /\ Head(q) = q[1] /\ Head(q) \in S /\ Tail(q) \in Seq(S)
         /\ \A i \in 1 .. Len(q) - 1 : Tail(q)[i] = q[i + 1]
OBVIOUS

LEMMA HasAppend ==
  ASSUME NEW S, NEW q \in Seq(S), NEW m
  PROVE  /\ \A id : Has(Append(q, m), id) <=> Has(q, id) \/ m.id = id
         /\ \A k : HasKind(Append(q, m), k) <=> HasKind(q, k) \/ m.kind = k
         /\ \A id : Once(q, id) /\ (Has(q, id) => m.id # id) => Once(Append(q, m), id)
<1> DEFINE a == Append(q, m)
           n == Len(q)
<1>1. /\ DOMAIN a = 1 .. n + 1 /\ DOMAIN q = 1 .. n /\ n \in Nat /\ a[n + 1] = m
      /\ \A i \in 1 .. n : a[i] = q[i]
  BY Appended
<1> HIDE DEF a, n
<1>2. \A i \in 1 .. n + 1 : i \in 1 .. n \/ i = n + 1
  BY <1>1
<1>3. 1 .. n \subseteq 1 .. n + 1 /\ n + 1 \in 1 .. n + 1
  BY <1>1
<1>4. \A id : Has(a, id) <=> Has(q, id) \/ m.id = id
  BY <1>1, <1>2, <1>3 DEF Has
<1>5. \A k : HasKind(a, k) <=> HasKind(q, k) \/ m.kind = k
  BY <1>1, <1>2, <1>3 DEF HasKind
<1>6. \A id : Once(q, id) /\ (Has(q, id) => m.id # id) => Once(a, id)
  BY <1>1, <1>2 DEF Has, Once
<1>7. QED
  BY <1>4, <1>5, <1>6 DEF a

LEMMA HasTail ==
  ASSUME NEW S, NEW q \in Seq(S), q # <<>>
  PROVE  /\ \A id : Has(Tail(q), id) => Has(q, id)
         /\ Has(q, Head(q).id)
         /\ \A k : HasKind(q, k) /\ Head(q).kind # k => HasKind(Tail(q), k)
         /\ \A id : Once(q, id) => Once(Tail(q), id)
         /\ \A id : Once(q, id) /\ Head(q).id = id => ~ Has(Tail(q), id)
<1> DEFINE a == Tail(q)
           h == Head(q)
           n == Len(q)
<1>1. /\ DOMAIN a = 1 .. n - 1 /\ DOMAIN q = 1 .. n /\ n \in Nat \ {0} /\ h = q[1]
      /\ \A i \in 1 .. n - 1 : a[i] = q[i + 1]
  BY Tailed
<1> HIDE DEF a, h, n
<1>2. \A i \in 1 .. n - 1 : i + 1 \in 1 .. n /\ i + 1 # 1 /\ i \in Int
  BY <1>1
<1>3. 1 \in 1 .. n /\ \A i \in 1 .. n : i # 1 => i - 1 \in 1 .. n - 1 /\ (i - 1) + 1 = i
  BY <1>1
<1>4. \A id : Has(a, id) => Has(q, id)
  BY <1>1, <1>2 DEF Has
<1>5. Has(q, h.id)
  BY <1>1, <1>3 DEF Has
<1>6. ASSUME NEW k, HasKind(q, k), h.kind # k PROVE HasKind(a, k)
  <2>1. PICK i \in 1 .. n : q[i].kind = k
    BY <1>1, <1>6 DEF HasKind
  <2>2. i - 1 \in 1 .. n - 1 /\ a[i - 1] = q[i]
    BY <1>1, <1>3, <1>6, <2>1
  <2>3. QED
    BY <1>1, <2>1, <2>2 DEF HasKind
<1>7. ASSUME NEW id, Once(q, id), NEW i \in 1 .. n - 1, NEW j \in 1 .. n - 1, a[i].id = id, a[j].id = id
      PROVE i = j
  <2>1. i + 1 = j + 1
    BY <1>1, <1>2, <1>7 DEF Once
  <2>2. QED
    BY <1>2, <2>1
<1>8. \A id : Once(q, id) => Once(a, id)
  BY <1>1, <1>7 DEF Once
<1>9. \A id : Once(q, id) /\ h.id = id => ~ Has(a, id)
  BY <1>1, <1>2, <1>3 DEF Has, Once
<1>10. QED
  BY <1>4, <1>5, <1>6, <1>8, <1>9 DEF a, h

\* A session nothing happens to that matters here.
LEMMA AsksKept ==
  ASSUME NEW s \in Sessions, Asks(s),
         blocked'[s] => blocked[s] /\ proc'[s] = "up",
         proc'[s] = "up" => proc[s] = "up" /\ writer'[s] = writer[s],
         reader'[s] = "running" => reader[s] = "running",
         HasKind(incoming[s], "ask") => HasKind(incoming[s], "ask")',
         HasKind(outgoing[s], "answer") => HasKind(outgoing[s], "answer")'
  PROVE  Asks(s)'
BY DEF Asks

\* Steps that leave the wires alone.
LEMMA AsksUnmoved ==
  ASSUME AskInv, UNCHANGED <<outgoing, incoming, pending, reply, seen, blocked, writer, reader, proc>>
  PROVE  AskInv'
BY DEF AskInv, WireShape, Asks, HasKind

\* A message is queued.
LEMMA AsksQueue ==
  ASSUME AskInv, NEW s \in Sessions, NEW m \in Outbound,
         outgoing' = [outgoing EXCEPT ![s] = IF IsAlive(s) THEN Append(@, m) ELSE @],
         UNCHANGED <<incoming, seen, blocked, writer, reader, proc>>,
         pending' \in [Sessions -> SUBSET Ids], reply' \in [Sessions -> [Ids -> Replies]]
  PROVE  AskInv'
<1>1. outgoing[s] \in Seq(Outbound) /\ Append(outgoing[s], m) \in Seq(Outbound)
  BY DEF AskInv, WireShape
<1>2. outgoing' \in [Sessions -> Seq(Outbound)]
  BY <1>1 DEF AskInv, WireShape
<1>3. WireShape'
  BY <1>2 DEF AskInv, WireShape
<1>4. \A q \in Sessions : HasKind(outgoing[q], "answer") => HasKind(outgoing'[q], "answer")
  BY <1>1, HasAppend DEF AskInv, WireShape
<1>5. ASSUME NEW q \in Sessions PROVE Asks(q)'
  <2>1. HasKind(outgoing[q], "answer") => HasKind(outgoing[q], "answer")'
    BY <1>4 DEF HasKind
  <2>2. HasKind(incoming[q], "ask") => HasKind(incoming[q], "ask")'
    BY DEF HasKind
  <2>3. QED
    BY <2>1, <2>2, AsksKept DEF AskInv, Asks
<1>6. QED
  BY <1>3, <1>5 DEF AskInv

\* A process ends, or none does.
LEMMA AsksKill ==
  ASSUME AskInv, IInv, NEW s \in Sessions \union {Nobody}, proc' = Killed(s), Forgotten(proc'),
         UNCHANGED <<outgoing, incoming, pending, reply, writer, reader>>
  PROVE  AskInv'
<1>1. proc \in [Sessions -> {"none", "up", "gone"}]
  BY DEF IInv, Shape
<1>2. \A q \in Sessions : proc'[q] = "up" => proc[q] = "up"
  BY <1>1 DEF Killed
<1>3. \A q \in Sessions : proc[q] = "up" /\ proc'[q] # "up" => proc'[q] = "gone"
  BY <1>1 DEF Killed
<1>4. WireShape'
  BY DEF AskInv, WireShape, Forgotten
<1>5. ASSUME NEW q \in Sessions PROVE Asks(q)'
  <2>1. blocked'[q] => blocked[q] /\ proc'[q] = "up"
    BY <1>3 DEF Forgotten, AskInv, Asks
  <2>2. HasKind(outgoing[q], "answer") => HasKind(outgoing[q], "answer")'
    BY DEF HasKind
  <2>3. HasKind(incoming[q], "ask") => HasKind(incoming[q], "ask")'
    BY DEF HasKind
  <2>4. QED
    BY <1>2, <2>1, <2>2, <2>3, AsksKept DEF AskInv
<1>6. QED
  BY <1>4, <1>5 DEF AskInv

\* A call that drops a server, that queues a note, or that moves.
LEMMA AsksCaller ==
  ASSUME AskInv, IInv, NEW c \in Callers, CallerSteps(c)
  PROVE  AskInv'
<1> USE DEF pool, callers, past, table, tasks, server
<1>0. /\ at[c].pc = "lock" => at[c].lang \in Languages
      /\ at[c].pc \notin {"idle", "lock", "next"} => at[c].s \in Sessions
  BY CallKnown DEF Placed
<1>1. CASE \/ UsesRunning(c) \/ UseQuery(c) \/ Bye(c) \/ ShutdownAll(c) \/ ShutdownNext(c)
  BY <1>1, AsksUnmoved DEF UsesRunning, UseQuery, Bye, ShutdownAll, ShutdownNext
<1>2. CASE DoesWithout(c) \/ (\E reason \in {"NotInstalled", "FailedToStart"} : SpawnFails(c, reason))
  <2>1. slots[at[c].lang] \in Sessions \union {Nobody}
    BY <1>0, <1>2, CallKnown DEF DoesWithout, SpawnFails, MayStart
  <2>2. /\ proc' = Killed(slots[at[c].lang]) /\ Forgotten(proc')
        /\ UNCHANGED <<outgoing, incoming, pending, reply, writer, reader>>
    BY <1>2 DEF DoesWithout, SpawnFails
  <2>3. QED
    BY <2>1, <2>2, AsksKill
<1>3. CASE Spawn(c)
  <2> DEFINE b == born + 1
             old == slots[at[c].lang]
  <2>1. /\ b \in Sessions /\ old \in Sessions \union {Nobody} /\ proc[b] # "up" /\ b > born
    <3>1. born \in Nat /\ b <= MaxSessions /\ MaxSessions \in Nat
      BY <1>3, LanguageServersAssumption DEF Spawn, IInv, Shape, Sessions
    <3>2. b \in Sessions
      BY <3>1 DEF Sessions
    <3>3. proc[b] # "up"
      BY <3>1, <3>2 DEF IInv, Shape
    <3>4. QED
      BY <1>0, <1>3, <3>1, <3>2, <3>3, CallKnown DEF Spawn, MayStart
  <2>2. /\ born' = b /\ proc' = [Killed(old) EXCEPT ![b] = "up"] /\ Forgotten(proc')
        /\ writer' = [writer EXCEPT ![b] = "running"] /\ reader' = [reader EXCEPT ![b] = "running"]
        /\ UNCHANGED <<outgoing, incoming, pending, reply>>
    BY <1>3 DEF Spawn
  <2> HIDE DEF b, old
  <2>3. WireShape'
    BY <2>1, <2>2 DEF AskInv, WireShape, Forgotten, Ends
  <2>4. proc'[b] = "up" /\ writer'[b] = "running" /\ ~ blocked'[b]
    BY <2>1, <2>2 DEF AskInv, WireShape, Asks, Forgotten, Killed, IInv, Shape
  <2>5. ASSUME NEW q \in Sessions, q # b PROVE Asks(q)'
    <3>1. /\ proc'[q] = "up" => proc[q] = "up"
          /\ proc[q] = "up" /\ proc'[q] # "up" => proc'[q] = "gone"
          /\ writer'[q] = writer[q] /\ reader'[q] = reader[q]
      BY <2>1, <2>2, <2>5 DEF Killed, AskInv, WireShape, IInv, Shape
    <3>2. blocked'[q] => blocked[q] /\ proc'[q] = "up"
      BY <2>2, <3>1 DEF Forgotten, AskInv, Asks
    <3>3. /\ HasKind(outgoing[q], "answer") => HasKind(outgoing[q], "answer")'
          /\ HasKind(incoming[q], "ask") => HasKind(incoming[q], "ask")'
      BY <2>2 DEF HasKind
    <3>4. QED
      BY <3>1, <3>2, <3>3, AsksKept DEF AskInv
  <2>6. ASSUME NEW q \in Sessions, q = b PROVE Asks(q)'
    BY <2>4, <2>6 DEF Asks
  <2>7. QED
    BY <2>3, <2>5, <2>6 DEF AskInv
<1>4. CASE Request(c)
  <2>1. nextId'[at[c].s] \in Ids
    BY <1>0, <1>4, CallKnown, LanguageServersAssumption DEF Request, Ids
  <2>2. /\ pending' = [pending EXCEPT ![at[c].s] = @ \union {nextId'[at[c].s]}]
        /\ UNCHANGED <<outgoing, incoming, reply, seen, blocked, writer, reader, proc>>
    BY <1>4 DEF Request
  <2>3. pending' \in [Sessions -> SUBSET Ids]
    BY <2>1, <2>2 DEF AskInv, WireShape
  <2>4. QED
    BY <2>2, <2>3 DEF AskInv, WireShape, Asks, HasKind
<1>5. CASE Send(c)
  <2> DEFINE m == Message("request", at[c].id)
  <2>1. at[c].s \in Sessions /\ at[c].id \in Ids
    BY <1>0, <1>5, CallKnown DEF Send, Placed
  <2>2. m \in Outbound
    BY <2>1 DEF Message, Outbound
  <2>3. /\ outgoing' = [outgoing EXCEPT ![at[c].s] = IF IsAlive(at[c].s) THEN Append(@, m) ELSE @]
        /\ UNCHANGED <<incoming, pending, reply, seen, blocked, writer, reader, proc>>
    BY <1>5 DEF Send, Queue
  <2> HIDE DEF m
  <2>4. QED
    BY <2>1, <2>2, <2>3, AsksQueue DEF AskInv, WireShape
<1>6. CASE SendFails(c) \/ TimesOut(c)
  <2>1. /\ pending' = [pending EXCEPT ![at[c].s] = @ \ {at[c].id}]
        /\ UNCHANGED <<outgoing, incoming, reply, seen, blocked, writer, reader, proc>>
    BY <1>6 DEF SendFails, TimesOut, Forgets
  <2>2. pending' \in [Sessions -> SUBSET Ids]
    BY <2>1 DEF AskInv, WireShape
  <2>3. QED
    BY <2>1, <2>2 DEF AskInv, WireShape, Asks, HasKind
<1>7. CASE Receive(c)
  <2>1. /\ reply' = [reply EXCEPT ![at[c].s][at[c].id] = "open"]
        /\ UNCHANGED <<outgoing, incoming, pending, seen, blocked, writer, reader, proc>>
    BY <1>7 DEF Receive
  <2>2. reply' \in [Sessions -> [Ids -> Replies]]
    BY <2>1 DEF AskInv, WireShape, Replies
  <2>3. QED
    BY <2>1, <2>2 DEF AskInv, WireShape, Asks, HasKind
<1>8. CASE UseOpen(c) \/ Ready(c) \/ Exit(c)
  <2>1. at[c].s \in Sessions
    BY <1>0, <1>8 DEF UseOpen, Ready, Exit
  <2>2. PICK kind \in {"note", "exit"} :
          Queue(at[c].s, Message(kind, 0))
          /\ UNCHANGED <<incoming, pending, reply, seen, blocked, writer, reader, proc>>
    BY <1>8 DEF UseOpen, Ready, Exit
  <2> DEFINE m == Message(kind, 0)
  <2>3. m \in Outbound
    BY DEF Message, Outbound
  <2>4. outgoing' = [outgoing EXCEPT ![at[c].s] = IF IsAlive(at[c].s) THEN Append(@, m) ELSE @]
    BY <2>2 DEF Queue
  <2> HIDE DEF m
  <2>5. QED
    BY <2>1, <2>2, <2>3, <2>4, AsksQueue DEF AskInv, WireShape
<1>9. CASE Reap(c)
  BY <1>0, <1>9, AsksKill DEF Reap
<1>10. QED
  BY <1>1, <1>2, <1>3, <1>4, <1>5, <1>6, <1>7, <1>8, <1>9 DEF CallerSteps

\* The tasks of a session pass on what is asked, and the answer.
LEMMA AsksTask ==
  ASSUME AskInv, IInv, NEW s \in Sessions, TaskSteps(s)
  PROVE  AskInv'
<1> USE DEF pool, callers, past, table, tasks, server
<1>1. CASE Writes(s)
  <2> DEFINE m == Head(outgoing[s])
  <2>1. outgoing[s] \in Seq(Outbound) /\ outgoing[s] # <<>> /\ m \in Outbound
        /\ Tail(outgoing[s]) \in Seq(Outbound)
    BY <1>1, Tailed DEF Writes, AskInv, WireShape
  <2>2. m.kind = "request" => m.id \in Ids
    BY <2>1 DEF Outbound
  <2>3. UNCHANGED <<incoming, pending, reply, reader, proc>>
    BY <1>1 DEF Writes
  <2>4. CASE proc[s] = "gone"
    <3>1. /\ writer' = [writer EXCEPT ![s] = "ended"] /\ outgoing' = [outgoing EXCEPT ![s] = <<>>]
          /\ UNCHANGED <<seen, blocked>>
      BY <1>1, <2>4 DEF Writes
    <3>2. WireShape'
      BY <2>3, <3>1 DEF AskInv, WireShape, Ends
    <3>3. \A q \in Sessions : Asks(q)'
      BY <2>3, <2>4, <3>1 DEF AskInv, WireShape, Asks, HasKind
    <3>4. QED
      BY <3>2, <3>3 DEF AskInv
  <2>5. CASE proc[s] # "gone"
    <3>1. /\ outgoing' = [outgoing EXCEPT ![s] = Tail(outgoing[s])] /\ writer' = writer
          /\ seen' = [seen EXCEPT ![s] = IF m.kind = "request" /\ reader[s] = "running"
                                         THEN @ \union {m.id} ELSE @]
          /\ blocked' = [blocked EXCEPT ![s] = @ /\ m.kind # "answer"]
      BY <1>1, <2>5 DEF Writes
    <3>2. seen' \in [Sessions -> SUBSET Ids] /\ outgoing' \in [Sessions -> Seq(Outbound)]
      BY <2>1, <2>2, <3>1 DEF AskInv, WireShape
    <3>3. WireShape'
      BY <2>3, <3>1, <3>2 DEF AskInv, WireShape
    <3>4. ASSUME m.kind # "answer", HasKind(outgoing[s], "answer")
          PROVE  HasKind(Tail(outgoing[s]), "answer")
      BY <2>1, <3>4, HasTail
    <3>5. \A q \in Sessions : q # s => outgoing'[q] = outgoing[q] /\ blocked'[q] = blocked[q]
      BY <3>1 DEF AskInv, WireShape
    <3>6. /\ outgoing'[s] = Tail(outgoing[s])
          /\ blocked'[s] => blocked[s] /\ m.kind # "answer"
      BY <3>1 DEF AskInv, WireShape
    <3>7. ASSUME NEW q \in Sessions, q # s PROVE Asks(q)'
      BY <2>3, <3>1, <3>5, <3>7 DEF AskInv, Asks, HasKind
    <3>8. HasKind(outgoing[s], "answer")' <=> HasKind(outgoing'[s], "answer")
      BY DEF HasKind
    <3>9. HasKind(incoming[s], "ask")' <=> HasKind(incoming[s], "ask")
      BY <2>3 DEF HasKind
    <3>10. Asks(s)'
      BY <2>3, <3>1, <3>4, <3>6, <3>8, <3>9 DEF AskInv, Asks
    <3>11. QED
      BY <3>3, <3>7, <3>10 DEF AskInv
  <2>6. QED
    BY <2>4, <2>5
<1>2. CASE Dispatch(s)
  <2> DEFINE m == Head(incoming[s])
  <2>1. incoming[s] \in Seq(Inbound) /\ incoming[s] # <<>> /\ m \in Inbound
        /\ Tail(incoming[s]) \in Seq(Inbound)
    BY <1>2, Tailed DEF Dispatch, AskInv, WireShape
  <2>2. /\ incoming' = [incoming EXCEPT ![s] = Tail(incoming[s])]
        /\ UNCHANGED <<seen, blocked, writer, reader, proc>>
    BY <1>2 DEF Dispatch
  <2>3. incoming' \in [Sessions -> Seq(Inbound)] /\ incoming'[s] = Tail(incoming[s])
        /\ \A q \in Sessions : q # s => incoming'[q] = incoming[q]
    BY <2>1, <2>2 DEF AskInv, WireShape
  <2>4. ASSUME m.kind # "ask", HasKind(incoming[s], "ask") PROVE HasKind(incoming'[s], "ask")
    BY <2>1, <2>3, <2>4, HasTail
  <2>5. CASE m.kind \in {"ok", "error"}
    <3> DEFINE to == Addressee(s, m.id)
    <3>1. /\ pending' = [pending EXCEPT ![s] = @ \ to]
          /\ reply' = [reply EXCEPT ![s] = [i \in Ids |-> IF i \in to THEN m.kind ELSE @[i]]]
          /\ outgoing' = outgoing
      BY <1>2, <2>5 DEF Dispatch
    <3>2. WireShape'
      BY <2>2, <2>3, <2>5, <3>1 DEF AskInv, WireShape, Replies
    <3>3. \A q \in Sessions : HasKind(incoming[q], "ask") => HasKind(incoming'[q], "ask")
      BY <2>3, <2>4, <2>5
    <3>4. ASSUME NEW q \in Sessions PROVE Asks(q)'
      <4>1. HasKind(incoming[q], "ask") => HasKind(incoming[q], "ask")'
        BY <3>3 DEF HasKind
      <4>2. HasKind(outgoing[q], "answer") => HasKind(outgoing[q], "answer")'
        BY <3>1 DEF HasKind
      <4>3. QED
        BY <2>2, <4>1, <4>2, AsksKept DEF AskInv, Asks
    <3>5. QED
      BY <3>2, <3>4 DEF AskInv
  <2>6. CASE m.kind = "ask"
    <3> DEFINE a == Message("answer", 0)
    <3>1. /\ outgoing' = [outgoing EXCEPT ![s] = IF IsAlive(s) THEN Append(@, a) ELSE @]
          /\ UNCHANGED <<pending, reply>>
      BY <1>2, <2>6 DEF Dispatch, Reaction
    <3>2. a \in Outbound /\ a.kind = "answer"
      BY DEF Message, Outbound
    <3> HIDE DEF a
    <3>3. Append(outgoing[s], a) \in Seq(Outbound) /\ outgoing[s] \in Seq(Outbound)
      BY <3>2 DEF AskInv, WireShape
    <3>4. WireShape'
      BY <2>2, <2>3, <3>1, <3>3 DEF AskInv, WireShape
    <3>5. ASSUME blocked[s] PROVE HasKind(outgoing'[s], "answer")
      <4>1. IsAlive(s)
        BY <3>5 DEF AskInv, Asks, IsAlive, Nobody, Sessions
      <4>2. outgoing'[s] = Append(outgoing[s], a)
        BY <3>1, <4>1 DEF AskInv, WireShape
      <4>3. QED
        BY <3>2, <3>3, <4>2, HasAppend
    <3>6. HasKind(outgoing'[s], "answer") => HasKind(outgoing[s], "answer")'
      BY DEF HasKind
    <3>7. Asks(s)'
      BY <2>2, <3>5, <3>6 DEF AskInv, Asks
    <3>8. ASSUME NEW q \in Sessions, q # s PROVE Asks(q)'
      <4>1. incoming'[q] = incoming[q] /\ outgoing'[q] = outgoing[q]
        BY <2>3, <3>1, <3>8 DEF AskInv, WireShape
      <4>2. QED
        BY <2>2, <4>1 DEF AskInv, Asks, HasKind
    <3>9. QED
      BY <3>4, <3>7, <3>8 DEF AskInv
  <2>7. QED
    BY <1>2, <2>5, <2>6 DEF Dispatch
<1>3. CASE ReaderEnds(s)
  <2>1. /\ reader' = [reader EXCEPT ![s] = "ended"] /\ pending' = [pending EXCEPT ![s] = {}]
        /\ reply' = [reply EXCEPT ![s] = [i \in Ids |-> IF i \in pending[s] THEN "error" ELSE @[i]]]
        /\ incoming' = [incoming EXCEPT ![s] = <<>>] /\ seen' = [seen EXCEPT ![s] = {}]
        /\ UNCHANGED <<outgoing, writer, proc, blocked>>
    BY <1>3 DEF ReaderEnds
  <2>2. WireShape'
    BY <2>1 DEF AskInv, WireShape, Replies, Ends
  <2>3. \A q \in Sessions : Asks(q)'
    BY <2>1 DEF AskInv, WireShape, Asks, HasKind
  <2>4. QED
    BY <2>2, <2>3 DEF AskInv
<1>4. QED
  BY <1>1, <1>2, <1>3 DEF TaskSteps

LEMMA AsksSays ==
  ASSUME AskInv, NEW s \in Sessions, NEW m \in Inbound,
         incoming' = [incoming EXCEPT ![s] = Append(@, m)],
         UNCHANGED <<outgoing, pending, reply, writer, reader, proc>>,
         (blocked' = blocked) \/ (blocked' = [blocked EXCEPT ![s] = TRUE] /\ proc[s] = "up" /\ m.kind = "ask"),
         seen' \in [Sessions -> SUBSET Ids]
  PROVE  AskInv'
<1>1. incoming[s] \in Seq(Inbound) /\ Append(incoming[s], m) \in Seq(Inbound)
  BY DEF AskInv, WireShape
<1>2. /\ incoming' \in [Sessions -> Seq(Inbound)] /\ incoming'[s] = Append(incoming[s], m)
      /\ \A q \in Sessions : q # s => incoming'[q] = incoming[q]
  BY <1>1 DEF AskInv, WireShape
<1>3. WireShape'
  BY <1>2 DEF AskInv, WireShape
<1>4. /\ HasKind(incoming[s], "ask") => HasKind(incoming'[s], "ask")
      /\ m.kind = "ask" => HasKind(incoming'[s], "ask")
  BY <1>1, <1>2, HasAppend
<1>5. HasKind(incoming'[s], "ask") => HasKind(incoming[s], "ask")'
  BY DEF HasKind
<1>6. HasKind(outgoing[s], "answer") => HasKind(outgoing[s], "answer")'
  BY DEF HasKind
<1>7. Asks(s)'
  BY <1>4, <1>5, <1>6 DEF AskInv, WireShape, Asks
<1>8. ASSUME NEW q \in Sessions, q # s PROVE Asks(q)'
  <2>1. blocked'[q] = blocked[q]
    BY <1>8 DEF AskInv, WireShape
  <2>2. HasKind(incoming[q], "ask") => HasKind(incoming[q], "ask")'
    BY <1>2, <1>8 DEF HasKind
  <2>3. QED
    BY <1>6, <2>1, <2>2, AsksKept DEF AskInv, Asks, HasKind
<1>9. QED
  BY <1>3, <1>7, <1>8 DEF AskInv

LEMMA AsksServer ==
  ASSUME AskInv, IInv, NEW s \in Sessions, ServerSteps(s)
  PROVE  AskInv'
<1> USE DEF pool, callers, past, table, tasks, server
<1>1. ASSUME NEW id \in Ids, NEW kind \in {"ok", "error"}, ServerAnswers(s, id, kind) PROVE AskInv'
  <2> DEFINE m == Message(kind, id)
  <2>1. m \in Inbound
    BY DEF Message, Inbound
  <2>2. seen' \in [Sessions -> SUBSET Ids]
    BY <1>1 DEF ServerAnswers, AskInv, WireShape
  <2>3. incoming' = [incoming EXCEPT ![s] = Append(@, m)] /\ blocked' = blocked
        /\ UNCHANGED <<outgoing, pending, reply, writer, reader, proc>>
    BY <1>1 DEF ServerAnswers, ServerSays
  <2> HIDE DEF m
  <2>4. QED
    BY <2>1, <2>2, <2>3, AsksSays
<1>2. CASE ServerAsks(s)
  <2> DEFINE m == Message("ask", 0)
  <2>1. m \in Inbound /\ m.kind = "ask"
    BY DEF Message, Inbound
  <2>2. /\ incoming' = [incoming EXCEPT ![s] = Append(@, m)] /\ proc[s] = "up"
        /\ blocked' = [blocked EXCEPT ![s] = TRUE] /\ seen' = seen
        /\ UNCHANGED <<outgoing, pending, reply, writer, reader, proc>>
    BY <1>2 DEF ServerAsks, ServerSays, Writable
  <2> HIDE DEF m
  <2>3. QED
    BY <2>1, <2>2, AsksSays DEF AskInv, WireShape
<1>3. CASE ServerGarbles(s)
  <2> DEFINE m == Message("garbage", 0)
  <2>1. m \in Inbound
    BY DEF Message, Inbound
  <2>2. /\ incoming' = [incoming EXCEPT ![s] = Append(@, m)] /\ blocked' = blocked /\ seen' = seen
        /\ UNCHANGED <<outgoing, pending, reply, writer, reader, proc>>
    BY <1>3 DEF ServerGarbles, ServerSays
  <2> HIDE DEF m
  <2>3. QED
    BY <2>1, <2>2, AsksSays DEF AskInv, WireShape
<1>4. CASE ServerExits(s)
  BY <1>4, AsksKill DEF ServerExits
<1>5. QED
  BY <1>1, <1>2, <1>3, <1>4 DEF ServerSteps

LEMMA AsksNext ==
  ASSUME AskInv, IInv, [Next]_vars
  PROVE  AskInv'
<1>1. ASSUME NEW c \in Callers, NEW op \in Ops, NEW l \in Languages, Begin(c, op, l) PROVE AskInv'
  BY <1>1, AsksUnmoved DEF Begin, table, tasks, server
<1>2. CASE UNCHANGED vars
  BY <1>2, AsksUnmoved DEF vars, table, tasks, server
<1>3. QED
  BY <1>1, <1>2, AsksCaller, AsksTask, AsksServer DEF Next

LEMMA AsksInit == Init => AskInv
BY DEF Init, AskInv, WireShape, Asks, Replies, Ends

\* A server that asks something and blocks is answered for as long as it is
\* read (client.rs, dispatch): its question or our answer is on the way.
THEOREM AsksAreAnswered == Spec => []AskIsAnswered
<1>1. Spec => []IInv
  BY InvInit, NextKeeps, PTL DEF Spec
<1>2. AskInv /\ IInv /\ [Next]_vars => AskInv'
  BY AsksNext
<1>3. AskInv => AskIsAnswered
  BY DEF AskInv, Asks, HasKind, AskIsAnswered
<1>4. QED
  BY <1>1, <1>2, <1>3, AsksInit, PTL DEF Spec

-----------------------------------------------------------------------------
(* Answers find who waits for them.                                        *)

Unsent(s, id) == \E c \in Callers : at[c].pc = "send" /\ at[c].s = s /\ at[c].id = id
Waited(s, id) == \E c \in Callers : Waits(c, s, id)

\* A request is with its caller, queued, with the server, or answered: in one
\* place at a time, and there once.
InOnePlace(s, id) ==
  /\ Once(outgoing[s], id) /\ Once(incoming[s], id)
  /\ Unsent(s, id) => ~ Has(outgoing[s], id) /\ id \notin seen[s] /\ ~ Has(incoming[s], id)
  /\ Has(outgoing[s], id) => id \notin seen[s] /\ ~ Has(incoming[s], id)
  /\ id \in seen[s] => ~ Has(incoming[s], id)

\* Once there is an answer it is nowhere, unless nobody reads the server.
Answered(s, id) ==
  reply[s][id] # "open" =>
    /\ id \notin seen[s]
    /\ reader[s] = "running" => ~ Unsent(s, id) /\ ~ Has(outgoing[s], id)

\* Ids are handed out one after the other.
NotYet(s, id) ==
  id > nextId[s] => /\ reply[s][id] = "open" /\ id \notin pending[s] /\ ~ Waited(s, id)
                    /\ ~ Has(outgoing[s], id) /\ id \notin seen[s] /\ ~ Has(incoming[s], id)

\* One caller waits for it, and the table knows.
Tabled(s, id) ==
  /\ \A c, d \in Callers : Waits(c, s, id) /\ Waits(d, s, id) => c = d
  /\ id \in pending[s] <=> reply[s][id] = "open" /\ Waited(s, id)

Traced(s, id) == InOnePlace(s, id) /\ Answered(s, id) /\ NotYet(s, id) /\ Tabled(s, id)

\* A session nobody reads is empty, one not yet born has asked nothing.
Read(s) ==
  /\ reader[s] # "running" => seen[s] = {} /\ incoming[s] = <<>>
  /\ s > born => nextId[s] = 0

TraceInv == \A s \in Sessions : Read(s) /\ \A id \in Ids : Traced(s, id)

\* A request nothing happens to.
LEMMA TracedKept ==
  ASSUME NEW s \in Sessions, NEW id \in Ids, Traced(s, id),
         \A c \in Callers : Waits(c, s, id)' <=> Waits(c, s, id),
         Unsent(s, id)' => Unsent(s, id),
         Has(outgoing'[s], id) => Has(outgoing[s], id),
         Once(outgoing[s], id) => Once(outgoing'[s], id),
         Has(incoming'[s], id) => Has(incoming[s], id),
         Once(incoming[s], id) => Once(incoming'[s], id),
         id \in seen'[s] => id \in seen[s],
         id \in pending'[s] <=> id \in pending[s],
         reply'[s][id] = reply[s][id],
         id > nextId'[s] => id > nextId[s],
         reader'[s] = "running" => reader[s] = "running" \/ reply[s][id] = "open"
  PROVE  Traced(s, id)'
<1>1. /\ Has(outgoing[s], id)' <=> Has(outgoing'[s], id)
      /\ Has(incoming[s], id)' <=> Has(incoming'[s], id)
      /\ Once(outgoing[s], id)' <=> Once(outgoing'[s], id)
      /\ Once(incoming[s], id)' <=> Once(incoming'[s], id)
  BY DEF Has, Once
<1>2. Waited(s, id)' <=> Waited(s, id)
  BY DEF Waited
<1>3. InOnePlace(s, id)'
  BY <1>1 DEF Traced, InOnePlace
<1>4. Answered(s, id)'
  BY <1>1 DEF Traced, Answered
<1>5. NotYet(s, id)'
  BY <1>1, <1>2 DEF Traced, NotYet
<1>6. Tabled(s, id)'
  BY <1>2 DEF Traced, Tabled
<1>7. QED
  BY <1>3, <1>4, <1>5, <1>6 DEF Traced

\* A step that neither asks nor answers anything.
LEMMA QuietKeeps ==
  ASSUME TraceInv,
         \A c \in Callers, s \in Sessions, id \in Ids : Waits(c, s, id)' <=> Waits(c, s, id),
         \A s \in Sessions, id \in Ids : Unsent(s, id)' => Unsent(s, id),
         \A s \in Sessions, id \in Ids :
           /\ Has(outgoing'[s], id) => Has(outgoing[s], id)
           /\ Once(outgoing[s], id) => Once(outgoing'[s], id),
         \A s \in Sessions : seen'[s] \subseteq seen[s],
         UNCHANGED <<pending, reply, nextId, incoming>>,
         \A s \in Sessions : reader'[s] = reader[s] \/ (reader'[s] = "running" /\ s > born),
         \A s \in Sessions : s > born' => s > born
  PROVE  TraceInv'
<1>1. ASSUME NEW s \in Sessions, NEW id \in Ids PROVE Traced(s, id)'
  <2>1. Traced(s, id) /\ Read(s)
    BY DEF TraceInv
  <2>2. s > born => id > nextId[s]
    BY <2>1 DEF Read, Ids
  <2>3. reader'[s] = "running" => reader[s] = "running" \/ reply[s][id] = "open"
    BY <2>1, <2>2 DEF Traced, NotYet
  <2>4. id > nextId'[s] => id > nextId[s]
    OBVIOUS
  <2>5. QED
    BY <2>1, <2>3, <2>4, TracedKept
<1>2. ASSUME NEW s \in Sessions PROVE Read(s)'
  BY DEF TraceInv, Read
<1>3. QED
  BY <1>1, <1>2 DEF TraceInv

\* A call moves that waits for no answer, and comes to wait for none.
LEMMA CallElsewhere ==
  ASSUME at \in [Callers -> Caller], NEW c \in Callers, NEW x, at' = [at EXCEPT ![c] = x],
         at[c].pc \notin {"send", "wait"}, x.pc \notin {"send", "wait"}
  PROVE  /\ \A d \in Callers, s \in Sessions, id \in Ids : Waits(d, s, id)' <=> Waits(d, s, id)
         /\ \A s \in Sessions, id \in Ids : Unsent(s, id)' <=> Unsent(s, id)
<1>1. at'[c] = x /\ \A d \in Callers \ {c} : at'[d] = at[d]
  OBVIOUS
<1>2. QED
  BY <1>1 DEF Waits, Unsent

\* A call moves that waited for an answer, and waits no more.
LEMMA CallGoesOn ==
  ASSUME at \in [Callers -> Caller], NEW c \in Callers, NEW x, at' = [at EXCEPT ![c] = x],
         x.pc \notin {"send", "wait"}
  PROVE  /\ \A d \in Callers \ {c}, s \in Sessions, id \in Ids : Waits(d, s, id)' <=> Waits(d, s, id)
         /\ \A s \in Sessions, id \in Ids : ~ Waits(c, s, id)'
         /\ \A s \in Sessions, id \in Ids : Unsent(s, id)' => Unsent(s, id)
<1>1. at'[c] = x /\ \A d \in Callers \ {c} : at'[d] = at[d]
  OBVIOUS
<1>2. QED
  BY <1>1 DEF Waits, Unsent

\* Where Resume takes a call.
LEMMA ResumesAt ==
  ASSUME IInv, NEW c \in Callers, NEW good \in BOOLEAN, Resume(c, good), at[c].pc \in {"send", "wait"}
  PROVE  \E x : at' = [at EXCEPT ![c] = x] /\ x.pc \notin {"send", "wait"}
<1>1. CASE GoesOn(c, good) = "idle"
  BY <1>1, IdleCall DEF Resume
<1>2. CASE GoesOn(c, good) # "idle"
  <2> DEFINE x == [at[c] EXCEPT !.pc = GoesOn(c, good), !.id = 0]
  <2>1. GoesOn(c, good) \in {"ready", "bye", "exit", "idle"}
    BY CallKnown DEF GoesOn, Placed
  <2>2. x.pc = GoesOn(c, good) /\ at' = [at EXCEPT ![c] = x]
    BY <1>2, CallKnown DEF Resume, Caller
  <2>3. QED
    BY <2>1, <2>2
<1>3. QED
  BY <1>1, <1>2

\* A call that neither asks nor waits.
QuietSteps(c) ==
  \/ UsesRunning(c) \/ DoesWithout(c)
  \/ \E reason \in {"NotInstalled", "FailedToStart"} : SpawnFails(c, reason)
  \/ Spawn(c) \/ UseQuery(c) \/ UseOpen(c) \/ Ready(c)
  \/ Bye(c) \/ Exit(c) \/ Reap(c) \/ ShutdownAll(c) \/ ShutdownNext(c)

LEMMA QuietMoves ==
  ASSUME IInv, NEW c \in Callers, QuietSteps(c)
  PROVE  \E x : at' = [at EXCEPT ![c] = x]
                /\ at[c].pc \notin {"send", "wait"} /\ x.pc \notin {"send", "wait"}
<1> USE CallKnown, IdleCall DEF Caller, Returns, Set
<1>1. ASSUME NEW y, at' = [at EXCEPT ![c] = y], y.pc \notin {"send", "wait"},
             at[c].pc \notin {"send", "wait"}
      PROVE  \E x : at' = [at EXCEPT ![c] = x]
                    /\ at[c].pc \notin {"send", "wait"} /\ x.pc \notin {"send", "wait"}
  BY <1>1
<1>2. CASE DoesWithout(c) \/ (\E reason \in {"NotInstalled", "FailedToStart"} : SpawnFails(c, reason))
           \/ UseOpen(c)
  BY <1>1, <1>2 DEF DoesWithout, SpawnFails, MayStart, UseOpen
<1>3. CASE UsesRunning(c)
  <2> DEFINE y == [at[c] EXCEPT !.pc = "use", !.s = slots[at[c].lang]]
  <2>1. at' = [at EXCEPT ![c] = y] /\ y.pc = "use" /\ at[c].pc = "lock"
    BY <1>3 DEF UsesRunning
  <2>2. QED
    BY <1>1, <2>1
<1>4. CASE Spawn(c)
  <2> DEFINE y == [at[c] EXCEPT !.pc = "request", !.s = born', !.then = "init"]
  <2>1. at' = [at EXCEPT ![c] = y] /\ y.pc = "request" /\ at[c].pc = "lock"
    BY <1>4 DEF Spawn, MayStart
  <2>2. QED
    BY <1>1, <2>1
<1>5. CASE UseQuery(c)
  <2> DEFINE y == IF able[at[c].s] THEN [at[c] EXCEPT !.pc = "request", !.then = "query"] ELSE Idle
  <2>1. at' = [at EXCEPT ![c] = y] /\ y.pc \in {"request", "idle"} /\ at[c].pc = "use"
    BY <1>5 DEF UseQuery
  <2>2. QED
    BY <1>1, <2>1
<1>6. CASE Ready(c)
  <2> DEFINE y == [at[c] EXCEPT !.pc = "use"]
  <2>1. at' = [at EXCEPT ![c] = y] /\ y.pc = "use" /\ at[c].pc = "ready"
    BY <1>6 DEF Ready
  <2>2. QED
    BY <1>1, <2>1
<1>7. CASE Bye(c)
  <2> DEFINE y == [at[c] EXCEPT !.pc = "request", !.then = "bye"]
  <2>1. at' = [at EXCEPT ![c] = y] /\ y.pc = "request" /\ at[c].pc = "bye"
    BY <1>7 DEF Bye
  <2>2. QED
    BY <1>1, <2>1
<1>8. CASE Exit(c)
  <2> DEFINE y == [at[c] EXCEPT !.pc = "reap"]
  <2>1. at' = [at EXCEPT ![c] = y] /\ y.pc = "reap" /\ at[c].pc = "exit"
    BY <1>8 DEF Exit
  <2>2. QED
    BY <1>1, <2>1
<1>9. CASE Reap(c)
  <2> DEFINE y == IF at[c].op # "shutdown" THEN Idle ELSE [at[c] EXCEPT !.pc = "next"]
  <2>1. at' = [at EXCEPT ![c] = y] /\ y.pc \in {"idle", "next"} /\ at[c].pc = "reap"
    BY <1>9 DEF Reap
  <2>2. QED
    BY <1>1, <2>1
<1>10. CASE ShutdownAll(c)
  <2> DEFINE y == [at[c] EXCEPT !.pc = "next", !.rest = {slots[l] : l \in Running}]
  <2>1. at' = [at EXCEPT ![c] = y] /\ y.pc = "next" /\ at[c].pc = "lock"
    BY <1>10 DEF ShutdownAll
  <2>2. QED
    BY <1>1, <2>1
<1>11. CASE ShutdownNext(c)
  <2>1. CASE at[c].rest = {}
    BY <1>1, <1>11, <2>1 DEF ShutdownNext
  <2>2. CASE at[c].rest # {}
    <3>1. PICK s \in at[c].rest :
            at' = [at EXCEPT ![c].pc = "bye", ![c].s = s, ![c].rest = @ \ {s}]
      BY <1>11, <2>2 DEF ShutdownNext
    <3> DEFINE y == [at[c] EXCEPT !.pc = "bye", !.s = s, !.rest = @ \ {s}]
    <3>2. at' = [at EXCEPT ![c] = y] /\ y.pc = "bye" /\ at[c].pc = "next"
      BY <1>11, <3>1 DEF ShutdownNext
    <3>3. QED
      BY <1>1, <3>2
  <2>3. QED
    BY <2>1, <2>2
<1>12. QED
  BY <1>2, <1>3, <1>4, <1>5, <1>6, <1>7, <1>8, <1>9, <1>10, <1>11 DEF QuietSteps

LEMMA QuietStepsKeep ==
  ASSUME TraceInv, AskInv, IInv, NEW c \in Callers, QuietSteps(c)
  PROVE  TraceInv'
<1> USE DEF pool, callers, past, table, tasks, server
<1>1. PICK x : at' = [at EXCEPT ![c] = x]
               /\ at[c].pc \notin {"send", "wait"} /\ x.pc \notin {"send", "wait"}
  BY QuietMoves
<1>2. /\ \A d \in Callers, s \in Sessions, id \in Ids : Waits(d, s, id)' <=> Waits(d, s, id)
      /\ \A s \in Sessions, id \in Ids : Unsent(s, id)' <=> Unsent(s, id)
  BY <1>1, CallKnown, CallElsewhere
<1>3. UNCHANGED <<pending, reply, nextId, incoming>>
  BY DEF QuietSteps, UsesRunning, DoesWithout, SpawnFails, Spawn, UseQuery, UseOpen, Ready, Bye,
         Exit, Reap, ShutdownAll, ShutdownNext
<1>4. Forgotten(proc') \/ seen' = seen
  BY DEF QuietSteps, UsesRunning, DoesWithout, SpawnFails, Spawn, UseQuery, UseOpen, Ready, Bye,
         Exit, Reap, ShutdownAll, ShutdownNext
<1>5. \A s \in Sessions : seen'[s] \subseteq seen[s]
  BY <1>4 DEF Forgotten
<1>6. \/ reader' = reader /\ born' = born
      \/ reader' = [reader EXCEPT ![born'] = "running"] /\ born' = born + 1
  BY DEF QuietSteps, UsesRunning, DoesWithout, SpawnFails, Spawn, UseQuery, UseOpen, Ready, Bye,
         Exit, Reap, ShutdownAll, ShutdownNext
<1>7. born \in Nat /\ reader \in [Sessions -> Ends] /\ Sessions \subseteq Nat
  BY LanguageServersAssumption DEF IInv, Shape, AskInv, WireShape, Sessions
<1>8. /\ \A s \in Sessions : reader'[s] = reader[s] \/ (reader'[s] = "running" /\ s > born)
      /\ \A s \in Sessions : s > born' => s > born
  BY <1>6, <1>7
<1>9. outgoing' = outgoing
      \/ (\E s \in Sessions, kind \in {"note", "exit"} : Queue(s, Message(kind, 0)))
  <2>1. CASE UseOpen(c) \/ Ready(c) \/ Exit(c)
    BY <2>1, CallKnown DEF UseOpen, Ready, Exit, Placed
  <2>2. CASE ~ (UseOpen(c) \/ Ready(c) \/ Exit(c))
    BY <2>2 DEF QuietSteps, UsesRunning, DoesWithout, SpawnFails, Spawn, UseQuery, Bye, Reap,
                ShutdownAll, ShutdownNext
  <2>3. QED
    BY <2>1, <2>2
<1>10. ASSUME NEW s \in Sessions, NEW id \in Ids
       PROVE  /\ Has(outgoing'[s], id) => Has(outgoing[s], id)
              /\ Once(outgoing[s], id) => Once(outgoing'[s], id)
  <2>1. CASE outgoing' = outgoing
    BY <2>1
  <2>2. CASE outgoing' # outgoing
    <3>1. PICK q \in Sessions, kind \in {"note", "exit"} : Queue(q, Message(kind, 0))
      BY <1>9, <2>2
    <3> DEFINE m == Message(kind, 0)
    <3>2. m.id # id
      BY LanguageServersAssumption DEF Message, Ids
    <3>3. outgoing[s] \in Seq(Outbound) /\ outgoing \in [Sessions -> Seq(Outbound)]
      BY DEF AskInv, WireShape
    <3>4. outgoing'[s] = outgoing[s] \/ outgoing'[s] = Append(outgoing[s], m)
      BY <3>1, <3>3 DEF Queue
    <3> HIDE DEF m
    <3>5. /\ Has(Append(outgoing[s], m), id) <=> Has(outgoing[s], id) \/ m.id = id
          /\ Once(outgoing[s], id) /\ (Has(outgoing[s], id) => m.id # id)
               => Once(Append(outgoing[s], m), id)
      BY <3>3, HasAppend
    <3>6. QED
      BY <3>2, <3>4, <3>5
  <2>3. QED
    BY <2>1, <2>2
<1>11. QED
  BY <1>2, <1>3, <1>5, <1>8, <1>10, QuietKeeps

LEMMA RequestTraces ==
  ASSUME TraceInv, AskInv, IInv, NEW c \in Callers, Request(c)
  PROVE  TraceInv'
<1> USE DEF pool, past, tasks, server
<1> DEFINE z == at[c].s
           n == nextId[at[c].s] + 1
           x == [at[c] EXCEPT !.pc = "send", !.id = n]
<1>1. /\ z \in Sessions /\ n \in Ids /\ n > nextId[z] /\ at[c].pc = "request" /\ z <= born
  BY CallKnown, LanguageServersAssumption DEF Request, Placed, Ids
<1>2. /\ nextId' = [nextId EXCEPT ![z] = n] /\ pending' = [pending EXCEPT ![z] = @ \union {n}]
      /\ at' = [at EXCEPT ![c] = x]
      /\ UNCHANGED <<reply, outgoing, incoming, seen, reader, born>>
  BY <1>1, CallKnown DEF Request
<1>3. x.pc = "send" /\ x.s = z /\ x.id = n
  BY CallKnown DEF Caller
<1>4. \A s \in Sessions, id \in Ids : id > nextId'[s] => id > nextId[s]
  BY <1>1, <1>2, CallKnown DEF Ids
<1>5. at'[c] = x /\ \A d \in Callers \ {c} : at'[d] = at[d]
  BY <1>2, CallKnown
<1>6. \A id \in Ids : id > n => id # n
  BY DEF Ids
<1>7. born \in Nat /\ z \in Nat
  BY <1>1, LanguageServersAssumption DEF IInv, Shape, Sessions
<1> HIDE DEF x, n
<1>8. ASSUME NEW s \in Sessions, NEW id \in Ids, s # z \/ id # n PROVE Traced(s, id)'
  <2>1. \A d \in Callers : Waits(d, s, id)' <=> Waits(d, s, id)
    BY <1>1, <1>3, <1>5, <1>8 DEF Waits
  <2>2. Unsent(s, id)' => Unsent(s, id)
    BY <1>1, <1>3, <1>5, <1>8 DEF Unsent
  <2>3. id \in pending'[s] <=> id \in pending[s]
    BY <1>2, <1>8 DEF AskInv, WireShape
  <2>4. id > nextId'[s] => id > nextId[s]
    BY <1>4
  <2>5. Traced(s, id)
    BY DEF TraceInv
  <2>6. QED
    BY <1>2, <2>1, <2>2, <2>3, <2>4, <2>5, TracedKept
<1>9. ASSUME NEW s \in Sessions, NEW id \in Ids, s = z, id = n PROVE Traced(s, id)'
  <2>1. /\ reply[s][id] = "open" /\ ~ Waited(s, id)
        /\ ~ Has(outgoing[s], id) /\ id \notin seen[s] /\ ~ Has(incoming[s], id)
        /\ Once(outgoing[s], id) /\ Once(incoming[s], id)
    BY <1>1, <1>9 DEF TraceInv, Traced, NotYet, InOnePlace
  <2>2. Waits(c, s, id)' /\ \A d \in Callers \ {c} : ~ Waits(d, s, id)'
    BY <1>3, <1>5, <1>9, <2>1 DEF Waits, Waited
  <2>3. InOnePlace(s, id)'
    BY <1>2, <2>1 DEF InOnePlace, Has, Once
  <2>4. Answered(s, id)'
    BY <1>2, <2>1 DEF Answered
  <2>5. NotYet(s, id)'
    <3>1. nextId'[s] = id
      BY <1>2, <1>9, CallKnown
    <3>2. ~ (id > id)
      BY DEF Ids
    <3>3. QED
      BY <3>1, <3>2 DEF NotYet
  <2>6. Tabled(s, id)'
    <3>1. id \in pending'[s] /\ reply'[s][id] = "open"
      BY <1>2, <1>9, <2>1 DEF AskInv, WireShape
    <3>2. Waited(s, id)'
      BY <2>2 DEF Waited
    <3>3. \A d, e \in Callers : Waits(d, s, id)' /\ Waits(e, s, id)' => d = e
      BY <2>2
    <3>4. QED
      BY <3>1, <3>2, <3>3 DEF Tabled
  <2>7. QED
    BY <2>3, <2>4, <2>5, <2>6 DEF Traced
<1>10. ASSUME NEW s \in Sessions PROVE Read(s)'
  <2>1. s > born => s # z
    BY <1>1, <1>7
  <2>2. QED
    BY <1>2, <2>1, CallKnown DEF TraceInv, Read
<1>11. QED
  BY <1>8, <1>9, <1>10 DEF TraceInv

LEMMA SendTraces ==
  ASSUME TraceInv, AskInv, IInv, NEW c \in Callers, Send(c)
  PROVE  TraceInv'
<1> USE DEF pool, past, table, tasks, server
<1> DEFINE z == at[c].s
           n == at[c].id
           x == [at[c] EXCEPT !.pc = "wait"]
           m == Message("request", n)
<1>1. z \in Sessions /\ n \in Ids /\ at[c].pc = "send" /\ IsAlive(z)
  BY CallKnown DEF Send, Placed
<1>2. /\ at' = [at EXCEPT ![c] = x]
      /\ outgoing' = [outgoing EXCEPT ![z] = Append(outgoing[z], m)]
      /\ UNCHANGED <<pending, reply, nextId, incoming, seen, reader, born>>
  BY <1>1, CallKnown DEF Send, Queue, Set
<1>3. x.pc = "wait" /\ x.s = z /\ x.id = n /\ m.id = n
  BY CallKnown DEF Caller, Message
<1>4. at'[c] = x /\ \A d \in Callers \ {c} : at'[d] = at[d]
  BY <1>2, CallKnown
<1>5. outgoing[z] \in Seq(Outbound) /\ outgoing \in [Sessions -> Seq(Outbound)]
  BY <1>1 DEF AskInv, WireShape
<1> HIDE DEF m
<1>6. /\ outgoing'[z] = Append(outgoing[z], m)
      /\ \A s \in Sessions : s # z => outgoing'[s] = outgoing[s]
  BY <1>1, <1>2, <1>5
<1>7. /\ \A id : Has(outgoing'[z], id) <=> Has(outgoing[z], id) \/ n = id
      /\ \A id : Once(outgoing[z], id) /\ (Has(outgoing[z], id) => n # id) => Once(outgoing'[z], id)
  BY <1>3, <1>5, <1>6, HasAppend
<1> HIDE DEF x
<1>8. \A d \in Callers, s \in Sessions, id \in Ids : Waits(d, s, id)' <=> Waits(d, s, id)
  BY <1>1, <1>3, <1>4 DEF Waits
<1>9. \A s \in Sessions, id \in Ids : Unsent(s, id)' => Unsent(s, id)
  BY <1>3, <1>4 DEF Unsent
<1>10. ASSUME NEW s \in Sessions, NEW id \in Ids, s # z \/ id # n PROVE Traced(s, id)'
  <2>1. /\ Has(outgoing'[s], id) => Has(outgoing[s], id)
        /\ Once(outgoing[s], id) => Once(outgoing'[s], id)
    BY <1>6, <1>7, <1>10
  <2>2. id > nextId'[s] => id > nextId[s]
    BY <1>2
  <2>3. Traced(s, id)
    BY DEF TraceInv
  <2>4. QED
    BY <1>2, <1>8, <1>9, <2>1, <2>2, <2>3, TracedKept
<1>11. ASSUME NEW s \in Sessions, NEW id \in Ids, s = z, id = n PROVE Traced(s, id)'
  <2>1. Unsent(s, id) /\ Waits(c, s, id) /\ Waited(s, id)
    BY <1>1, <1>11 DEF Unsent, Waits, Waited
  <2>2. Traced(s, id)
    BY DEF TraceInv
  <2>3. /\ ~ Has(outgoing[s], id) /\ id \notin seen[s] /\ ~ Has(incoming[s], id)
        /\ Once(outgoing[s], id) /\ Once(incoming[s], id)
    BY <2>1, <2>2 DEF Traced, InOnePlace
  <2>4. ~ Unsent(s, id)'
    BY <1>3, <1>4, <2>1, <2>2 DEF Unsent, Traced, Tabled, Waits
  <2>5. Once(outgoing'[s], id)
    BY <1>7, <1>11, <2>3
  <2>6. InOnePlace(s, id)'
    BY <1>2, <2>3, <2>4, <2>5 DEF InOnePlace, Has, Once
  <2>7. Answered(s, id)'
    BY <1>2, <2>1, <2>2, <2>3 DEF Traced, Answered
  <2>8. NotYet(s, id)'
    BY <1>2, <2>1, <2>2 DEF Traced, NotYet
  <2>9. Waited(s, id)' <=> Waited(s, id)
    BY <1>8 DEF Waited
  <2>10. Tabled(s, id)'
    BY <1>2, <1>8, <2>2, <2>9 DEF Traced, Tabled
  <2>11. QED
    BY <2>6, <2>7, <2>8, <2>10 DEF Traced
<1>12. ASSUME NEW s \in Sessions PROVE Read(s)'
  BY <1>2 DEF TraceInv, Read
<1>13. QED
  BY <1>10, <1>11, <1>12 DEF TraceInv

\* A call gives a request up, or has its answer.
LEMMA GivenUpTraces ==
  ASSUME TraceInv, AskInv, IInv, NEW c \in Callers, NEW good \in BOOLEAN, Resume(c, good),
         at[c].pc \in {"send", "wait"},
         NEW z \in Sessions, NEW n \in Ids, z = at[c].s, n = at[c].id,
         \A s \in Sessions, id \in Ids : s # z \/ id # n =>
           /\ id \in pending'[s] <=> id \in pending[s]
           /\ reply'[s][id] = reply[s][id],
         n \notin pending'[z],
         reply'[z][n] \in {"open", reply[z][n]},
         UNCHANGED <<nextId, outgoing, incoming, seen, reader, born>>
  PROVE  TraceInv'
<1>1. PICK x : at' = [at EXCEPT ![c] = x] /\ x.pc \notin {"send", "wait"}
  BY ResumesAt
<1>2. /\ \A d \in Callers \ {c}, s \in Sessions, id \in Ids : Waits(d, s, id)' <=> Waits(d, s, id)
      /\ \A s \in Sessions, id \in Ids : ~ Waits(c, s, id)'
      /\ \A s \in Sessions, id \in Ids : Unsent(s, id)' => Unsent(s, id)
  BY <1>1, CallKnown, CallGoesOn
<1>3. ASSUME NEW s \in Sessions, NEW id \in Ids, s # z \/ id # n PROVE Traced(s, id)'
  <2>1. ~ Waits(c, s, id)
    BY <1>3 DEF Waits
  <2>2. \A d \in Callers : Waits(d, s, id)' <=> Waits(d, s, id)
    BY <1>2, <2>1
  <2>3. id > nextId'[s] => id > nextId[s]
    OBVIOUS
  <2>4. Traced(s, id)
    BY DEF TraceInv
  <2>5. QED
    BY <1>2, <1>3, <2>2, <2>3, <2>4, TracedKept
<1>4. ASSUME NEW s \in Sessions, NEW id \in Ids, s = z, id = n PROVE Traced(s, id)'
  <2>1. Traced(s, id) /\ Waits(c, s, id)
    BY <1>4 DEF TraceInv, Waits
  <2>2. \A d \in Callers : ~ Waits(d, s, id)'
    BY <1>2, <2>1 DEF Traced, Tabled
  <2>3. /\ Has(outgoing[s], id)' <=> Has(outgoing[s], id)
        /\ Has(incoming[s], id)' <=> Has(incoming[s], id)
        /\ Once(outgoing[s], id)' <=> Once(outgoing[s], id)
        /\ Once(incoming[s], id)' <=> Once(incoming[s], id)
    BY DEF Has, Once
  <2>4. InOnePlace(s, id)'
    BY <1>2, <2>1, <2>3 DEF Traced, InOnePlace
  <2>5. Answered(s, id)'
    BY <1>2, <1>4, <2>1, <2>3 DEF Traced, Answered
  <2>6. NotYet(s, id)'
    BY <2>1 DEF Traced, NotYet, Waited
  <2>7. ~ Waited(s, id)'
    BY <2>2 DEF Waited
  <2>8. Tabled(s, id)'
    BY <1>4, <2>2, <2>7 DEF Tabled
  <2>9. QED
    BY <2>4, <2>5, <2>6, <2>8 DEF Traced
<1>5. ASSUME NEW s \in Sessions PROVE Read(s)'
  BY DEF TraceInv, Read
<1>6. QED
  BY <1>3, <1>4, <1>5 DEF TraceInv

LEMMA CallTraces ==
  ASSUME TraceInv, AskInv, IInv, NEW c \in Callers, CallerSteps(c)
  PROVE  TraceInv'
<1> USE DEF pool, past, table, tasks, server
<1> DEFINE z == at[c].s
           n == at[c].id
<1>1. CASE SendFails(c) \/ TimesOut(c)
  <2>1. z \in Sessions /\ n \in Ids /\ at[c].pc \in {"send", "wait"} /\ Resume(c, FALSE)
    BY <1>1, CallKnown DEF SendFails, TimesOut, Placed
  <2>2. /\ pending' = [pending EXCEPT ![z] = pending[z] \ {n}]
        /\ UNCHANGED <<reply, nextId, outgoing, incoming, seen, reader, born>>
    BY <1>1 DEF SendFails, TimesOut, Forgets
  <2>3. \A s \in Sessions, id \in Ids : s # z \/ id # n => (id \in pending'[s] <=> id \in pending[s])
    BY <2>2 DEF AskInv, WireShape
  <2>4. n \notin pending'[z]
    BY <2>1, <2>2 DEF AskInv, WireShape
  <2> HIDE DEF z, n
  <2>5. z = at[c].s /\ n = at[c].id
    BY DEF z, n
  <2>6. /\ \A s \in Sessions, id \in Ids : s # z \/ id # n =>
             /\ id \in pending'[s] <=> id \in pending[s]
             /\ reply'[s][id] = reply[s][id]
        /\ reply'[z][n] \in {"open", reply[z][n]}
    BY <2>2, <2>3
  <2>7. PICK good \in BOOLEAN : Resume(c, good)
    BY <2>1
  <2>8. QED
    BY <2>1, <2>2, <2>4, <2>5, <2>6, <2>7, GivenUpTraces
<1>2. CASE Receive(c)
  <2> DEFINE good == reply[z][n] = "ok"
  <2>1. z \in Sessions /\ n \in Ids /\ at[c].pc \in {"send", "wait"} /\ Resume(c, good)
        /\ reply[z][n] # "open" /\ good \in BOOLEAN
    BY <1>2, CallKnown DEF Receive, Placed
  <2>2. /\ reply' = [reply EXCEPT ![z][n] = "open"]
        /\ UNCHANGED <<pending, nextId, outgoing, incoming, seen, reader, born>>
    BY <1>2 DEF Receive
  <2>3. \A s \in Sessions, id \in Ids : s # z \/ id # n => reply'[s][id] = reply[s][id]
    BY <2>2 DEF AskInv, WireShape
  <2>4. reply'[z][n] = "open"
    BY <2>1, <2>2 DEF AskInv, WireShape
  <2>5. n \notin pending'[z]
    BY <2>1, <2>2 DEF TraceInv, Traced, Tabled
  <2> HIDE DEF z, n, good
  <2>6. z = at[c].s /\ n = at[c].id
    BY DEF z, n
  <2>7. QED
    BY <2>1, <2>2, <2>3, <2>4, <2>5, <2>6, GivenUpTraces
<1>3. QED
  BY <1>1, <1>2, QuietStepsKeep, RequestTraces, SendTraces DEF CallerSteps, QuietSteps

\* Callers are where they were.
LEMMA CallersStay ==
  ASSUME at' = at
  PROVE  /\ \A d \in Callers, s \in Sessions, id \in Ids : Waits(d, s, id)' <=> Waits(d, s, id)
         /\ \A s \in Sessions, id \in Ids : Unsent(s, id)' <=> Unsent(s, id)
BY DEF Waits, Unsent

\* The writer hands a request to the server.
LEMMA WritesTraces ==
  ASSUME TraceInv, AskInv, IInv, NEW z \in Sessions, Writes(z)
  PROVE  TraceInv'
<1> USE DEF pool, callers, past, table, tasks, server
<1> DEFINE m == Head(outgoing[z])
           q == outgoing[z]
<1>1. q \in Seq(Outbound) /\ q # <<>> /\ m \in Outbound /\ outgoing \in [Sessions -> Seq(Outbound)]
      /\ Tail(q) \in Seq(Outbound)
  BY Tailed DEF Writes, AskInv, WireShape
<1>2. /\ at' = at
      /\ UNCHANGED <<pending, reply, nextId, incoming, reader, born>>
  BY DEF Writes
<1>3. /\ \A d \in Callers, s \in Sessions, id \in Ids : Waits(d, s, id)' <=> Waits(d, s, id)
      /\ \A s \in Sessions, id \in Ids : Unsent(s, id)' <=> Unsent(s, id)
  BY <1>2, CallersStay
<1>4. CASE proc[z] = "gone"
  <2>1. outgoing' = [outgoing EXCEPT ![z] = <<>>] /\ seen' = seen
    BY <1>4 DEF Writes
  <2>2. outgoing'[z] = <<>> /\ \A s \in Sessions : s # z => outgoing'[s] = outgoing[s]
    BY <1>1, <2>1
  <2>3. \A s \in Sessions, id \in Ids : /\ Has(outgoing'[s], id) => Has(outgoing[s], id)
                                        /\ Once(outgoing[s], id) => Once(outgoing'[s], id)
    BY <2>2 DEF Has, Once
  <2>4. QED
    BY <1>2, <1>3, <2>1, <2>3, QuietKeeps
<1>5. CASE proc[z] # "gone"
  <2>1. /\ outgoing' = [outgoing EXCEPT ![z] = Tail(q)]
        /\ seen' = [seen EXCEPT ![z] = IF m.kind = "request" /\ reader[z] = "running"
                                       THEN @ \union {m.id} ELSE @]
    BY <1>5 DEF Writes
  <2>2. /\ outgoing'[z] = Tail(q)
        /\ \A s \in Sessions : s # z => outgoing'[s] = outgoing[s] /\ seen'[s] = seen[s]
        /\ \A id \in Ids : id \in seen'[z] /\ (id # m.id \/ reader[z] # "running") => id \in seen[z]
    BY <1>1, <2>1 DEF AskInv, WireShape
  <2>3. /\ \A id : Has(Tail(q), id) => Has(q, id)
        /\ Has(q, m.id)
        /\ \A id : Once(q, id) => Once(Tail(q), id)
        /\ \A id : Once(q, id) /\ m.id = id => ~ Has(Tail(q), id)
    BY <1>1, HasTail
  <2> HIDE DEF m
  <2>4. ASSUME NEW s \in Sessions, NEW id \in Ids, s # z \/ id # m.id \/ reader[z] # "running"
        PROVE  Traced(s, id)'
    <3>1. /\ Has(outgoing'[s], id) => Has(outgoing[s], id)
          /\ Once(outgoing[s], id) => Once(outgoing'[s], id)
      BY <2>2, <2>3
    <3>2. id \in seen'[s] => id \in seen[s]
      BY <2>2, <2>4
    <3>3. id > nextId'[s] => id > nextId[s]
      BY <1>2
    <3>4. Traced(s, id)
      BY DEF TraceInv
    <3>5. QED
      BY <1>2, <1>3, <3>1, <3>2, <3>3, <3>4, TracedKept
  <2>5. ASSUME NEW s \in Sessions, NEW id \in Ids, s = z, id = m.id, reader[z] = "running"
        PROVE  Traced(s, id)'
    <3>1. Traced(s, id) /\ Has(outgoing[s], id)
      BY <2>3, <2>5 DEF TraceInv
    <3>2. /\ ~ Unsent(s, id) /\ ~ Has(incoming[s], id) /\ reply[s][id] = "open" /\ ~ (id > nextId[s])
          /\ Once(outgoing[s], id) /\ Once(incoming[s], id)
      BY <2>5, <3>1 DEF Traced, InOnePlace, Answered, NotYet
    <3>3. ~ Has(outgoing'[s], id) /\ Once(outgoing'[s], id)
      BY <2>2, <2>3, <2>5, <3>2
    <3>4. InOnePlace(s, id)'
      BY <1>2, <1>3, <3>2, <3>3 DEF InOnePlace, Has, Once
    <3>5. Answered(s, id)'
      BY <1>2, <3>2 DEF Answered
    <3>6. NotYet(s, id)'
      BY <1>2, <3>2 DEF NotYet
    <3>7. Waited(s, id)' <=> Waited(s, id)
      BY <1>3 DEF Waited
    <3>8. Tabled(s, id)'
      BY <1>2, <1>3, <3>1, <3>7 DEF Traced, Tabled
    <3>9. QED
      BY <3>4, <3>5, <3>6, <3>8 DEF Traced
  <2>6. ASSUME NEW s \in Sessions PROVE Read(s)'
    <3>1. reader[s] # "running" => seen'[s] = seen[s]
      BY <2>1 DEF AskInv, WireShape
    <3>2. QED
      BY <1>2, <3>1 DEF TraceInv, Read
  <2>7. QED
    BY <2>4, <2>5, <2>6 DEF TraceInv
<1>6. QED
  BY <1>4, <1>5

\* The reader takes a message: an answer finds its sender in the table, or none.
LEMMA DispatchTraces ==
  ASSUME TraceInv, AskInv, IInv, NEW z \in Sessions, Dispatch(z)
  PROVE  TraceInv'
<1> USE DEF pool, callers, past, table, tasks, server
<1> DEFINE m == Head(incoming[z])
           q == incoming[z]
<1>1. q \in Seq(Inbound) /\ q # <<>> /\ m \in Inbound /\ incoming \in [Sessions -> Seq(Inbound)]
      /\ Tail(q) \in Seq(Inbound)
  BY Tailed DEF Dispatch, AskInv, WireShape
<1>2. /\ at' = at /\ incoming' = [incoming EXCEPT ![z] = Tail(q)] /\ reader[z] = "running"
      /\ UNCHANGED <<nextId, seen, reader, born>>
  BY DEF Dispatch
<1>3. /\ \A d \in Callers, s \in Sessions, id \in Ids : Waits(d, s, id)' <=> Waits(d, s, id)
      /\ \A s \in Sessions, id \in Ids : Unsent(s, id)' <=> Unsent(s, id)
  BY <1>2, CallersStay
<1>4. /\ incoming'[z] = Tail(q)
      /\ \A s \in Sessions : s # z => incoming'[s] = incoming[s]
  BY <1>1, <1>2
<1>5. /\ \A id : Has(Tail(q), id) => Has(q, id)
      /\ Has(q, m.id)
      /\ \A id : Once(q, id) => Once(Tail(q), id)
      /\ \A id : Once(q, id) /\ m.id = id => ~ Has(Tail(q), id)
  BY <1>1, HasTail
<1>6. \A s \in Sessions, id \in Ids : /\ Has(incoming'[s], id) => Has(incoming[s], id)
                                      /\ Once(incoming[s], id) => Once(incoming'[s], id)
  BY <1>4, <1>5
<1>7. ASSUME NEW s \in Sessions PROVE Read(s)'
  BY <1>2, <1>4 DEF TraceInv, Read
<1>8. CASE m.kind = "ask"
  <2> DEFINE a == Message("answer", 0)
  <2>1. /\ outgoing' = [outgoing EXCEPT ![z] = IF IsAlive(z) THEN Append(@, a) ELSE @]
        /\ UNCHANGED <<pending, reply>>
    BY <1>8 DEF Dispatch, Reaction
  <2>2. \A id \in Ids : a.id # id
    BY DEF Message, Ids
  <2>3. outgoing[z] \in Seq(Outbound) /\ outgoing \in [Sessions -> Seq(Outbound)]
    BY DEF AskInv, WireShape
  <2>4. /\ outgoing'[z] = outgoing[z] \/ outgoing'[z] = Append(outgoing[z], a)
        /\ \A s \in Sessions : s # z => outgoing'[s] = outgoing[s]
    BY <2>1, <2>3
  <2> HIDE DEF a, m
  <2>5. /\ \A id : Has(Append(outgoing[z], a), id) <=> Has(outgoing[z], id) \/ a.id = id
        /\ \A id : Once(outgoing[z], id) /\ (Has(outgoing[z], id) => a.id # id)
                     => Once(Append(outgoing[z], a), id)
    BY <2>3, HasAppend
  <2>6. \A s \in Sessions, id \in Ids : /\ Has(outgoing'[s], id) => Has(outgoing[s], id)
                                        /\ Once(outgoing[s], id) => Once(outgoing'[s], id)
    BY <2>2, <2>4, <2>5
  <2>7. ASSUME NEW s \in Sessions, NEW id \in Ids PROVE Traced(s, id)'
    <3>1. id > nextId'[s] => id > nextId[s]
      BY <1>2
    <3>2. Traced(s, id)
      BY DEF TraceInv
    <3>3. QED
      BY <1>2, <1>3, <1>6, <2>1, <2>6, <3>1, <3>2, TracedKept
  <2>8. QED
    BY <1>7, <2>7 DEF TraceInv
<1>9. CASE m.kind \in {"ok", "error"}
  <2> DEFINE to == Addressee(z, m.id)
  <2>1. /\ pending' = [pending EXCEPT ![z] = @ \ to]
        /\ reply' = [reply EXCEPT ![z] = [i \in Ids |-> IF i \in to THEN m.kind ELSE @[i]]]
        /\ outgoing' = outgoing
    BY <1>9 DEF Dispatch
  <2>2. /\ \A s \in Sessions, id \in Ids : s # z \/ id # m.id =>
             /\ id \in pending'[s] <=> id \in pending[s]
             /\ reply'[s][id] = reply[s][id]
        /\ \A id \in Ids : id = m.id => /\ id \notin pending'[z]
                                        /\ id \in pending[z] => reply'[z][id] # "open"
                                        /\ id \notin pending[z] => reply'[z][id] = reply[z][id]
    BY <1>9, <2>1 DEF AskInv, WireShape, Addressee
  <2> HIDE DEF m, to
  <2>3. ASSUME NEW s \in Sessions, NEW id \in Ids, s # z \/ id # m.id PROVE Traced(s, id)'
    <3>1. id > nextId'[s] => id > nextId[s]
      BY <1>2
    <3>2. Traced(s, id)
      BY DEF TraceInv
    <3>3. QED
      BY <1>2, <1>3, <1>6, <2>1, <2>2, <2>3, <3>1, <3>2, TracedKept
  <2>4. ASSUME NEW s \in Sessions, NEW id \in Ids, s = z, id = m.id PROVE Traced(s, id)'
    <3>1. Traced(s, id) /\ Has(incoming[s], id)
      BY <1>5, <2>4 DEF TraceInv
    <3>2. /\ ~ Unsent(s, id) /\ ~ Has(outgoing[s], id) /\ id \notin seen[s] /\ ~ (id > nextId[s])
          /\ Once(outgoing[s], id) /\ Once(incoming[s], id)
      BY <3>1 DEF Traced, InOnePlace, NotYet
    <3>3. ~ Has(incoming'[s], id) /\ Once(incoming'[s], id)
      BY <1>4, <1>5, <2>4, <3>2
    <3>4. InOnePlace(s, id)'
      BY <1>2, <1>3, <2>1, <3>2, <3>3 DEF InOnePlace, Has, Once
    <3>5. Answered(s, id)'
      BY <1>2, <1>3, <2>1, <3>2 DEF Answered, Has
    <3>6. NotYet(s, id)'
      BY <1>2, <3>2 DEF NotYet
    <3>7. Waited(s, id)' <=> Waited(s, id)
      BY <1>3 DEF Waited
    <3>8. Tabled(s, id)'
      BY <1>3, <2>2, <2>4, <3>1, <3>7 DEF Traced, Tabled
    <3>9. QED
      BY <3>4, <3>5, <3>6, <3>8 DEF Traced
  <2>5. QED
    BY <1>7, <2>3, <2>4 DEF TraceInv
<1>10. QED
  BY <1>8, <1>9 DEF Dispatch

\* The stream ends: whoever waits is told so.
LEMMA ReaderEndsTraces ==
  ASSUME TraceInv, AskInv, IInv, NEW z \in Sessions, ReaderEnds(z)
  PROVE  TraceInv'
<1> USE DEF pool, callers, past, table, tasks, server
<1>1. /\ reader' = [reader EXCEPT ![z] = "ended"] /\ pending' = [pending EXCEPT ![z] = {}]
      /\ reply' = [reply EXCEPT ![z] = [i \in Ids |-> IF i \in pending[z] THEN "error" ELSE @[i]]]
      /\ incoming' = [incoming EXCEPT ![z] = <<>>] /\ seen' = [seen EXCEPT ![z] = {}]
      /\ UNCHANGED <<nextId, outgoing, born>> /\ at' = at
  BY DEF ReaderEnds
<1>2. /\ \A d \in Callers, s \in Sessions, id \in Ids : Waits(d, s, id)' <=> Waits(d, s, id)
      /\ \A s \in Sessions, id \in Ids : Unsent(s, id)' <=> Unsent(s, id)
  BY <1>1, CallersStay
<1>3. /\ reader'[z] = "ended" /\ pending'[z] = {} /\ incoming'[z] = <<>> /\ seen'[z] = {}
      /\ \A id \in Ids : reply'[z][id] = IF id \in pending[z] THEN "error" ELSE reply[z][id]
      /\ \A s \in Sessions : s # z => /\ reader'[s] = reader[s] /\ pending'[s] = pending[s]
                                      /\ reply'[s] = reply[s] /\ incoming'[s] = incoming[s]
                                      /\ seen'[s] = seen[s]
  BY <1>1 DEF AskInv, WireShape
<1>4. ASSUME NEW s \in Sessions, NEW id \in Ids, s # z PROVE Traced(s, id)'
  <2>1. id > nextId'[s] => id > nextId[s]
    BY <1>1
  <2>2. Traced(s, id)
    BY DEF TraceInv
  <2>3. QED
    BY <1>1, <1>2, <1>3, <1>4, <2>1, <2>2, TracedKept
<1>5. ASSUME NEW s \in Sessions, NEW id \in Ids, s = z PROVE Traced(s, id)'
  <2>1. Traced(s, id) /\ incoming'[s] = <<>>
    BY <1>3, <1>5 DEF TraceInv
  <2>2. ~ Has(incoming'[s], id) /\ Once(incoming'[s], id)
    BY <2>1 DEF Has, Once
  <2>3. /\ Has(outgoing[s], id)' <=> Has(outgoing[s], id)
        /\ Once(outgoing[s], id)' <=> Once(outgoing[s], id)
        /\ Has(incoming[s], id)' <=> Has(incoming'[s], id)
        /\ Once(incoming[s], id)' <=> Once(incoming'[s], id)
        /\ Waited(s, id)' <=> Waited(s, id)
    BY <1>1, <1>2 DEF Has, Once, Waited
  <2>4. InOnePlace(s, id)'
    BY <1>2, <1>3, <1>5, <2>1, <2>2, <2>3 DEF Traced, InOnePlace
  <2>5. Answered(s, id)'
    BY <1>3, <1>5 DEF Answered
  <2>6. NotYet(s, id)'
    BY <1>1, <1>3, <1>5, <2>1, <2>2, <2>3 DEF Traced, NotYet
  <2>7. Tabled(s, id)'
    BY <1>2, <1>3, <1>5, <2>1, <2>3 DEF Traced, Tabled
  <2>8. QED
    BY <2>4, <2>5, <2>6, <2>7 DEF Traced
<1>6. ASSUME NEW s \in Sessions PROVE Read(s)'
  BY <1>1, <1>3 DEF TraceInv, Read
<1>7. QED
  BY <1>4, <1>5, <1>6 DEF TraceInv

\* The server says something: of a request it has, or of none.
LEMMA SaysTraces ==
  ASSUME TraceInv, AskInv, IInv, NEW z \in Sessions, NEW m \in Inbound,
         reader[z] = "running",
         incoming' = [incoming EXCEPT ![z] = Append(incoming[z], m)], at' = at,
         \/ m.id = 0 /\ seen' = seen
         \/ m.id \in seen[z] /\ seen' = [seen EXCEPT ![z] = @ \ {m.id}],
         UNCHANGED <<pending, reply, nextId, outgoing, reader, born>>
  PROVE  TraceInv'
<1> DEFINE q == incoming[z]
<1>1. /\ \A d \in Callers, s \in Sessions, id \in Ids : Waits(d, s, id)' <=> Waits(d, s, id)
      /\ \A s \in Sessions, id \in Ids : Unsent(s, id)' <=> Unsent(s, id)
  BY CallersStay
<1>2. q \in Seq(Inbound)
  BY DEF AskInv, WireShape
<1>3. /\ incoming'[z] = Append(q, m)
      /\ \A s \in Sessions : s # z => incoming'[s] = incoming[s]
      /\ \A s \in Sessions : seen'[s] \subseteq seen[s]
      /\ m.id \in Ids => m.id \notin seen'[z] /\ m.id \in seen[z]
  <2>1. /\ incoming'[z] = Append(q, m)
        /\ \A s \in Sessions : s # z => incoming'[s] = incoming[s]
    BY DEF AskInv, WireShape
  <2>2. m.id \in Ids => m.id # 0
    BY DEF Ids
  <2>3. /\ \A s \in Sessions : seen'[s] \subseteq seen[s]
        /\ m.id # 0 => m.id \notin seen'[z] /\ m.id \in seen[z]
    BY DEF AskInv, WireShape
  <2>4. QED
    BY <2>1, <2>2, <2>3
<1>4. /\ \A id : Has(Append(q, m), id) <=> Has(q, id) \/ m.id = id
      /\ \A id : Once(q, id) /\ (Has(q, id) => m.id # id) => Once(Append(q, m), id)
  BY <1>2, HasAppend
<1>5. ASSUME NEW s \in Sessions, NEW id \in Ids, s # z \/ id # m.id PROVE Traced(s, id)'
  <2>1. /\ Has(incoming'[s], id) => Has(incoming[s], id)
        /\ Once(incoming[s], id) => Once(incoming'[s], id)
    BY <1>3, <1>4, <1>5
  <2>2. id > nextId'[s] => id > nextId[s]
    OBVIOUS
  <2>3. Traced(s, id)
    BY DEF TraceInv
  <2>4. QED
    BY <1>1, <1>3, <2>1, <2>2, <2>3, TracedKept
<1>6. ASSUME NEW s \in Sessions, NEW id \in Ids, s = z, id = m.id PROVE Traced(s, id)'
  <2>1. Traced(s, id) /\ id \in seen[s] /\ id \notin seen'[s]
    BY <1>3, <1>6 DEF TraceInv
  <2>2. /\ ~ Unsent(s, id) /\ ~ Has(outgoing[s], id) /\ ~ Has(incoming[s], id)
        /\ Once(outgoing[s], id) /\ Once(incoming[s], id)
        /\ reply[s][id] = "open" /\ ~ (id > nextId[s])
    BY <2>1 DEF Traced, InOnePlace, Answered, NotYet
  <2>3. Once(incoming'[s], id)
    BY <1>3, <1>4, <1>6, <2>2
  <2>4. InOnePlace(s, id)'
    BY <1>1, <2>1, <2>2, <2>3 DEF InOnePlace, Has, Once
  <2>5. Answered(s, id)'
    BY <2>2 DEF Answered
  <2>6. NotYet(s, id)'
    BY <2>2 DEF NotYet
  <2>7. Waited(s, id)' <=> Waited(s, id)
    BY <1>1 DEF Waited
  <2>8. Tabled(s, id)'
    BY <1>1, <2>1, <2>7 DEF Traced, Tabled
  <2>9. QED
    BY <2>4, <2>5, <2>6, <2>8 DEF Traced
<1>7. ASSUME NEW s \in Sessions PROVE Read(s)'
  BY <1>3 DEF TraceInv, Read
<1>8. QED
  BY <1>5, <1>6, <1>7 DEF TraceInv

LEMMA ServerTraces ==
  ASSUME TraceInv, AskInv, IInv, NEW z \in Sessions, ServerSteps(z)
  PROVE  TraceInv'
<1> USE DEF pool, callers, past, table, tasks, server
<1>1. ASSUME NEW id \in Ids, NEW kind \in {"ok", "error"}, ServerAnswers(z, id, kind) PROVE TraceInv'
  <2> DEFINE m == Message(kind, id)
  <2>1. m \in Inbound /\ m.id = id
    BY DEF Message, Inbound
  <2>2. /\ incoming' = [incoming EXCEPT ![z] = Append(incoming[z], m)] /\ at' = at
        /\ reader[z] = "running" /\ id \in seen[z] /\ seen' = [seen EXCEPT ![z] = @ \ {id}]
        /\ UNCHANGED <<pending, reply, nextId, outgoing, reader, born>>
    BY <1>1 DEF ServerAnswers, ServerSays, Writable
  <2> HIDE DEF m
  <2>3. QED
    BY <2>1, <2>2, SaysTraces
<1>2. CASE ServerAsks(z) \/ ServerGarbles(z)
  <2>1. PICK kind \in {"ask", "garbage"} : ServerSays(z, Message(kind, 0))
    BY <1>2 DEF ServerAsks, ServerGarbles
  <2> DEFINE m == Message(kind, 0)
  <2>2. m \in Inbound /\ m.id = 0
    BY DEF Message, Inbound
  <2>3. /\ incoming' = [incoming EXCEPT ![z] = Append(incoming[z], m)] /\ at' = at
        /\ reader[z] = "running" /\ seen' = seen
        /\ UNCHANGED <<pending, reply, nextId, outgoing, reader, born>>
    BY <1>2, <2>1 DEF ServerAsks, ServerGarbles, ServerSays, Writable, Misbehaves
  <2> HIDE DEF m
  <2>4. QED
    BY <2>2, <2>3, SaysTraces
<1>3. CASE ServerExits(z)
  <2>1. /\ at' = at /\ \A s \in Sessions : seen'[s] \subseteq seen[s]
        /\ UNCHANGED <<pending, reply, nextId, incoming, outgoing, reader, born>>
    BY <1>3 DEF ServerExits, Forgotten, Misbehaves
  <2>2. /\ \A d \in Callers, s \in Sessions, id \in Ids : Waits(d, s, id)' <=> Waits(d, s, id)
        /\ \A s \in Sessions, id \in Ids : Unsent(s, id)' <=> Unsent(s, id)
    BY <2>1, CallersStay
  <2>3. QED
    BY <2>1, <2>2, QuietKeeps
<1>4. QED
  BY <1>1, <1>2, <1>3 DEF ServerSteps

LEMMA TraceNext ==
  ASSUME TraceInv, AskInv, IInv, [Next]_vars
  PROVE  TraceInv'
<1>1. ASSUME NEW c \in Callers, NEW op \in Ops, NEW l \in Languages, Begin(c, op, l) PROVE TraceInv'
  <2> DEFINE x == [Idle EXCEPT !.pc = "lock", !.op = op, !.lang = l]
  <2>1. /\ at' = [at EXCEPT ![c] = x] /\ at[c].pc = "idle"
        /\ UNCHANGED <<pending, reply, nextId, incoming, outgoing, seen, reader, born>>
    BY <1>1 DEF Begin, past, table, tasks, server
  <2>2. x.pc = "lock"
    BY DEF Idle
  <2> HIDE DEF x
  <2>3. /\ \A d \in Callers, s \in Sessions, id \in Ids : Waits(d, s, id)' <=> Waits(d, s, id)
        /\ \A s \in Sessions, id \in Ids : Unsent(s, id)' <=> Unsent(s, id)
    BY <2>1, <2>2, CallKnown, CallElsewhere
  <2>4. QED
    BY <2>1, <2>3, QuietKeeps
<1>2. CASE UNCHANGED vars
  <2>1. /\ at' = at
        /\ UNCHANGED <<pending, reply, nextId, incoming, outgoing, seen, reader, born>>
    BY <1>2 DEF vars, callers, past, table, tasks, server
  <2>2. QED
    BY <2>1, CallersStay, QuietKeeps
<1>3. QED
  BY <1>1, <1>2, CallTraces, WritesTraces, DispatchTraces, ReaderEndsTraces, ServerTraces
  DEF Next, TaskSteps

LEMMA TraceInit == Init => TraceInv
<1> SUFFICES ASSUME Init PROVE TraceInv
  OBVIOUS
<1>1. \A c \in Callers : at[c].pc = "idle"
  BY DEF Init, Idle
<1>2. \A s \in Sessions, id \in Ids : ~ Unsent(s, id) /\ ~ Waited(s, id)
  BY <1>1 DEF Unsent, Waited, Waits
<1>3. \A s \in Sessions : Read(s)
  BY DEF Init, Read
<1>4. ASSUME NEW s \in Sessions, NEW id \in Ids PROVE Traced(s, id)
  <2>1. InOnePlace(s, id) /\ NotYet(s, id) /\ Answered(s, id)
    BY <1>2 DEF Init, InOnePlace, NotYet, Answered, Has, Once
  <2>2. Tabled(s, id)
    BY <1>1, <1>2 DEF Init, Tabled, Waits
  <2>3. QED
    BY <2>1, <2>2 DEF Traced
<1>5. QED
  BY <1>3, <1>4 DEF TraceInv

\* Answers reach who asked (client.rs, request and dispatch): the table of a
\* session is those who wait for it, and nothing a caller receives is still to
\* be read or answered while the server is read.
THEOREM AnswersArrive == Spec => []AnswersFindTheirWaiters
<1>1. Spec => [](IInv /\ AskInv)
  <2>1. IInv /\ AskInv /\ [Next]_vars => (IInv /\ AskInv)'
    BY NextKeeps, AsksNext
  <2>2. QED
    BY InvInit, AsksInit, <2>1, PTL DEF Spec
<1>2. TraceInv /\ AskInv /\ IInv /\ [Next]_vars => TraceInv'
  BY TraceNext
<1>3. ASSUME TraceInv, AskInv PROVE AnswersFindTheirWaiters
  <2>1. \A s \in Sessions : pending[s] \subseteq Ids
    BY <1>3 DEF AskInv, WireShape
  <2>2. TableIsWaiters
    BY <1>3, <2>1 DEF TraceInv, Traced, Tabled, Waited, TableIsWaiters
  <2>3. ASSUME NEW s \in Sessions, NEW id \in Ids, reply[s][id] # "open"
        PROVE  /\ id \notin seen[s]
               /\ reader[s] = "running" => id \notin {outgoing[s][i].id : i \in DOMAIN outgoing[s]}
    BY <1>3, <2>3 DEF TraceInv, Traced, Answered, Has
  <2>4. QED
    BY <2>2, <2>3 DEF AnswersFindTheirWaiters
<1>4. QED
  BY <1>1, <1>2, <1>3, TraceInit, PTL DEF Spec

=============================================================================
