------------------------ MODULE TaskLifecycle_proofs ------------------------
(***************************************************************************)
(* Theorems about TaskLifecycle, for any processes, threads and bounds.    *)
(***************************************************************************)
EXTENDS TaskLifecycle, TLAPS

-----------------------------------------------------------------------------
(* How the fields of the threads change.                                   *)

\* Every driver and client is a thread, and no thread runs outside a process.
LEMMA ThreadKinds ==
  /\ Drivers \subseteq Threads
  /\ Clients \subseteq Threads
  /\ \A t \in Threads : Host[t] \in Processes
BY LifecycleAssumption DEF Threads

LEMMA IdleIsThread == IdleThread \in Thread
BY DEF Thread, IdleThread, Pcs, Returns, States, Signals, None

\* An idle record with another program counter is a thread.
LEMMA StartedIsThread ==
  ASSUME NEW pc \in Pcs
  PROVE  [IdleThread EXCEPT !.pc = pc] \in Thread
BY DEF Thread, IdleThread, Pcs, Returns, States, Signals, None

\* Moving a thread on keeps the threads well formed.
LEMMA GotoTyped ==
  ASSUME th \in [Threads -> Thread], NEW t \in Threads, NEW pc \in Pcs, Goto(t, pc)
  PROVE  th' \in [Threads -> Thread]
<1>1. [th[t] EXCEPT !.pc = pc] \in Thread
  BY DEF Thread
<1>2. th' = [th EXCEPT ![t] = [th[t] EXCEPT !.pc = pc]]
  BY DEF Goto
<1>3. QED
  BY <1>1, <1>2

LEMMA CallTyped ==
  ASSUME th \in [Threads -> Thread], NEW t \in Threads,
         NEW to \in States, NEW then \in Returns, Call(t, to, then)
  PROVE  th' \in [Threads -> Thread]
<1>1. [th[t] EXCEPT !.pc = "t_get", !.to = to, !.then = then] \in Thread
  BY DEF Thread, Pcs
<1>2. th' = [th EXCEPT ![t] = [th[t] EXCEPT !.pc = "t_get", !.to = to, !.then = then]]
  BY DEF Call
<1>3. QED
  BY <1>1, <1>2

\* Calling a transition with a saved signal.
LEMMA CallSavingTyped ==
  ASSUME th \in [Threads -> Thread], NEW t \in Threads,
         NEW to \in States, NEW then \in Returns, NEW sig \in Signals,
         th' = [th EXCEPT ![t].pc = "t_get", ![t].to = to, ![t].then = then, ![t].sig = sig]
  PROVE  th' \in [Threads -> Thread]
<1>1. [th[t] EXCEPT !.pc = "t_get", !.to = to, !.then = then, !.sig = sig] \in Thread
  BY DEF Thread, Pcs
<1>2. th' = [th EXCEPT ![t] = [th[t] EXCEPT !.pc = "t_get", !.to = to, !.then = then, !.sig = sig]]
  OBVIOUS
<1>3. QED
  BY <1>1, <1>2

\* Moving on with a signal saved or dropped.
LEMMA SaveTyped ==
  ASSUME th \in [Threads -> Thread], NEW t \in Threads, NEW pc \in Pcs, NEW sig \in Signals,
         th' = [th EXCEPT ![t].pc = pc, ![t].sig = sig]
  PROVE  th' \in [Threads -> Thread]
<1>1. [th[t] EXCEPT !.pc = pc, !.sig = sig] \in Thread
  BY DEF Thread
<1>2. th' = [th EXCEPT ![t] = [th[t] EXCEPT !.pc = pc, !.sig = sig]]
  OBVIOUS
<1>3. QED
  BY <1>1, <1>2
-----------------------------------------------------------------------------
\* Every variable keeps its shape.
THEOREM TypeCorrect == Spec => []TypeOK
<1>1. Init => TypeOK
  <2> SUFFICES ASSUME Init PROVE TypeOK
    OBVIOUS
  <2>1. PICK c \in Clients :
          th = [t \in Threads |-> IF t = c THEN [IdleThread EXCEPT !.pc = "spawn"] ELSE IdleThread]
    BY DEF Init
  <2>2. th \in [Threads -> Thread]
    BY <2>1, IdleIsThread, StartedIsThread DEF Pcs
  <2>3. cached \in [Processes -> BOOLEAN]
    BY DEF Init
  <2>4. row \in [state : States, from : States \union {None}, signal : Signals]
    BY DEF Init, States, Signals
  <2>5. QED
    BY <2>2, <2>3, <2>4 DEF Init, TypeOK, States
<1>2. TypeOK /\ [Next]_vars => TypeOK'
  <2> SUFFICES ASSUME TypeOK, [Next]_vars PROVE TypeOK'
    OBVIOUS
  <2>0. /\ th \in [Threads -> Thread]
        /\ row.state \in States /\ row.from \in States \union {None} /\ row.signal \in Signals
        /\ \A t \in Threads : /\ th[t].pc \in Pcs /\ th[t].state \in States
                              /\ th[t].from \in States \union {None} /\ th[t].sig \in Signals
                              /\ th[t].to \in States /\ th[t].then \in Returns
    BY DEF TypeOK, Thread
  <2>1. ASSUME NEW t \in Threads, Transition(t) PROVE TypeOK'
    <3>1. CASE TransitionRead(t)
      <4>0. th[t] \in Thread /\ "t_write" \in Pcs
        BY <2>0 DEF Pcs
      <4>1. CASE th' = [th EXCEPT ![t].pc = "t_write", ![t].state = row.state, ![t].from = row.from]
        <5>1. [th[t] EXCEPT !.pc = "t_write", !.state = row.state, !.from = row.from] \in Thread
          BY <2>0, <4>0 DEF Thread
        <5>2. th' = [th EXCEPT ![t] = [th[t] EXCEPT !.pc = "t_write", !.state = row.state, !.from = row.from]]
          BY <4>1
        <5>3. QED
          BY <3>1, <2>0, <5>1, <5>2 DEF TransitionRead, TypeOK
      <4>2. CASE th' = [th EXCEPT ![t] = [IdleThread EXCEPT !.pc = AfterError(t)]]
        <5>1. AfterError(t) \in Pcs
          BY DEF AfterError, Pcs
        <5>2. QED
          BY <3>1, <2>0, <4>2, <5>1, StartedIsThread DEF TransitionRead, TypeOK
      <4>3. QED
        BY <3>1, <4>1, <4>2 DEF TransitionRead
    <3>2. CASE TransitionWrite(t)
      <4>1. NewRow(t) \in [state : States, from : States \union {None}, signal : Signals]
        BY <2>0 DEF NewRow, Signals
      <4>2. th' \in [Threads -> Thread]
        BY <3>2, <2>0, GotoTyped DEF TransitionWrite, Pcs
      <4>3. QED
        BY <3>2, <4>1, <4>2 DEF TransitionWrite, TypeOK
    <3>3. CASE TransitionJournal(t)
      <4>1. [IdleThread EXCEPT !.pc = th[t].then, !.sig = th[t].sig] \in Thread
        BY <2>0, IdleIsThread DEF Thread, Pcs, Returns
      <4>2. QED
        BY <3>3, <2>0, <4>1 DEF TransitionJournal, TypeOK
    <3>4. QED
      BY <2>1, <3>1, <3>2, <3>3 DEF Transition
  <2>2. ASSUME NEW d \in Drivers, DriverNext(d) PROVE TypeOK'
    <3>0. d \in Threads
      BY ThreadKinds
    <3>1. CASE DriverTop(d)
      <4>1. ASSUME Call(d, "Cancelled", "exit") \/ Call(d, "Paused", "exit")
            PROVE  th' \in [Threads -> Thread]
        <5>1. "Cancelled" \in States /\ "Paused" \in States /\ "exit" \in Returns
          BY DEF States, Returns
        <5>2. QED
          BY <3>0, <2>0, <4>1, <5>1, CallTyped
      <4>2. ASSUME Goto(d, "exit") PROVE th' \in [Threads -> Thread]
        BY <3>0, <2>0, <4>2, GotoTyped DEF Pcs
      <4>3. ASSUME th' = [th EXCEPT ![d].pc = "step", ![d].state = row.state]
            PROVE  th' \in [Threads -> Thread]
        <5>0. th[d] \in Thread /\ "step" \in Pcs
          BY <3>0, <2>0 DEF Pcs
        <5>1. [th[d] EXCEPT !.pc = "step", !.state = row.state] \in Thread
          BY <2>0, <5>0 DEF Thread
        <5>2. th' = [th EXCEPT ![d] = [th[d] EXCEPT !.pc = "step", !.state = row.state]]
          BY <4>3
        <5>3. QED
          BY <3>0, <2>0, <5>1, <5>2
      <4>4. th' \in [Threads -> Thread]
        BY <3>1, <4>1, <4>2, <4>3 DEF DriverTop
      <4>5. cached' \in [Processes -> BOOLEAN]
        BY <3>1 DEF DriverTop, TypeOK
      <4>6. QED
        BY <3>1, <4>4, <4>5 DEF DriverTop, TypeOK
    <3>2. CASE DriverStep(d)
      <4>1. PICK to \in StepTargets(th[d].state) :
              /\ Call(d, to, IF ReturnsFromRun(th[d].state, to) THEN "exit" ELSE "top")
              /\ cached' = [cached EXCEPT ![Host[d]] = CacheAfter(th[d].state, to, @)]
              /\ ask' \in AskAfter(th[d].state, to, ask)
              /\ ran' = IF to = "WaitingForPermission" THEN 0 ELSE ran
        BY <3>2 DEF DriverStep
      <4>2. to \in States
        BY DEF StepTargets, States
      <4>3. th' \in [Threads -> Thread]
        BY <3>0, <2>0, <4>1, <4>2, CallTyped DEF Returns
      <4>4. ask' \in {"none", "open"}
        BY <4>1 DEF AskAfter, TypeOK
      <4>5. ran' \in Nat
        BY <4>1 DEF TypeOK
      <4>6. cached' \in [Processes -> BOOLEAN]
        BY <3>0, <4>1, ThreadKinds DEF CacheAfter, TypeOK
      <4>7. QED
        BY <3>2, <4>3, <4>4, <4>5, <4>6 DEF DriverStep, TypeOK
    <3>3. CASE DriverStay(d)
      <4>1. th' \in [Threads -> Thread]
        BY <3>0, <2>0, <3>3, GotoTyped DEF DriverStay, Pcs
      <4>2. ask' \in {"none", "open"}
        BY <3>3 DEF DriverStay, AskAfter, TypeOK
      <4>3. cached' \in [Processes -> BOOLEAN]
        BY <3>3 DEF DriverStay, CacheAfter, TypeOK
      <4>4. QED
        BY <3>3, <4>1, <4>2, <4>3 DEF DriverStay, TypeOK
    <3>4. CASE DriverFault(d)
      BY <3>0, <2>0, <3>4, GotoTyped DEF DriverFault, TypeOK, Pcs
    <3>5. CASE DriverError(d)
      <4>1. th' \in [Threads -> Thread]
        BY <3>0, <2>0, <3>5, GotoTyped, CallTyped DEF DriverError, Pcs, Returns, States
      <4>2. QED
        BY <3>5, <4>1 DEF DriverError, TypeOK
    <3>6. CASE DriverDone(d)
      BY <3>0, <3>6, IdleIsThread DEF DriverDone, TypeOK
    <3>7. QED
      BY <2>2, <3>1, <3>2, <3>3, <3>4, <3>5, <3>6 DEF DriverNext
  <2>3. ASSUME NEW c \in Clients, Request(c) PROVE TypeOK'
    <3>0. c \in Threads
      BY ThreadKinds
    <3>1. CASE RequestPause(c)
      <4>1. row' \in [state : States, from : States \union {None}, signal : Signals]
        BY <3>1 DEF RequestPause, SetSignal, TypeOK, Signals
      <4>2. owed' \in BOOLEAN
        BY <3>1, Zenon DEF RequestPause
      <4>3. QED
        BY <3>1, <4>1, <4>2 DEF RequestPause, TypeOK
    <3>2. CASE RequestCancel(c)
      <4>1. row' \in [state : States, from : States \union {None}, signal : Signals]
        BY <3>2 DEF RequestCancel, SetSignal, TypeOK, Signals
      <4>2. QED
        BY <3>2, <4>1 DEF RequestCancel, TypeOK
    <3>3. CASE ResumeBegin(c)
      <4>1. th' \in [Threads -> Thread]
        BY <3>0, <2>0, <3>3, GotoTyped DEF ResumeBegin, Pcs
      <4>2. QED
        BY <3>3, <4>1 DEF ResumeBegin, TypeOK
    <3>4. CASE ResolveBegin(c)
      <4>1. th' \in [Threads -> Thread]
        BY <3>0, <2>0, <3>4, GotoTyped DEF ResolveBegin, Pcs
      <4>2. owed' \in BOOLEAN
        BY <3>4, Zenon DEF ResolveBegin
      <4>3. QED
        BY <3>4, <4>1, <4>2 DEF ResolveBegin, TypeOK
    <3>5. CASE Respond(c)
      <4>1. th' \in [Threads -> Thread]
        BY <3>0, <2>0, <3>5, CallTyped DEF Respond, Returns, States
      <4>2. owed' \in BOOLEAN
        BY <3>5, Zenon DEF Respond
      <4>3. QED
        BY <3>5, <4>1, <4>2 DEF Respond, TypeOK
    <3>6. QED
      BY <2>3, <3>1, <3>2, <3>3, <3>4, <3>5 DEF Request
  <2>4. ASSUME NEW c \in Clients, ClientContinue(c) PROVE TypeOK'
    <3>0. c \in Threads
      BY ThreadKinds
    <3>1. CASE RecoverPause(c)
      <4>0. "Paused" \in States /\ "rc_rearm" \in Returns /\ row.signal \in Signals
        BY <2>0 DEF States, Returns
      <4>1. th' = [th EXCEPT ![c].pc = "t_get", ![c].to = "Paused", ![c].then = "rc_rearm",
                             ![c].sig = row.signal]
        BY <3>1 DEF RecoverPause
      <4>2. th' \in [Threads -> Thread]
        BY <3>0, <2>0, <4>0, <4>1, CallSavingTyped
      <4>3. QED
        BY <3>1, <4>2 DEF RecoverPause, TypeOK
    <3>2. CASE RecoverRearm(c)
      <4>1. th' \in [Threads -> Thread]
        BY <3>0, <2>0, <3>2, SaveTyped DEF RecoverRearm, Pcs, Signals
      <4>2. row' \in [state : States, from : States \union {None}, signal : Signals]
        BY <3>0, <2>0, <3>2 DEF RecoverRearm, SetSignal, TypeOK
      <4>3. QED
        BY <3>2, <4>1, <4>2 DEF RecoverRearm, TypeOK
    <3>3. CASE ResumeMove(c)
      <4>1. CASE row.state = "Paused" /\ row.from # None
        <5>1. row.from \in States
          BY <4>1, <2>0
        <5>2. th' = [th EXCEPT ![c].pc = "t_get", ![c].to = row.from, ![c].then = "rs_rearm",
                               ![c].sig = row.signal]
          BY <3>3, <4>1 DEF ResumeMove
        <5>3. "rs_rearm" \in Returns /\ row.signal \in Signals
          BY <2>0 DEF Returns
        <5>4. th' \in [Threads -> Thread]
          BY <3>0, <2>0, <5>1, <5>2, <5>3, CallSavingTyped
        <5>5. QED
          BY <3>3, <5>4 DEF ResumeMove, TypeOK
      <4>2. CASE row.state # "Paused"
        <5>1. th' \in [Threads -> Thread]
          BY <3>0, <2>0, <3>3, <4>2, SaveTyped DEF ResumeMove, Pcs
        <5>2. QED
          BY <3>3, <5>1 DEF ResumeMove, TypeOK
      <4>3. QED
        BY <3>3, <4>1, <4>2 DEF ResumeMove
    <3>4. CASE ResumeRearm(c)
      <4>1. th' \in [Threads -> Thread]
        BY <3>0, <2>0, <3>4, SaveTyped DEF ResumeRearm, Pcs, Signals
      <4>2. row' \in [state : States, from : States \union {None}, signal : Signals]
        BY <3>4 DEF ResumeRearm, SetSignal, TypeOK, Signals
      <4>3. QED
        BY <3>4, <4>1, <4>2 DEF ResumeRearm, TypeOK
    <3>5. CASE Spawn(c)
      <4>1. PICK d \in Drivers :
              th' = [th EXCEPT ![c] = IdleThread, ![d] = [IdleThread EXCEPT !.pc = "top"]]
        BY <3>5 DEF Spawn
      <4>2. th' \in [Threads -> Thread]
        BY <3>0, <2>0, <4>1, ThreadKinds, IdleIsThread, StartedIsThread DEF Pcs
      <4>3. QED
        BY <3>5, <4>2 DEF Spawn, TypeOK
    <3>6. CASE NoSpawn(c)
      BY <3>0, <3>6, IdleIsThread DEF NoSpawn, TypeOK
    <3>7. CASE ResolveApprove(c)
      <4>1. th' \in [Threads -> Thread]
        BY <3>0, <2>0, <3>7, GotoTyped DEF ResolveApprove, Pcs
      <4>2. QED
        BY <3>7, <4>1 DEF ResolveApprove, TypeOK
    <3>8. CASE ResolveDeny(c)
      <4>1. th' \in [Threads -> Thread]
        BY <3>0, <2>0, <3>8, CallTyped DEF ResolveDeny, Returns, States
      <4>2. QED
        BY <3>8, <4>1 DEF ResolveDeny, TypeOK
    <3>9. CASE ResolveExecute(c)
      <4>1. th' \in [Threads -> Thread]
        BY <3>0, <2>0, <3>9, GotoTyped DEF ResolveExecute, Pcs
      <4>2. QED
        BY <3>9, <4>1 DEF ResolveExecute, TypeOK
    <3>10. CASE ResolveRefused(c)
      <4>1. th' \in [Threads -> Thread]
        BY <3>0, <2>0, <3>10, CallTyped DEF ResolveRefused, Returns, States
      <4>2. QED
        BY <3>10, <4>1 DEF ResolveRefused, TypeOK
    <3>11. CASE ResolveResult(c)
      <4>1. th' \in [Threads -> Thread]
        BY <3>0, <2>0, <3>11, GotoTyped DEF ResolveResult, Pcs
      <4>2. QED
        BY <3>11, <4>1 DEF ResolveResult, TypeOK
    <3>12. CASE ResolveMove(c)
      <4>1. ResumeTarget(Host[c]) \in States
        BY DEF ResumeTarget, States
      <4>2. th' \in [Threads -> Thread]
        BY <3>0, <2>0, <3>12, <4>1, CallTyped, GotoTyped DEF ResolveMove, Pcs, Returns
      <4>3. QED
        BY <3>12, <4>2 DEF ResolveMove, TypeOK
    <3>13. QED
      BY <2>4, <3>1, <3>2, <3>3, <3>4, <3>5, <3>6, <3>7, <3>8, <3>9, <3>10, <3>11, <3>12
         DEF ClientContinue
  <2>5. ASSUME NEW p \in Processes, Crash(p) PROVE TypeOK'
    <3>1. th' \in [Threads -> Thread]
      BY <2>0, <2>5, IdleIsThread DEF Crash
    <3>2. cached' \in [Processes -> BOOLEAN]
      BY <2>5 DEF Crash, TypeOK
    <3>3. owed' \in BOOLEAN
      BY <2>5, Zenon DEF Crash
    <3>4. QED
      BY <2>5, <3>1, <3>2, <3>3 DEF Crash, TypeOK
  <2>6. CASE UNCHANGED vars
    BY <2>6 DEF vars, TypeOK
  <2>7. QED
    BY <2>1, <2>2, <2>3, <2>4, <2>5, <2>6 DEF Next
<1>3. QED
  BY <1>1, <1>2, PTL DEF Spec

-----------------------------------------------------------------------------
(* What paused_from holds.  transition() tests one row and overwrites      *)
(* another, so the invariant speaks of the row each writer has read.       *)

\* A thread about to write has tested the move on what it read.
WriteIsLegal ==
  \A t \in Threads : th[t].pc = "t_write" =>
    LegalMove([state |-> th[t].state, from |-> th[t].from], th[t].to)

RowKept == row'.state = row.state /\ row'.from = row.from
NoNewWriter == \A u \in Threads : th'[u].pc = "t_write" => th'[u] = th[u]

\* Only transition() changes tasks.state and paused_from or becomes a writer.
LEMMA Frame ==
  ASSUME TypeOK, [Next]_vars
  PROVE  \/ \E t \in Threads : TransitionRead(t) \/ TransitionWrite(t)
         \/ RowKept /\ NoNewWriter
<1>0. /\ th \in [Threads -> Thread]
      /\ \A t \in Threads : th[t].pc \in Pcs /\ th[t].then \in Returns
      /\ row \in [state : States, from : States \union {None}, signal : Signals]
  BY DEF TypeOK, Thread
<1>a. ASSUME NEW t \in Threads, NEW pc, pc # "t_write", Goto(t, pc)
      PROVE  NoNewWriter
  <2>1. th' = [th EXCEPT ![t] = [th[t] EXCEPT !.pc = pc]]
    BY <1>a DEF Goto
  <2>2. [th[t] EXCEPT !.pc = pc].pc = pc
    BY <1>0 DEF Thread
  <2>3. QED
    BY <1>0, <1>a, <2>1, <2>2 DEF NoNewWriter
<1>b. ASSUME NEW t \in Threads, NEW to, NEW then, Call(t, to, then)
      PROVE  NoNewWriter
  <2>1. th'[t].pc = "t_get"
    BY <1>0, <1>b DEF Call, Thread
  <2>2. \A u \in Threads \ {t} : th'[u] = th[u]
    BY <1>0, <1>b DEF Call
  <2>3. QED
    BY <2>1, <2>2 DEF NoNewWriter
<1>c. ASSUME UNCHANGED row PROVE RowKept
  BY <1>c DEF RowKept
<1>d. ASSUME NEW sig, SetSignal(sig) PROVE RowKept
  BY <1>0, <1>d DEF SetSignal, RowKept
<1>e. ASSUME UNCHANGED th PROVE NoNewWriter
  BY <1>e DEF NoNewWriter
<1>1. ASSUME NEW t \in Threads, TransitionJournal(t)
      PROVE  RowKept /\ NoNewWriter
  BY <1>0, <1>1 DEF TransitionJournal, IdleThread, Returns, RowKept, NoNewWriter
<1>2. ASSUME NEW d \in Drivers, DriverNext(d)
      PROVE  RowKept /\ NoNewWriter
  <2>0. d \in Threads
    BY ThreadKinds
  <2>1. CASE DriverTop(d)
    <3>1. ASSUME th' = [th EXCEPT ![d].pc = "step", ![d].state = row.state]
          PROVE  NoNewWriter
      BY <1>0, <2>0, <3>1 DEF NoNewWriter, Thread
    <3>2. QED
      BY <1>a, <1>b, <1>c, <2>0, <2>1, <3>1 DEF DriverTop
  <2>2. CASE DriverStep(d)
    BY <1>b, <1>c, <2>0, <2>2 DEF DriverStep
  <2>3. CASE DriverStay(d)
    BY <1>a, <1>c, <2>0, <2>3 DEF DriverStay
  <2>4. CASE DriverFault(d)
    BY <1>a, <1>c, <2>0, <2>4 DEF DriverFault
  <2>5. CASE DriverError(d)
    BY <1>a, <1>b, <1>c, <2>0, <2>5 DEF DriverError
  <2>6. CASE DriverDone(d)
    BY <1>0, <1>c, <2>0, <2>6 DEF DriverDone, IdleThread, NoNewWriter
  <2>7. QED
    BY <1>2, <2>1, <2>2, <2>3, <2>4, <2>5, <2>6 DEF DriverNext
<1>3. ASSUME NEW c \in Clients, Request(c)
      PROVE  RowKept /\ NoNewWriter
  <2>0. c \in Threads
    BY ThreadKinds
  <2>1. CASE RequestPause(c)
    BY <1>d, <1>e, <2>1 DEF RequestPause
  <2>2. CASE RequestCancel(c)
    BY <1>d, <1>e, <2>2 DEF RequestCancel
  <2>3. CASE ResumeBegin(c)
    BY <1>a, <1>c, <2>0, <2>3 DEF ResumeBegin
  <2>4. CASE ResolveBegin(c)
    BY <1>a, <1>c, <2>0, <2>4 DEF ResolveBegin
  <2>5. CASE Respond(c)
    BY <1>b, <1>c, <2>0, <2>5 DEF Respond
  <2>6. QED
    BY <1>3, <2>1, <2>2, <2>3, <2>4, <2>5 DEF Request
<1>4. ASSUME NEW c \in Clients, ClientContinue(c)
      PROVE  RowKept /\ NoNewWriter
  <2>0. c \in Threads
    BY ThreadKinds
  <2>a. ASSUME NEW to, NEW then, NEW sig,
               th' = [th EXCEPT ![c].pc = "t_get", ![c].to = to, ![c].then = then, ![c].sig = sig]
        PROVE  NoNewWriter
    <3>1. th'[c].pc = "t_get"
      BY <1>0, <2>0, <2>a DEF Thread
    <3>2. \A u \in Threads \ {c} : th'[u] = th[u]
      BY <1>0, <2>a
    <3>3. QED
      BY <3>1, <3>2 DEF NoNewWriter
  <2>b. ASSUME NEW pc, NEW sig, pc # "t_write", th' = [th EXCEPT ![c].pc = pc, ![c].sig = sig]
        PROVE  NoNewWriter
    <3>1. th'[c].pc = pc
      BY <1>0, <2>0, <2>b DEF Thread
    <3>2. \A u \in Threads \ {c} : th'[u] = th[u]
      BY <1>0, <2>b
    <3>3. QED
      BY <2>b, <3>1, <3>2 DEF NoNewWriter
  <2>1. CASE RecoverPause(c)
    BY <1>c, <2>a, <2>1 DEF RecoverPause
  <2>2. CASE RecoverRearm(c)
    BY <1>c, <1>d, <2>b, <2>2 DEF RecoverRearm
  <2>3. CASE ResumeMove(c)
    <3>1. CASE row.state = "Paused"
      <4>1. th' = [th EXCEPT ![c].pc = "t_get", ![c].to = row.from, ![c].then = "rs_rearm",
                             ![c].sig = row.signal]
        BY <2>3, <3>1 DEF ResumeMove
      <4>2. QED
        BY <1>c, <2>a, <2>3, <4>1 DEF ResumeMove
    <3>2. CASE row.state # "Paused"
      BY <1>c, <2>b, <2>3, <3>2 DEF ResumeMove
    <3>3. QED
      BY <3>1, <3>2
  <2>4. CASE ResumeRearm(c)
    BY <1>c, <1>d, <2>b, <2>4 DEF ResumeRearm
  <2>5. CASE Spawn(c)
    BY <1>0, <1>c, <2>0, <2>5, ThreadKinds DEF Spawn, IdleThread, NoNewWriter
  <2>6. CASE NoSpawn(c)
    BY <1>0, <1>c, <2>0, <2>6 DEF NoSpawn, IdleThread, NoNewWriter
  <2>7. CASE ResolveApprove(c)
    BY <1>a, <1>c, <2>0, <2>7 DEF ResolveApprove
  <2>8. CASE ResolveDeny(c)
    BY <1>b, <1>c, <2>0, <2>8 DEF ResolveDeny
  <2>9. CASE ResolveExecute(c)
    BY <1>a, <1>c, <2>0, <2>9 DEF ResolveExecute
  <2>10. CASE ResolveRefused(c)
    BY <1>b, <1>c, <2>0, <2>10 DEF ResolveRefused
  <2>11. CASE ResolveResult(c)
    BY <1>a, <1>c, <2>0, <2>11 DEF ResolveResult
  <2>12. CASE ResolveMove(c)
    BY <1>a, <1>b, <1>c, <2>0, <2>12 DEF ResolveMove
  <2>13. QED
    BY <1>4, <2>1, <2>2, <2>3, <2>4, <2>5, <2>6, <2>7, <2>8, <2>9, <2>10, <2>11, <2>12
       DEF ClientContinue
<1>5. ASSUME NEW p \in Processes, Crash(p)
      PROVE  RowKept /\ NoNewWriter
  BY <1>0, <1>c, <1>5 DEF Crash, IdleThread, NoNewWriter
<1>6. ASSUME UNCHANGED vars PROVE RowKept /\ NoNewWriter
  BY <1>c, <1>e, <1>6 DEF vars
<1>7. QED
  BY <1>1, <1>2, <1>3, <1>4, <1>5, <1>6 DEF Next, Transition

\* A state a task may be paused in is one it may be resumed to.
LEMMA PauseEdge ==
  ASSUME NEW s \in States, CanTransitionTo(s, "Paused")
  PROVE  s # None /\ CanTransitionTo("Paused", s)
BY DEF CanTransitionTo, DomainEdges, States, Terminal, None

\* A paused row always remembers a state `resume` may legally return to,
\* whatever threads, requests and crashes interleave in it: every writer
\* computes paused_from from a state it tested as one that may be paused.
THEOREM PausedCanAlwaysResume == Spec => []PausedCanResume
<1>1. Init => PausedCanResume /\ WriteIsLegal
  BY DEF Init, PausedCanResume, WriteIsLegal, IdleThread
<1>2. TypeOK /\ PausedCanResume /\ WriteIsLegal /\ [Next]_vars
        => PausedCanResume' /\ WriteIsLegal'
  <2> SUFFICES ASSUME TypeOK, PausedCanResume, WriteIsLegal, [Next]_vars
               PROVE  PausedCanResume' /\ WriteIsLegal'
    OBVIOUS
  <2>0. /\ th \in [Threads -> Thread]
        /\ row \in [state : States, from : States \union {None}, signal : Signals]
        /\ \A t \in Threads : th[t].state \in States
    BY DEF TypeOK, Thread
  <2>1. ASSUME NEW t \in Threads, TransitionRead(t)
        PROVE  PausedCanResume' /\ WriteIsLegal'
    <3>1. PausedCanResume'
      BY <2>1 DEF TransitionRead, PausedCanResume
    <3>2. ASSUME LegalMove(row, th[t].to),
                 th' = [th EXCEPT ![t].pc = "t_write", ![t].state = row.state, ![t].from = row.from]
          PROVE  WriteIsLegal'
      BY <2>0, <3>2 DEF WriteIsLegal, LegalMove, Thread
    <3>3. ASSUME th' = [th EXCEPT ![t] = [IdleThread EXCEPT !.pc = AfterError(t)]]
          PROVE  WriteIsLegal'
      BY <2>0, <3>3 DEF WriteIsLegal, IdleThread, AfterError
    <3>4. QED
      BY <2>1, <3>1, <3>2, <3>3 DEF TransitionRead
  <2>2. ASSUME NEW t \in Threads, TransitionWrite(t)
        PROVE  PausedCanResume' /\ WriteIsLegal'
    <3>1. CanTransitionTo(th[t].state, th[t].to)
      BY <2>2 DEF WriteIsLegal, TransitionWrite, LegalMove
    <3>2. row' = NewRow(t)
      BY <2>2 DEF TransitionWrite
    <3>3. PausedCanResume'
      BY <2>0, <3>1, <3>2, PauseEdge DEF PausedCanResume, NewRow
    <3>4. WriteIsLegal'
      BY <2>0, <2>2 DEF TransitionWrite, Goto, WriteIsLegal
    <3>5. QED
      BY <3>3, <3>4
  <2>3. ASSUME RowKept, NoNewWriter
        PROVE  PausedCanResume' /\ WriteIsLegal'
    BY <2>3 DEF RowKept, NoNewWriter, PausedCanResume, WriteIsLegal
  <2>4. QED
    BY <2>1, <2>2, <2>3, Frame
<1>3. QED
  BY <1>1, <1>2, TypeCorrect, PTL DEF Spec

-----------------------------------------------------------------------------
(* What holds when clients only pause and cancel a task somebody works on. *)

\* One thread at a time has work to do.
AtMostOne ==
  \A t, u \in Threads : th[t].pc # "idle" /\ th[u].pc # "idle" => t = u

\* What a writer has read is what it overwrites.
ReadIsCurrent ==
  \A t \in Threads : th[t].pc = "t_write" =>
    th[t].state = row.state /\ th[t].from = row.from

Others(t) == \A u \in Threads \ {t} : th'[u] = th[u]

\* What one step may do to the threads: a working thread moves on, hands
\* over to a driver, or dies with its process; or, when nobody works or the
\* request may be made meanwhile, a client begins.
LEMMA Movers ==
  ASSUME TypeOK, [Next]_vars, Contended \subseteq {"pause", "cancel"}
  PROVE  \/ \E t \in Threads : (Quiet \/ th[t].pc # "idle") /\ Others(t)
         \/ \E t, u \in Threads : /\ th[t].pc # "idle"
                                  /\ th' = [th EXCEPT ![t] = IdleThread, ![u] = [IdleThread EXCEPT !.pc = "top"]]
         \/ \A t \in Threads : th'[t] = th[t] \/ th'[t].pc = "idle"
<1>0. th \in [Threads -> Thread]
  BY DEF TypeOK
<1>a. ASSUME NEW t \in Threads, NEW pc, Goto(t, pc) PROVE Others(t)
  BY <1>0, <1>a DEF Goto, Others
<1>b. ASSUME NEW t \in Threads, NEW to, NEW then, Call(t, to, then) PROVE Others(t)
  BY <1>0, <1>b DEF Call, Others
<1>1. ASSUME NEW t \in Threads, Transition(t)
      PROVE  th[t].pc # "idle" /\ Others(t)
  <2>1. CASE TransitionRead(t)
    BY <1>0, <2>1 DEF TransitionRead, Others
  <2>2. CASE TransitionWrite(t)
    BY <1>a, <2>2 DEF TransitionWrite
  <2>3. CASE TransitionJournal(t)
    BY <1>0, <2>3 DEF TransitionJournal, Others
  <2>4. QED
    BY <1>1, <2>1, <2>2, <2>3 DEF Transition
<1>2. ASSUME NEW d \in Drivers, DriverNext(d)
      PROVE  d \in Threads /\ th[d].pc # "idle" /\ Others(d)
  <2>0. d \in Threads
    BY ThreadKinds
  <2>1. CASE DriverTop(d)
    <3>1. ASSUME th' = [th EXCEPT ![d].pc = "step", ![d].state = row.state]
          PROVE  Others(d)
      BY <1>0, <3>1 DEF Others
    <3>2. QED
      BY <1>a, <1>b, <2>0, <2>1, <3>1 DEF DriverTop
  <2>2. CASE DriverStep(d)
    BY <1>b, <2>0, <2>2 DEF DriverStep
  <2>3. CASE DriverStay(d)
    BY <1>a, <2>0, <2>3 DEF DriverStay
  <2>4. CASE DriverFault(d)
    BY <1>a, <2>0, <2>4 DEF DriverFault
  <2>5. CASE DriverError(d)
    BY <1>a, <1>b, <2>0, <2>5 DEF DriverError
  <2>6. CASE DriverDone(d)
    BY <1>0, <2>0, <2>6 DEF DriverDone, Others
  <2>7. QED
    BY <1>2, <2>1, <2>2, <2>3, <2>4, <2>5, <2>6 DEF DriverNext
<1>3. ASSUME NEW c \in Clients, Request(c)
      PROVE  c \in Threads /\ (Quiet \/ th' = th) /\ Others(c)
  <2>0. c \in Threads
    BY ThreadKinds
  <2>1. CASE RequestPause(c) \/ RequestCancel(c)
    BY <2>0, <2>1 DEF RequestPause, RequestCancel, Others
  <2>2. CASE ResumeBegin(c)
    BY <1>a, <2>0, <2>2 DEF ResumeBegin, MayRequest
  <2>3. CASE ResolveBegin(c)
    BY <1>a, <2>0, <2>3 DEF ResolveBegin, MayRequest
  <2>4. CASE Respond(c)
    BY <1>b, <2>0, <2>4 DEF Respond, MayRequest
  <2>5. QED
    BY <1>3, <2>1, <2>2, <2>3, <2>4 DEF Request
<1>4. ASSUME NEW c \in Clients, ClientContinue(c), ~Spawn(c)
      PROVE  c \in Threads /\ th[c].pc # "idle" /\ Others(c)
  <2>0. c \in Threads
    BY ThreadKinds
  <2>1. CASE RecoverPause(c)
    BY <1>0, <2>0, <2>1 DEF RecoverPause, Others
  <2>2. CASE RecoverRearm(c)
    BY <1>0, <2>0, <2>2 DEF RecoverRearm, Others
  <2>3. CASE ResumeMove(c)
    BY <1>0, <2>0, <2>3 DEF ResumeMove, Others
  <2>4. CASE ResumeRearm(c)
    BY <1>0, <2>0, <2>4 DEF ResumeRearm, Others
  <2>5. CASE NoSpawn(c)
    BY <1>0, <2>0, <2>5 DEF NoSpawn, Others
  <2>6. CASE ResolveApprove(c)
    BY <1>a, <2>0, <2>6 DEF ResolveApprove
  <2>7. CASE ResolveDeny(c)
    BY <1>b, <2>0, <2>7 DEF ResolveDeny
  <2>8. CASE ResolveExecute(c)
    BY <1>a, <2>0, <2>8 DEF ResolveExecute
  <2>9. CASE ResolveRefused(c)
    BY <1>b, <2>0, <2>9 DEF ResolveRefused
  <2>10. CASE ResolveResult(c)
    BY <1>a, <2>0, <2>10 DEF ResolveResult
  <2>11. CASE ResolveMove(c)
    BY <1>a, <1>b, <2>0, <2>11 DEF ResolveMove
  <2>12. QED
    BY <1>4, <2>1, <2>2, <2>3, <2>4, <2>5, <2>6, <2>7, <2>8, <2>9, <2>10, <2>11 DEF ClientContinue
<1>5. ASSUME NEW c \in Clients, Spawn(c)
      PROVE  \E t, u \in Threads :
               /\ th[t].pc # "idle"
               /\ th' = [th EXCEPT ![t] = IdleThread, ![u] = [IdleThread EXCEPT !.pc = "top"]]
  BY <1>5, ThreadKinds DEF Spawn
<1>6. ASSUME NEW p \in Processes, Crash(p)
      PROVE  \A t \in Threads : th'[t] = th[t] \/ th'[t].pc = "idle"
  BY <1>6 DEF Crash, IdleThread
<1>7. ASSUME UNCHANGED vars
      PROVE  \A t \in Threads : th'[t] = th[t]
  BY <1>7 DEF vars
<1>8. QED
  BY <1>1, <1>2, <1>3, <1>4, <1>5, <1>6, <1>7, ThreadKinds DEF Next

\* A step keeps the threads exclusive.
LEMMA AtMostOneKept ==
  ASSUME TypeOK, AtMostOne, [Next]_vars, Contended \subseteq {"pause", "cancel"}
  PROVE  AtMostOne'
<1>0. th \in [Threads -> Thread]
  BY DEF TypeOK
<1>1. ASSUME NEW t \in Threads, Quiet \/ th[t].pc # "idle", Others(t)
      PROVE  AtMostOne'
  BY <1>1 DEF AtMostOne, Others, Quiet
<1>2. ASSUME NEW t \in Threads, NEW u \in Threads, th[t].pc # "idle",
             th' = [th EXCEPT ![t] = IdleThread, ![u] = [IdleThread EXCEPT !.pc = "top"]]
      PROVE  AtMostOne'
  <2>1. \A v \in Threads \ {u} : th'[v].pc = "idle"
    BY <1>0, <1>2 DEF AtMostOne, IdleThread
  <2>2. QED
    BY <2>1 DEF AtMostOne
<1>3. ASSUME \A t \in Threads : th'[t] = th[t] \/ th'[t].pc = "idle"
      PROVE  AtMostOne'
  BY <1>3 DEF AtMostOne
<1>4. QED
  BY <1>1, <1>2, <1>3, Movers

\* Who writes still overwrites what it has read.
LEMMA SerialKept ==
  ASSUME TypeOK, WriteIsLegal, AtMostOne, ReadIsCurrent, [Next]_vars,
         Contended \subseteq {"pause", "cancel"}
  PROVE  WriteIsLegal' /\ AtMostOne' /\ ReadIsCurrent'
<1>0. th \in [Threads -> Thread]
  BY DEF TypeOK
<1>1. AtMostOne'
  BY AtMostOneKept
<1>2. ASSUME NEW t \in Threads, TransitionRead(t)
      PROVE  WriteIsLegal' /\ ReadIsCurrent'
  <2>1. ASSUME LegalMove(row, th[t].to),
               th' = [th EXCEPT ![t].pc = "t_write", ![t].state = row.state, ![t].from = row.from]
        PROVE  WriteIsLegal' /\ ReadIsCurrent'
    BY <1>0, <1>2, <2>1 DEF TransitionRead, WriteIsLegal, ReadIsCurrent, LegalMove, Thread
  <2>2. ASSUME th' = [th EXCEPT ![t] = [IdleThread EXCEPT !.pc = AfterError(t)]]
        PROVE  WriteIsLegal' /\ ReadIsCurrent'
    BY <1>0, <1>2, <2>2
       DEF TransitionRead, WriteIsLegal, ReadIsCurrent, IdleThread, AfterError
  <2>3. QED
    BY <1>2, <2>1, <2>2 DEF TransitionRead
<1>3. ASSUME NEW t \in Threads, TransitionWrite(t)
      PROVE  WriteIsLegal' /\ ReadIsCurrent'
  <2>1. \A u \in Threads : th'[u].pc # "t_write"
    <3>1. \A u \in Threads \ {t} : th[u].pc = "idle" /\ th'[u] = th[u]
      BY <1>0, <1>3 DEF TransitionWrite, AtMostOne, Goto
    <3>2. th'[t].pc = "t_journal"
      BY <1>0, <1>3 DEF TransitionWrite, Goto, Thread
    <3>3. QED
      BY <3>1, <3>2
  <2>2. QED
    BY <2>1 DEF WriteIsLegal, ReadIsCurrent
<1>4. ASSUME RowKept, NoNewWriter
      PROVE  WriteIsLegal' /\ ReadIsCurrent'
  BY <1>4 DEF RowKept, NoNewWriter, WriteIsLegal, ReadIsCurrent
<1>5. QED
  BY <1>1, <1>2, <1>3, <1>4, Frame

LEMMA Serial ==
  ASSUME Contended \subseteq {"pause", "cancel"}
  PROVE  Spec => [](TypeOK /\ WriteIsLegal /\ AtMostOne /\ ReadIsCurrent)
<1>1. Init => WriteIsLegal /\ AtMostOne /\ ReadIsCurrent
  BY DEF Init, WriteIsLegal, AtMostOne, ReadIsCurrent, IdleThread
<1>2. ASSUME TypeOK, WriteIsLegal, AtMostOne, ReadIsCurrent, [Next]_vars
      PROVE  WriteIsLegal' /\ AtMostOne' /\ ReadIsCurrent'
  BY <1>2, SerialKept
<1>3. QED
  BY <1>1, <1>2, TypeCorrect, PTL DEF Spec

-----------------------------------------------------------------------------
(* What an approval runs, under the same hypothesis.                       *)

LEMMA Went ==
  ASSUME TypeOK, NEW t \in Threads, NEW pc, Goto(t, pc)
  PROVE  /\ th'[t].pc = pc /\ th'[t].state = th[t].state /\ th'[t].from = th[t].from
         /\ th'[t].to = th[t].to /\ th'[t].then = th[t].then /\ th'[t].sig = th[t].sig
         /\ Others(t)
BY DEF TypeOK, Thread, Goto, Others

LEMMA Called ==
  ASSUME TypeOK, NEW t \in Threads, NEW to, NEW then, Call(t, to, then)
  PROVE  /\ th'[t].pc = "t_get" /\ th'[t].to = to /\ th'[t].then = then
         /\ th'[t].sig = th[t].sig
         /\ Others(t)
BY DEF TypeOK, Thread, Call, Others

\* A runtime call that saves or drops a signal on its way.
LEMMA Saved ==
  ASSUME TypeOK, NEW t \in Threads, NEW to, NEW then, NEW sig,
         th' = [th EXCEPT ![t].pc = "t_get", ![t].to = to, ![t].then = then, ![t].sig = sig]
  PROVE  /\ th'[t].pc = "t_get" /\ th'[t].to = to /\ th'[t].then = then /\ th'[t].sig = sig
         /\ Others(t)
BY DEF TypeOK, Thread, Others

LEMMA WentSaving ==
  ASSUME TypeOK, NEW t \in Threads, NEW pc, NEW sig,
         th' = [th EXCEPT ![t].pc = pc, ![t].sig = sig]
  PROVE  th'[t].pc = pc /\ th'[t].sig = sig /\ th'[t].then = th[t].then /\ Others(t)
BY DEF TypeOK, Thread, Others

\* Starting afresh: a thread ends, or an error or a return leaves it at `pc`.
LEMMA Restarted ==
  ASSUME TypeOK, NEW t \in Threads, NEW pc, NEW sig,
         th' = [th EXCEPT ![t] = [IdleThread EXCEPT !.pc = pc, !.sig = sig]]
  PROVE  th'[t].pc = pc /\ th'[t].sig = sig /\ Others(t)
BY DEF TypeOK, IdleThread, Others

LEMMA Ended ==
  ASSUME TypeOK, NEW t \in Threads, th' = [th EXCEPT ![t] = IdleThread]
  PROVE  th'[t].pc = "idle" /\ Others(t)
BY DEF TypeOK, IdleThread, Others

\* The thread at work is alone.
LEMMA Alone ==
  ASSUME AtMostOne, NEW t \in Threads, th[t].pc # "idle"
  PROVE  \A u \in Threads \ {t} : th[u].pc = "idle"
BY DEF AtMostOne

\* Only an open prompt is executed, and until its call has run it has run no
\* more often than processes were killed.
CallsCounted ==
  /\ ran <= 1 + crashes
  /\ \A t \in Threads : th[t].pc \in {"pm_exec", "pm_result"} => ask = "open"
  /\ ask = "open" /\ (\A t \in Threads : th[t].pc # "pm_result") => ran <= crashes

LEMMA CallsStayCounted ==
  ASSUME TypeOK, AtMostOne, CallsCounted, [Next]_vars,
         Contended \subseteq {"pause", "cancel"}
  PROVE  CallsCounted'
<1>0. /\ ran \in Nat /\ crashes \in Nat
      /\ \A t \in Threads : th[t].then \in Returns
  BY DEF TypeOK, Thread
<1>a. ASSUME NEW t \in Threads, th[t].pc # "idle" \/ Quiet, Others(t),
             ran' <= 1 + crashes',
             th'[t].pc \in {"pm_exec", "pm_result"} => ask' = "open",
             ask' = "open" /\ th'[t].pc # "pm_result" => ran' <= crashes'
      PROVE  CallsCounted'
  <2>1. \A u \in Threads \ {t} : th'[u].pc = "idle"
    BY <1>a, Alone DEF Others, Quiet
  <2>2. QED
    BY <1>a, <2>1 DEF CallsCounted
<1>b. ASSUME NEW t \in Threads, th[t].pc # "idle" \/ Quiet, th[t].pc # "pm_result", ask = "open"
      PROVE  ran <= crashes
  <2>1. \A u \in Threads \ {t} : th[u].pc = "idle"
    BY <1>b, Alone DEF Quiet
  <2>2. QED
    BY <1>b, <2>1 DEF CallsCounted
\* A step that neither runs a call nor touches the prompt.
<1>c. ASSUME NEW t \in Threads, th[t].pc # "idle" \/ Quiet, th[t].pc # "pm_result",
             Others(t), th'[t].pc \notin {"pm_exec", "pm_result"},
             ask' = ask \/ ask' = "none", ran' = ran, crashes' = crashes
      PROVE  CallsCounted'
  BY <1>a, <1>b, <1>c DEF CallsCounted
<1>1. ASSUME NEW t \in Threads, Transition(t)
      PROVE  CallsCounted'
  <2>1. CASE TransitionRead(t)
    <3>1. ASSUME th' = [th EXCEPT ![t].pc = "t_write", ![t].state = row.state, ![t].from = row.from]
          PROVE  th'[t].pc = "t_write" /\ Others(t)
      BY <3>1 DEF TypeOK, Thread, Others
    <3>2. ASSUME th' = [th EXCEPT ![t] = [IdleThread EXCEPT !.pc = AfterError(t)]]
          PROVE  th'[t].pc \in {"idle", "fin", "err"} /\ Others(t)
      BY <3>2 DEF TypeOK, IdleThread, AfterError, Others
    <3>3. th'[t].pc \notin {"pm_exec", "pm_result"} /\ Others(t)
      BY <2>1, <3>1, <3>2 DEF TransitionRead
    <3>4. QED
      BY <1>c, <2>1, <3>3 DEF TransitionRead
  <2>2. CASE TransitionWrite(t)
    BY <1>c, <2>2, Went DEF TransitionWrite
  <2>3. CASE TransitionJournal(t)
    <3>1. th'[t].pc = th[t].then /\ Others(t)
      BY <2>3, Restarted DEF TransitionJournal
    <3>2. th'[t].pc \notin {"pm_exec", "pm_result"}
      BY <1>0, <3>1 DEF Returns
    <3>3. QED
      BY <1>c, <2>3, <3>1, <3>2 DEF TransitionJournal
  <2>4. QED
    BY <1>1, <2>1, <2>2, <2>3 DEF Transition
<1>2. ASSUME NEW d \in Drivers, DriverNext(d)
      PROVE  CallsCounted'
  <2>0. d \in Threads
    BY ThreadKinds
  <2>1. CASE DriverTop(d)
    <3>1. ASSUME th' = [th EXCEPT ![d].pc = "step", ![d].state = row.state]
          PROVE  th'[d].pc = "step" /\ Others(d)
      BY <2>0, <3>1 DEF TypeOK, Thread, Others
    <3>2. th'[d].pc \notin {"pm_exec", "pm_result"} /\ Others(d)
      BY <2>0, <2>1, <3>1, Went, Called DEF DriverTop
    <3>3. QED
      BY <1>c, <2>0, <2>1, <3>2 DEF DriverTop
  <2>2. CASE DriverStep(d)
    <3>1. PICK to \in StepTargets(th[d].state) :
            /\ Call(d, to, IF ReturnsFromRun(th[d].state, to) THEN "exit" ELSE "top")
            /\ ask' \in AskAfter(th[d].state, to, ask)
            /\ ran' = IF to = "WaitingForPermission" THEN 0 ELSE ran
      BY <2>2 DEF DriverStep
    <3>2. th[d].pc = "step" /\ crashes' = crashes
      BY <2>2 DEF DriverStep
    <3>3. th'[d].pc = "t_get" /\ Others(d)
      BY <2>0, <3>1, Called
    <3>4. CASE to = "WaitingForPermission"
      BY <1>0, <1>a, <2>0, <3>1, <3>2, <3>3, <3>4
    <3>5. CASE to # "WaitingForPermission"
      <4>1. ask' = ask \/ ask' = "none"
        BY <3>1, <3>5 DEF AskAfter
      <4>2. QED
        BY <1>c, <2>0, <3>1, <3>2, <3>3, <3>5, <4>1
    <3>6. QED
      BY <3>4, <3>5
  <2>3. CASE DriverStay(d)
    <3>1. ask' = ask \/ ask' = "none"
      BY <2>3 DEF DriverStay, AskAfter
    <3>2. QED
      BY <1>c, <2>0, <2>3, <3>1, Went DEF DriverStay
  <2>4. CASE DriverFault(d)
    BY <1>c, <2>0, <2>4, Went DEF DriverFault
  <2>5. CASE DriverError(d)
    <3>1. th'[d].pc \in {"fin", "t_get"} /\ Others(d)
      BY <2>0, <2>5, Went, Called DEF DriverError
    <3>2. QED
      BY <1>c, <2>0, <2>5, <3>1 DEF DriverError
  <2>6. CASE DriverDone(d)
    BY <1>c, <2>0, <2>6, Ended DEF DriverDone
  <2>7. QED
    BY <1>2, <2>1, <2>2, <2>3, <2>4, <2>5, <2>6 DEF DriverNext
<1>3. ASSUME NEW c \in Clients, Request(c)
      PROVE  CallsCounted'
  <2>0. c \in Threads
    BY ThreadKinds
  <2>1. CASE RequestPause(c) \/ RequestCancel(c)
    BY <2>1 DEF RequestPause, RequestCancel, CallsCounted
  <2>2. CASE ResumeBegin(c)
    <3>1. th'[c].pc \in {"rs_get", "rc_pending"} /\ Others(c) /\ Quiet /\ th[c].pc = "idle"
      BY <2>0, <2>2, Went DEF ResumeBegin, MayRequest
    <3>2. QED
      BY <1>c, <2>0, <2>2, <3>1 DEF ResumeBegin
  <2>3. CASE ResolveBegin(c)
    <3>1. th'[c].pc = "pm_pending" /\ Others(c) /\ Quiet /\ th[c].pc = "idle"
      BY <2>0, <2>3, Went DEF ResolveBegin, MayRequest
    <3>2. QED
      BY <1>c, <2>0, <2>3, <3>1 DEF ResolveBegin
  <2>4. CASE Respond(c)
    <3>1. th'[c].pc = "t_get" /\ Others(c) /\ Quiet /\ th[c].pc = "idle"
      BY <2>0, <2>4, Called DEF Respond, MayRequest
    <3>2. QED
      BY <1>c, <2>0, <2>4, <3>1 DEF Respond
  <2>5. QED
    BY <1>3, <2>1, <2>2, <2>3, <2>4 DEF Request
<1>4. ASSUME NEW c \in Clients, ClientContinue(c)
      PROVE  CallsCounted'
  <2>0. c \in Threads
    BY ThreadKinds
  <2>1. CASE RecoverPause(c)
    BY <1>c, <2>0, <2>1, Saved DEF RecoverPause
  <2>2. CASE RecoverRearm(c)
    <3>1. th' = [th EXCEPT ![c].pc = "rs_get", ![c].sig = None]
      BY <2>2 DEF RecoverRearm
    <3>2. th'[c].pc = "rs_get" /\ Others(c)
      BY <2>0, <3>1, WentSaving
    <3>3. QED
      BY <1>c, <2>0, <2>2, <3>2 DEF RecoverRearm
  <2>3. CASE ResumeMove(c)
    <3>1. ASSUME th' = [th EXCEPT ![c].pc = "t_get", ![c].to = row.from, ![c].then = "rs_rearm",
                                  ![c].sig = row.signal]
          PROVE  th'[c].pc = "t_get" /\ Others(c)
      BY <2>0, <3>1, Saved
    <3>2. ASSUME th' = [th EXCEPT ![c].pc = "rs_rearm", ![c].sig = row.signal]
          PROVE  th'[c].pc = "rs_rearm" /\ Others(c)
      BY <2>0, <3>2, WentSaving
    <3>3. th'[c].pc \in {"t_get", "rs_rearm"} /\ Others(c)
      BY <2>3, <3>1, <3>2 DEF ResumeMove
    <3>4. QED
      BY <1>c, <2>0, <2>3, <3>3 DEF ResumeMove
  <2>4. CASE ResumeRearm(c)
    <3>1. th' = [th EXCEPT ![c].pc = "spawn", ![c].sig = None]
      BY <2>4 DEF ResumeRearm
    <3>2. th'[c].pc = "spawn" /\ Others(c)
      BY <2>0, <3>1, WentSaving
    <3>3. QED
      BY <1>c, <2>0, <2>4, <3>2 DEF ResumeRearm
  <2>5. CASE Spawn(c)
    <3>1. PICK d \in Drivers :
            th' = [th EXCEPT ![c] = IdleThread, ![d] = [IdleThread EXCEPT !.pc = "top"]]
      BY <2>5 DEF Spawn
    <3>2. \A u \in Threads : th'[u].pc \in {"idle", "top"}
      <4>1. \A u \in Threads \ {c} : th[u].pc = "idle"
        BY <2>0, <2>5, Alone DEF Spawn
      <4>2. QED
        BY <2>0, <3>1, <4>1 DEF TypeOK, IdleThread
    <3>3. ask = "open" => ran <= crashes
      BY <1>b, <2>0, <2>5 DEF Spawn
    <3>4. QED
      BY <2>5, <3>2, <3>3 DEF Spawn, CallsCounted
  <2>6. CASE NoSpawn(c)
    BY <1>c, <2>0, <2>6, Ended DEF NoSpawn
  <2>7. CASE ResolveApprove(c)
    <3>1. th'[c].pc = (IF ask = "open" THEN "pm_exec" ELSE "idle") /\ Others(c)
      BY <2>0, <2>7, Went DEF ResolveApprove
    <3>2. ask = "open" => ran <= crashes
      BY <1>b, <2>0, <2>7 DEF ResolveApprove
    <3>3. QED
      BY <1>a, <2>0, <2>7, <3>1, <3>2 DEF ResolveApprove, CallsCounted
  <2>8. CASE ResolveDeny(c)
    BY <1>c, <2>0, <2>8, Called DEF ResolveDeny
  <2>9. CASE ResolveExecute(c)
    <3>1. th'[c].pc = "pm_result" /\ Others(c)
      BY <2>0, <2>9, Went DEF ResolveExecute
    <3>2. ask = "open" /\ ran <= crashes
      BY <1>b, <2>0, <2>9 DEF ResolveExecute, CallsCounted
    <3>3. ran' = ran + 1 /\ crashes' = crashes /\ ask' = ask /\ th[c].pc # "idle"
      BY <2>9 DEF ResolveExecute
    <3>4. ran' <= 1 + crashes'
      BY <1>0, <3>2, <3>3
    <3>5. QED
      BY <1>a, <2>0, <3>1, <3>2, <3>3, <3>4
  <2>10. CASE ResolveRefused(c)
    BY <1>c, <2>0, <2>10, Called DEF ResolveRefused
  <2>11. CASE ResolveResult(c)
    <3>1. th'[c].pc = "pm_get" /\ Others(c)
      BY <2>0, <2>11, Went DEF ResolveResult
    <3>2. QED
      BY <1>a, <2>0, <2>11, <3>1 DEF ResolveResult, CallsCounted
  <2>12. CASE ResolveMove(c)
    <3>1. th'[c].pc \in {"t_get", "spawn_live"} /\ Others(c)
      BY <2>0, <2>12, Went, Called DEF ResolveMove
    <3>2. QED
      BY <1>c, <2>0, <2>12, <3>1 DEF ResolveMove
  <2>13. QED
    BY <1>4, <2>1, <2>2, <2>3, <2>4, <2>5, <2>6, <2>7, <2>8, <2>9, <2>10, <2>11, <2>12
       DEF ClientContinue
<1>5. ASSUME NEW p \in Processes, Crash(p)
      PROVE  CallsCounted'
  <2>1. crashes' = crashes + 1 /\ ran' = ran /\ ask' = ask
    BY <1>5 DEF Crash
  <2>2. ran' <= crashes' /\ ran' <= 1 + crashes'
    BY <1>0, <2>1 DEF CallsCounted
  <2>3. \A t \in Threads : th'[t] = th[t] \/ th'[t].pc = "idle"
    BY <1>5 DEF Crash, IdleThread
  <2>4. QED
    BY <2>1, <2>2, <2>3 DEF CallsCounted
<1>6. ASSUME UNCHANGED vars PROVE CallsCounted'
  BY <1>6 DEF vars, CallsCounted
<1>7. QED
  BY <1>1, <1>2, <1>3, <1>4, <1>5, <1>6 DEF Next

\* An approval runs its call once, and once more at most for each process
\* killed between the call and its TOOL_RESULT, if no two clients answer the
\* same prompt at a time: two that do both find it open and both run it.
THEOREM ApprovalsRunOnce ==
  ASSUME Contended \subseteq {"pause", "cancel"}
  PROVE  Spec => []ApprovedCallRunsOnce
<1>1. Init => CallsCounted
  BY DEF Init, CallsCounted, IdleThread
<1>2. ASSUME TypeOK, AtMostOne, CallsCounted, [Next]_vars
      PROVE  CallsCounted'
  BY <1>2, CallsStayCounted
<1>3. CallsCounted => ApprovedCallRunsOnce
  BY DEF CallsCounted, ApprovedCallRunsOnce
<1>4. QED
  BY <1>1, <1>2, <1>3, Serial, PTL DEF Spec

-----------------------------------------------------------------------------
(* When a task waits with nothing to answer, under the same hypothesis.    *)

\* The task waits for an answer, or was paused while it did.
Waits ==
  \/ row.state = "WaitingForPermission"
  \/ row.state = "Paused" /\ row.from = "WaitingForPermission"

\* A step runs in the state the row still has.
StepsInState ==
  \A t \in Threads : th[t].pc = "step" =>
    th[t].state = row.state /\ row.state \notin StableWithoutDriver

\* Until the answer moves the task on, it waits.
AnswersAWaiting ==
  \A t \in Threads : th[t].pc \in {"pm_pending", "pm_exec", "pm_result"} =>
    row.state = "WaitingForPermission"

\* Nobody moves a task into its wait without a prompt, but for a resume.
PromptFirst ==
  \A t \in Threads :
    th[t].pc \in {"t_get", "t_write"} /\ th[t].to = "WaitingForPermission" =>
      ask = "open" \/ Waits

\* The answer is in hand and will move the task out of its wait.
Answering(t) ==
  /\ row.state = "WaitingForPermission"
  /\ th[t].pc \in {"pm_get", "t_get", "t_write"}
  /\ th[t].pc # "pm_get" => th[t].to \in {"Failed", "Implementing"}

\* OnlyStaleCacheBlocks between the steps: a wait without its prompt is being
\* ended, or some process's map has outlived its repair loop.
WaitsForSomething ==
  crashes = 0 /\ Waits /\ ask # "open" =>
    (\E p \in Processes : cached[p]) \/ (\E t \in Threads : Answering(t))

AnswerInv == StepsInState /\ AnswersAWaiting /\ PromptFirst /\ WaitsForSomething

\* The move an answer makes is one the table has.
LEMMA AnswerIsLegal ==
  ASSUME row.state = "WaitingForPermission", NEW to \in {"Failed", "Implementing"}
  PROVE  LegalMove(row, to)
BY DEF LegalMove, CanTransitionTo, DomainEdges, Terminal

LEMMA AnswerInvKept ==
  ASSUME TypeOK, AtMostOne, ReadIsCurrent, AnswerInv, [Next]_vars,
         Contended \subseteq {"pause", "cancel"}
  PROVE  AnswerInv'
<1>0. /\ crashes \in Nat
      /\ \A t \in Threads : th[t].then \in Returns
      /\ row \in [state : States, from : States \union {None}, signal : Signals]
      /\ cached \in [Processes -> BOOLEAN]
  BY DEF TypeOK, Thread
<1>w. ASSUME RowKept PROVE Waits' <=> Waits
  BY <1>w DEF RowKept, Waits
<1>k. ASSUME UNCHANGED row PROVE RowKept
  BY <1>k DEF RowKept
<1>s. ASSUME NEW sig, SetSignal(sig) PROVE RowKept
  BY <1>0, <1>s DEF SetSignal, RowKept
\* Only the thread that moves has to be looked at.
<1>a. ASSUME NEW t \in Threads, th[t].pc # "idle" \/ Quiet, Others(t),
             th'[t].pc = "step" =>
               th'[t].state = row'.state /\ row'.state \notin StableWithoutDriver,
             th'[t].pc \in {"pm_pending", "pm_exec", "pm_result"} =>
               row'.state = "WaitingForPermission",
             th'[t].pc \in {"t_get", "t_write"} /\ th'[t].to = "WaitingForPermission" =>
               ask' = "open" \/ Waits',
             WaitsForSomething'
      PROVE  AnswerInv'
  <2>1. \A u \in Threads \ {t} : th'[u].pc = "idle"
    BY <1>a, Alone DEF Others, Quiet
  <2>2. StepsInState' /\ AnswersAWaiting'
    BY <1>a, <2>1 DEF StepsInState, AnswersAWaiting
  <2>3. PromptFirst'
    BY <1>a, <2>1 DEF PromptFirst
  <2>4. QED
    BY <1>a, <2>2, <2>3 DEF AnswerInv
\* Unless the one at work is answering, a wait without its prompt is a map's.
<1>m. ASSUME NEW t \in Threads, th[t].pc # "idle" \/ Quiet, ~Answering(t),
             crashes = 0, Waits, ask # "open"
      PROVE  \E p \in Processes : cached[p]
  <2>1. \A u \in Threads \ {t} : th[u].pc = "idle"
    BY <1>m, Alone DEF Quiet
  <2>2. \A u \in Threads : ~Answering(u)
    BY <1>m, <2>1 DEF Answering
  <2>3. QED
    BY <1>m, <2>2 DEF AnswerInv, WaitsForSomething
<1>b. ASSUME NEW t \in Threads, th[t].pc # "idle" \/ Quiet,
             th[t].pc \notin {"pm_get", "t_get", "t_write"}, Others(t),
             th'[t].pc \notin {"step", "pm_pending", "pm_exec", "pm_result"},
             th'[t].pc \in {"t_get", "t_write"} => th'[t].to # "WaitingForPermission",
             RowKept, UNCHANGED <<ask, cached, crashes>>
      PROVE  AnswerInv'
  <2>1. ~Answering(t)
    BY <1>b DEF Answering
  <2>2. crashes = 0 /\ Waits /\ ask # "open" => \E p \in Processes : cached[p]
    BY <1>b, <1>m, <2>1
  <2>3. WaitsForSomething'
    BY <1>b, <1>w, <2>2 DEF WaitsForSomething
  <2>4. QED
    BY <1>a, <1>b, <2>3
<1>1. ASSUME NEW t \in Threads, Transition(t)
      PROVE  AnswerInv'
  <2>1. CASE TransitionRead(t)
    <3>0. th[t].pc = "t_get" /\ UNCHANGED <<row, ask, cached, crashes>>
      BY <2>1 DEF TransitionRead
    <3>1. CASE LegalMove(row, th[t].to)
      <4>1. th'[t].pc = "t_write" /\ th'[t].to = th[t].to /\ Others(t)
        <5>1. th' = [th EXCEPT ![t].pc = "t_write", ![t].state = row.state, ![t].from = row.from]
          BY <2>1, <3>1 DEF TransitionRead
        <5>2. QED
          BY <5>1 DEF TypeOK, Thread, Others
      <4>2. th'[t].to = "WaitingForPermission" => ask' = "open" \/ Waits'
        BY <1>k, <1>w, <3>0, <4>1 DEF AnswerInv, PromptFirst
      <4>3. Answering(t) => Answering(t)'
        BY <3>0, <4>1 DEF Answering
      <4>4. ~Answering(t) /\ crashes = 0 /\ Waits /\ ask # "open" => \E p \in Processes : cached[p]
        BY <1>m, <3>0
      <4>5. WaitsForSomething'
        BY <1>k, <1>w, <3>0, <4>3, <4>4 DEF WaitsForSomething
      <4>6. QED
        BY <1>a, <3>0, <4>1, <4>2, <4>5
    <3>2. CASE ~LegalMove(row, th[t].to)
      <4>1. th'[t].pc \in {"idle", "fin", "err"} /\ Others(t)
        <5>1. th' = [th EXCEPT ![t] = [IdleThread EXCEPT !.pc = AfterError(t)]]
          BY <2>1, <3>2 DEF TransitionRead
        <5>2. QED
          BY <5>1 DEF TypeOK, IdleThread, AfterError, Others
      <4>2. ~Answering(t)
        BY <3>0, <3>2, AnswerIsLegal DEF Answering
      <4>3. crashes = 0 /\ Waits /\ ask # "open" => \E p \in Processes : cached[p]
        BY <1>m, <3>0, <4>2
      <4>4. WaitsForSomething'
        BY <1>k, <1>w, <3>0, <4>3 DEF WaitsForSomething
      <4>5. QED
        BY <1>a, <3>0, <4>1, <4>4
    <3>3. QED
      BY <3>1, <3>2
  <2>2. CASE TransitionWrite(t)
    <3>0. /\ th[t].pc = "t_write" /\ UNCHANGED <<ask, cached, crashes>>
          /\ row' = NewRow(t) /\ Goto(t, "t_journal")
      BY <2>2 DEF TransitionWrite
    <3>1. th'[t].pc = "t_journal" /\ Others(t)
      BY <3>0, Went
    <3>2. th[t].state = row.state
      BY <3>0 DEF ReadIsCurrent
    <3>3. Waits' => \/ th[t].to = "WaitingForPermission"
                    \/ th[t].to = "Paused" /\ row.state = "WaitingForPermission"
      BY <3>0, <3>2 DEF Waits, NewRow
    <3>4. ask # "open" /\ Waits' => Waits
      BY <3>0, <3>3 DEF Waits, AnswerInv, PromptFirst
    <3>5. Waits' => ~Answering(t)
      BY <3>0, <3>3 DEF Answering
    <3>6. crashes = 0 /\ Waits' /\ ask # "open" => \E p \in Processes : cached[p]
      BY <1>m, <3>0, <3>4, <3>5
    <3>7. WaitsForSomething'
      BY <3>0, <3>6 DEF WaitsForSomething
    <3>8. QED
      BY <1>a, <3>0, <3>1, <3>7
  <2>3. CASE TransitionJournal(t)
    <3>1. th'[t].pc = th[t].then /\ Others(t)
      BY <2>3, Restarted DEF TransitionJournal
    <3>2. th'[t].pc \notin {"step", "pm_pending", "pm_exec", "pm_result", "t_get", "t_write"}
      BY <1>0, <3>1 DEF Returns
    <3>3. QED
      BY <1>b, <1>k, <2>3, <3>1, <3>2 DEF TransitionJournal
  <2>4. QED
    BY <1>1, <2>1, <2>2, <2>3 DEF Transition
<1>2. ASSUME NEW d \in Drivers, DriverNext(d)
      PROVE  AnswerInv'
  <2>0. d \in Threads
    BY ThreadKinds
  \* A step finds its task in none of the waits.
  <2>a. ASSUME th[d].pc = "step" PROVE ~Waits
    BY <2>0, <2>a DEF AnswerInv, StepsInState, Waits, StableWithoutDriver
  <2>1. CASE DriverTop(d)
    <3>0. th[d].pc = "top" /\ UNCHANGED <<row, ask, crashes>>
      BY <2>1 DEF DriverTop
    <3>1. CASE UNCHANGED cached /\ (Call(d, "Cancelled", "exit") \/ Call(d, "Paused", "exit"))
      <4>1. th'[d].pc = "t_get" /\ th'[d].to \in {"Cancelled", "Paused"} /\ Others(d)
        BY <2>0, <3>1, Called
      <4>2. QED
        BY <1>b, <1>k, <2>0, <3>0, <3>1, <4>1
    <3>2. CASE Goto(d, "exit") /\ cached' = [cached EXCEPT ![Host[d]] = @ /\ row.state \notin Terminal]
      <4>1. th'[d].pc = "exit" /\ Others(d)
        BY <2>0, <3>2, Went
      <4>2. CASE row.state \in Terminal
        <5>1. ~Waits'
          BY <3>0, <4>2 DEF Waits, Terminal
        <5>2. QED
          BY <1>a, <2>0, <3>0, <4>1, <5>1 DEF WaitsForSomething
      <4>3. CASE row.state \notin Terminal
        <5>1. cached' = cached
          BY <1>0, <3>2, <4>3
        <5>2. QED
          BY <1>b, <1>k, <2>0, <3>0, <4>1, <5>1
      <4>4. QED
        BY <4>2, <4>3
    <3>3. CASE /\ row.state \notin StableWithoutDriver /\ UNCHANGED cached
               /\ th' = [th EXCEPT ![d].pc = "step", ![d].state = row.state]
      <4>1. th'[d].pc = "step" /\ th'[d].state = row.state /\ Others(d)
        BY <2>0, <3>3 DEF TypeOK, Thread, Others
      <4>2. ~Waits'
        BY <3>0, <3>3 DEF Waits, StableWithoutDriver
      <4>3. QED
        BY <1>a, <2>0, <3>0, <3>3, <4>1, <4>2 DEF WaitsForSomething
    <3>4. QED
      BY <2>1, <3>1, <3>2, <3>3 DEF DriverTop
  <2>2. CASE DriverStep(d)
    <3>1. PICK to \in StepTargets(th[d].state) :
            /\ Call(d, to, IF ReturnsFromRun(th[d].state, to) THEN "exit" ELSE "top")
            /\ ask' \in AskAfter(th[d].state, to, ask)
      BY <2>2 DEF DriverStep
    <3>2. th[d].pc = "step" /\ UNCHANGED row
      BY <2>2 DEF DriverStep
    <3>3. th'[d].pc = "t_get" /\ th'[d].to = to /\ Others(d)
      BY <2>0, <3>1, Called
    <3>4. to = "WaitingForPermission" => ask' = "open"
      <4>1. ASSUME to = "WaitingForPermission"
            PROVE  AskAfter(th[d].state, to, ask) = {"open"}
        BY <4>1, Zenon DEF AskAfter
      <4>2. QED
        BY <3>1, <4>1
    <3>5. ~Waits'
      BY <1>k, <1>w, <2>a, <3>2
    <3>6. QED
      BY <1>a, <2>0, <3>2, <3>3, <3>4, <3>5 DEF WaitsForSomething
  <2>3. CASE DriverStay(d)
    <3>1. th[d].pc = "step" /\ UNCHANGED row /\ th'[d].pc = "top" /\ Others(d)
      BY <2>0, <2>3, Went DEF DriverStay
    <3>2. ~Waits'
      BY <1>k, <1>w, <2>a, <3>1
    <3>3. QED
      BY <1>a, <2>0, <3>1, <3>2 DEF WaitsForSomething
  <2>4. CASE DriverFault(d)
    <3>1. th[d].pc = "step" /\ th'[d].pc = "err" /\ Others(d)
      BY <2>0, <2>4, Went DEF DriverFault
    <3>2. QED
      BY <1>b, <1>k, <2>0, <2>4, <3>1 DEF DriverFault
  <2>5. CASE DriverError(d)
    <3>1. /\ th[d].pc = "err" /\ Others(d)
          /\ th'[d].pc = "fin" \/ (th'[d].pc = "t_get" /\ th'[d].to = "Failed")
      BY <2>0, <2>5, Went, Called DEF DriverError
    <3>2. QED
      BY <1>b, <1>k, <2>0, <2>5, <3>1 DEF DriverError
  <2>6. CASE DriverDone(d)
    <3>1. th[d].pc \in {"exit", "fin"} /\ th'[d].pc = "idle" /\ Others(d)
      BY <2>0, <2>6, Ended DEF DriverDone
    <3>2. QED
      BY <1>b, <1>k, <2>0, <2>6, <3>1 DEF DriverDone
  <2>7. QED
    BY <1>2, <2>1, <2>2, <2>3, <2>4, <2>5, <2>6 DEF DriverNext
<1>3. ASSUME NEW c \in Clients, Request(c)
      PROVE  AnswerInv'
  <2>0. c \in Threads
    BY ThreadKinds
  <2>1. CASE RequestPause(c) \/ RequestCancel(c)
    <3>1. RowKept /\ UNCHANGED <<ask, cached, crashes, th>>
      BY <1>s, <2>1 DEF RequestPause, RequestCancel
    <3>2. StepsInState' /\ AnswersAWaiting'
      BY <3>1 DEF AnswerInv, StepsInState, AnswersAWaiting, RowKept
    <3>3. PromptFirst'
      BY <1>w, <3>1 DEF AnswerInv, PromptFirst
    <3>4. \A t \in Threads : Answering(t) => Answering(t)'
      BY <3>1 DEF Answering, RowKept
    <3>5. WaitsForSomething'
      BY <1>w, <3>1, <3>4 DEF AnswerInv, WaitsForSomething
    <3>6. QED
      BY <3>2, <3>3, <3>5 DEF AnswerInv
  <2>2. CASE ResumeBegin(c)
    <3>1. th'[c].pc \in {"rs_get", "rc_pending"} /\ Others(c) /\ Quiet /\ th[c].pc = "idle"
      BY <2>0, <2>2, Went DEF ResumeBegin, MayRequest
    <3>2. QED
      BY <1>b, <1>k, <2>0, <2>2, <3>1 DEF ResumeBegin
  <2>3. CASE ResolveBegin(c)
    <3>1. /\ th'[c].pc = "pm_pending" /\ Others(c) /\ Quiet /\ th[c].pc = "idle"
          /\ row.state = "WaitingForPermission" /\ UNCHANGED <<row, ask, cached, crashes>>
      BY <2>0, <2>3, Went DEF ResolveBegin, MayRequest
    <3>2. ~Answering(c)
      BY <3>1 DEF Answering
    <3>3. crashes = 0 /\ Waits /\ ask # "open" => \E p \in Processes : cached[p]
      BY <1>m, <2>0, <3>1, <3>2
    <3>4. WaitsForSomething'
      BY <1>k, <1>w, <3>1, <3>3 DEF WaitsForSomething
    <3>5. QED
      BY <1>a, <2>0, <3>1, <3>4
  <2>4. CASE Respond(c)
    <3>1. /\ th'[c].pc = "t_get" /\ th'[c].to = "Implementing" /\ Others(c)
          /\ Quiet /\ th[c].pc = "idle"
      BY <2>0, <2>4, Called DEF Respond, MayRequest
    <3>2. QED
      BY <1>b, <1>k, <2>0, <2>4, <3>1 DEF Respond
  <2>5. QED
    BY <1>3, <2>1, <2>2, <2>3, <2>4 DEF Request
<1>4. ASSUME NEW c \in Clients, ClientContinue(c)
      PROVE  AnswerInv'
  <2>0. c \in Threads
    BY ThreadKinds
  \* A call that will be answered for keeps what the wait hangs on.
  <2>a. ASSUME th[c].pc \in {"pm_pending", "pm_exec", "pm_result"}
        PROVE  row.state = "WaitingForPermission" /\ ~Answering(c)
    BY <2>0, <2>a DEF AnswerInv, AnswersAWaiting, Answering
  <2>b. ASSUME UNCHANGED row, Answering(c)' PROVE WaitsForSomething'
    BY <2>0, <2>b DEF WaitsForSomething
  <2>1. CASE RecoverPause(c)
    <3>1. th'[c].pc = "t_get" /\ th'[c].to = "Paused" /\ Others(c)
      BY <2>0, <2>1, Saved DEF RecoverPause
    <3>2. QED
      BY <1>b, <1>k, <2>0, <2>1, <3>1 DEF RecoverPause
  <2>2. CASE RecoverRearm(c)
    <3>1. th' = [th EXCEPT ![c].pc = "rs_get", ![c].sig = None]
      BY <2>2 DEF RecoverRearm
    <3>2. th'[c].pc = "rs_get" /\ Others(c)
      BY <2>0, <3>1, WentSaving
    <3>3. RowKept
      BY <1>k, <1>s, <2>2 DEF RecoverRearm
    <3>4. QED
      BY <1>b, <2>0, <2>2, <3>2, <3>3 DEF RecoverRearm
  <2>3. CASE ResumeMove(c)
    <3>0. th[c].pc = "rs_get" /\ UNCHANGED <<row, ask, cached, crashes>>
      BY <2>3 DEF ResumeMove
    <3>1. ASSUME row.state = "Paused",
                 th' = [th EXCEPT ![c].pc = "t_get", ![c].to = row.from, ![c].then = "rs_rearm",
                                  ![c].sig = row.signal]
          PROVE  AnswerInv'
      <4>1. th'[c].pc = "t_get" /\ th'[c].to = row.from /\ Others(c)
        BY <2>0, <3>1, Saved
      <4>2. th'[c].to = "WaitingForPermission" => Waits'
        BY <1>k, <1>w, <3>0, <3>1, <4>1 DEF Waits
      <4>3. ~Answering(c)
        BY <3>0 DEF Answering
      <4>4. crashes = 0 /\ Waits /\ ask # "open" => \E p \in Processes : cached[p]
        BY <1>m, <2>0, <3>0, <4>3
      <4>5. WaitsForSomething'
        BY <1>k, <1>w, <3>0, <4>4 DEF WaitsForSomething
      <4>6. QED
        BY <1>a, <2>0, <3>0, <4>1, <4>2, <4>5
    <3>2. ASSUME th' = [th EXCEPT ![c].pc = "rs_rearm", ![c].sig = row.signal]
          PROVE  AnswerInv'
      <4>1. th'[c].pc = "rs_rearm" /\ Others(c)
        BY <2>0, <3>2, WentSaving
      <4>2. QED
        BY <1>b, <1>k, <2>0, <3>0, <4>1
    <3>3. QED
      BY <2>3, <3>1, <3>2 DEF ResumeMove
  <2>4. CASE ResumeRearm(c)
    <3>1. th' = [th EXCEPT ![c].pc = "spawn", ![c].sig = None]
      BY <2>4 DEF ResumeRearm
    <3>2. th'[c].pc = "spawn" /\ Others(c)
      BY <2>0, <3>1, WentSaving
    <3>3. RowKept
      BY <1>k, <1>s, <2>4 DEF ResumeRearm
    <3>4. QED
      BY <1>b, <2>0, <2>4, <3>2, <3>3 DEF ResumeRearm
  <2>5. CASE Spawn(c)
    <3>1. PICK d \in Drivers :
            th' = [th EXCEPT ![c] = IdleThread, ![d] = [IdleThread EXCEPT !.pc = "top"]]
      BY <2>5 DEF Spawn
    <3>2. \A u \in Threads : th'[u].pc \in {"idle", "top"}
      <4>1. \A u \in Threads \ {c} : th[u].pc = "idle"
        BY <2>0, <2>5, Alone DEF Spawn
      <4>2. QED
        BY <2>0, <3>1, <4>1 DEF TypeOK, IdleThread
    <3>3. UNCHANGED <<row, ask, cached, crashes>> /\ th[c].pc \in {"spawn", "spawn_live"}
      BY <2>5 DEF Spawn
    <3>4. ~Answering(c)
      BY <3>3 DEF Answering
    <3>5. crashes = 0 /\ Waits /\ ask # "open" => \E p \in Processes : cached[p]
      BY <1>m, <2>0, <3>3, <3>4
    <3>6. WaitsForSomething'
      BY <1>k, <1>w, <3>3, <3>5 DEF WaitsForSomething
    <3>7. StepsInState' /\ AnswersAWaiting' /\ PromptFirst'
      BY <3>2 DEF StepsInState, AnswersAWaiting, PromptFirst
    <3>8. QED
      BY <3>6, <3>7 DEF AnswerInv
  <2>6. CASE NoSpawn(c)
    <3>1. th[c].pc \in {"spawn", "spawn_live"} /\ th'[c].pc = "idle" /\ Others(c)
      BY <2>0, <2>6, Ended DEF NoSpawn
    <3>2. QED
      BY <1>b, <1>k, <2>0, <2>6, <3>1 DEF NoSpawn
  <2>7. CASE ResolveApprove(c) \/ ResolveExecute(c)
    <3>1. /\ th[c].pc \in {"pm_pending", "pm_exec"} /\ Others(c)
          /\ th'[c].pc \in {"idle", "pm_exec", "pm_result"}
      BY <2>0, <2>7, Went DEF ResolveApprove, ResolveExecute
    <3>2. UNCHANGED <<row, ask, cached, crashes>>
      BY <2>7 DEF ResolveApprove, ResolveExecute
    <3>3. row.state = "WaitingForPermission" /\ ~Answering(c)
      BY <2>a, <3>1
    <3>4. crashes = 0 /\ Waits /\ ask # "open" => \E p \in Processes : cached[p]
      BY <1>m, <2>0, <3>1, <3>3
    <3>5. WaitsForSomething'
      BY <1>k, <1>w, <3>2, <3>4 DEF WaitsForSomething
    <3>6. QED
      BY <1>a, <2>0, <3>1, <3>2, <3>3, <3>5
  <2>8. CASE ResolveDeny(c) \/ ResolveRefused(c)
    <3>1. /\ th[c].pc \in {"pm_pending", "pm_exec"} /\ Others(c) /\ UNCHANGED row
          /\ th'[c].pc = "t_get" /\ th'[c].to = "Failed"
      BY <2>0, <2>8, Called DEF ResolveDeny, ResolveRefused
    <3>2. row.state = "WaitingForPermission"
      BY <2>a, <3>1
    <3>3. WaitsForSomething'
      BY <2>b, <3>1, <3>2 DEF Answering
    <3>4. QED
      BY <1>a, <2>0, <3>1, <3>3
  <2>9. CASE ResolveResult(c)
    <3>1. th[c].pc = "pm_result" /\ Others(c) /\ UNCHANGED row /\ th'[c].pc = "pm_get"
      BY <2>0, <2>9, Went DEF ResolveResult
    <3>2. row.state = "WaitingForPermission"
      BY <2>a, <3>1
    <3>3. WaitsForSomething'
      BY <2>b, <3>1, <3>2 DEF Answering
    <3>4. QED
      BY <1>a, <2>0, <3>1, <3>3
  <2>10. CASE ResolveMove(c)
    <3>0. th[c].pc = "pm_get" /\ UNCHANGED <<row, ask, cached, crashes>>
      BY <2>10 DEF ResolveMove
    <3>1. CASE row.state = "WaitingForPermission"
      <4>1. th'[c].pc = "t_get" /\ th'[c].to = ResumeTarget(Host[c]) /\ Others(c)
        BY <2>0, <2>10, <3>1, Called DEF ResolveMove
      <4>2. th'[c].to # "WaitingForPermission"
        BY <4>1 DEF ResumeTarget
      <4>3. CASE cached[Host[c]]
        BY <1>a, <2>0, <3>0, <4>1, <4>2, <4>3, ThreadKinds DEF WaitsForSomething
      <4>4. CASE ~cached[Host[c]]
        <5>1. WaitsForSomething'
          BY <2>b, <3>0, <3>1, <4>1, <4>4 DEF Answering, ResumeTarget
        <5>2. QED
          BY <1>a, <2>0, <3>0, <4>1, <4>2, <5>1
      <4>5. QED
        BY <4>3, <4>4
    <3>2. CASE row.state # "WaitingForPermission"
      <4>1. th'[c].pc = "spawn_live" /\ Others(c)
        BY <2>0, <2>10, <3>2, Went DEF ResolveMove
      <4>2. ~Answering(c)
        BY <3>2 DEF Answering
      <4>3. crashes = 0 /\ Waits /\ ask # "open" => \E p \in Processes : cached[p]
        BY <1>m, <2>0, <3>0, <4>2
      <4>4. WaitsForSomething'
        BY <1>k, <1>w, <3>0, <4>3 DEF WaitsForSomething
      <4>5. QED
        BY <1>a, <2>0, <3>0, <4>1, <4>4
    <3>3. QED
      BY <3>1, <3>2
  <2>11. QED
    BY <1>4, <2>1, <2>2, <2>3, <2>4, <2>5, <2>6, <2>7, <2>8, <2>9, <2>10 DEF ClientContinue
<1>5. ASSUME NEW p \in Processes, Crash(p)
      PROVE  AnswerInv'
  <2>1. crashes' # 0 /\ UNCHANGED <<row, ask>>
    BY <1>0, <1>5 DEF Crash
  <2>2. \A t \in Threads : th'[t] = th[t] \/ th'[t].pc = "idle"
    BY <1>5 DEF Crash, IdleThread
  <2>3. StepsInState' /\ AnswersAWaiting'
    BY <2>1, <2>2 DEF AnswerInv, StepsInState, AnswersAWaiting
  <2>4. PromptFirst'
    BY <1>k, <1>w, <2>1, <2>2 DEF AnswerInv, PromptFirst
  <2>5. QED
    BY <2>1, <2>3, <2>4 DEF AnswerInv, WaitsForSomething
<1>6. ASSUME UNCHANGED vars PROVE AnswerInv'
  <2>1. UNCHANGED <<row, ask, cached, crashes, th>>
    BY <1>6 DEF vars
  <2>2. \A t \in Threads : Answering(t) => Answering(t)'
    BY <2>1 DEF Answering
  <2>3. StepsInState' /\ AnswersAWaiting' /\ PromptFirst' /\ WaitsForSomething'
    BY <1>k, <1>w, <2>1, <2>2
       DEF AnswerInv, StepsInState, AnswersAWaiting, PromptFirst, WaitsForSomething
  <2>4. QED
    BY <2>3 DEF AnswerInv
<1>7. QED
  BY <1>1, <1>2, <1>3, <1>4, <1>5, <1>6 DEF Next

\* Short of a kill, a task at rest that waits for an answer has a prompt to be
\* answered, unless the verify_states of some process still holds the task: an
\* answer given there is turned into a move the table refuses.
THEOREM OnlyStaleCachesBlock ==
  ASSUME Contended \subseteq {"pause", "cancel"}
  PROVE  Spec => []OnlyStaleCacheBlocks
<1>1. Init => AnswerInv
  BY DEF Init, AnswerInv, StepsInState, AnswersAWaiting, PromptFirst, WaitsForSomething,
         Waits, IdleThread
<1>2. ASSUME TypeOK, AtMostOne, ReadIsCurrent, AnswerInv, [Next]_vars
      PROVE  AnswerInv'
  BY <1>2, AnswerInvKept
<1>3. AnswerInv => OnlyStaleCacheBlocks
  BY DEF AnswerInv, WaitsForSomething, Waits, Answering, OnlyStaleCacheBlocks, Quiet
<1>4. QED
  BY <1>1, <1>2, <1>3, Serial, PTL DEF Spec

-----------------------------------------------------------------------------
(* Where an accepted cancel is, under the same hypothesis.                 *)

\* The thread has saved the cancel and will put it back.
Saves(t) == th[t].sig = "Cancel" /\ th[t].then \in {"rc_rearm", "rs_rearm"}

\* The one thread at work leaves the cancel in the row, carries it over a
\* transition that clears pending_signal, or ends the task; it is not in a step
\* or an answer, whose transitions would drop it.
CarriedBy(t) ==
  /\ th[t].pc \in {"t_get", "t_write"} => th[t].to \in Terminal \/ Saves(t)
  /\ th[t].pc = "t_journal" => Saves(t)
  /\ th[t].pc \in {"rc_rearm", "rs_rearm"} => th[t].sig = "Cancel"
  /\ th[t].pc \notin {"t_write", "t_journal", "rc_rearm", "rs_rearm"} => row.signal = "Cancel"
  /\ th[t].pc \notin {"step", "pm_pending", "pm_exec", "pm_result", "pm_get"}

CancelCarried ==
  owed => /\ Quiet => row.signal = "Cancel"
          /\ \A t \in Threads : th[t].pc # "idle" => CarriedBy(t)

LEMMA CancelStaysCarried ==
  ASSUME TypeOK, AtMostOne, CancelCarried, [Next]_vars,
         Contended \subseteq {"pause", "cancel"}
  PROVE  CancelCarried'
<1>0. /\ row \in [state : States, from : States \union {None}, signal : Signals]
      /\ owed \in BOOLEAN
      /\ \A t \in Threads : th[t].then \in Returns
  BY DEF TypeOK, Thread
<1>s. ASSUME NEW sig, SetSignal(sig) PROVE row'.signal = sig
  BY <1>0, <1>s DEF SetSignal
\* Only the thread that moves has to be looked at.
<1>a. ASSUME NEW t \in Threads, th[t].pc # "idle" \/ Quiet, Others(t),
             owed' /\ th'[t].pc = "idle" => row'.signal = "Cancel",
             owed' /\ th'[t].pc # "idle" => CarriedBy(t)'
      PROVE  CancelCarried'
  <2>1. \A u \in Threads \ {t} : th'[u].pc = "idle"
    BY <1>a, Alone DEF Others, Quiet
  <2>2. owed' /\ Quiet' => row'.signal = "Cancel"
    BY <1>a DEF Quiet
  <2>3. \A u \in Threads : owed' /\ th'[u].pc # "idle" => CarriedBy(u)'
    BY <1>a, <2>1
  <2>4. QED
    BY <2>2, <2>3 DEF CancelCarried
\* Where nothing is carried the cancel is in the row ...
<1>c. ASSUME NEW t \in Threads, th[t].pc # "idle" \/ Quiet, owed,
             th[t].pc \notin {"t_write", "t_journal", "rc_rearm", "rs_rearm"}
      PROVE  row.signal = "Cancel"
  BY <1>c DEF CancelCarried, CarriedBy
\* ... and stays there.
<1>b. ASSUME NEW t \in Threads, th[t].pc # "idle" \/ Quiet, Others(t), row' = row, owed' => owed,
             th[t].pc \notin {"t_write", "t_journal", "rc_rearm", "rs_rearm"},
             th'[t].pc \in {"idle", "top", "err", "exit", "fin", "rc_pending", "rs_get",
                            "spawn", "spawn_live"}
      PROVE  CancelCarried'
  <2>1. owed' => row'.signal = "Cancel"
    BY <1>b, <1>c
  <2>2. owed' => CarriedBy(t)'
    BY <1>b, <2>1 DEF CarriedBy
  <2>3. QED
    BY <1>a, <1>b, <2>1, <2>2
\* Where a cancel would be dropped there is none.
<1>n. ASSUME NEW t \in Threads, ~owed', th[t].pc # "idle" \/ Quiet, Others(t)
      PROVE  CancelCarried'
  BY <1>n DEF CancelCarried
<1>x. ASSUME NEW t \in Threads,
             th[t].pc \in {"step", "pm_pending", "pm_exec", "pm_result", "pm_get"}
      PROVE  ~owed
  BY <1>x DEF CancelCarried, CarriedBy
<1>1. ASSUME NEW t \in Threads, Transition(t)
      PROVE  CancelCarried'
  <2>1. CASE TransitionRead(t)
    <3>0. th[t].pc = "t_get" /\ UNCHANGED <<row, owed>>
      BY <2>1 DEF TransitionRead
    <3>1. owed => th[t].to \in Terminal \/ Saves(t)
      BY <3>0 DEF CancelCarried, CarriedBy
    <3>2. CASE LegalMove(row, th[t].to)
      <4>1. /\ th'[t].pc = "t_write" /\ th'[t].to = th[t].to /\ Others(t)
            /\ th'[t].sig = th[t].sig /\ th'[t].then = th[t].then
        <5>1. th' = [th EXCEPT ![t].pc = "t_write", ![t].state = row.state, ![t].from = row.from]
          BY <2>1, <3>2 DEF TransitionRead
        <5>2. QED
          BY <5>1 DEF TypeOK, Thread, Others
      <4>2. owed' => CarriedBy(t)'
        BY <3>0, <3>1, <4>1 DEF CarriedBy, Saves
      <4>3. QED
        BY <1>a, <3>0, <4>1, <4>2
    <3>3. CASE ~LegalMove(row, th[t].to)
      <4>1. th'[t].pc \in {"idle", "fin", "err"} /\ Others(t)
        <5>1. th' = [th EXCEPT ![t] = [IdleThread EXCEPT !.pc = AfterError(t)]]
          BY <2>1, <3>3 DEF TransitionRead
        <5>2. QED
          BY <5>1 DEF TypeOK, IdleThread, AfterError, Others
      <4>2. QED
        BY <1>b, <3>0, <4>1
    <3>4. QED
      BY <3>2, <3>3
  <2>2. CASE TransitionWrite(t)
    <3>0. /\ th[t].pc = "t_write" /\ Goto(t, "t_journal")
          /\ owed' = (owed /\ th[t].to \notin Terminal)
      BY <2>2 DEF TransitionWrite
    <3>1. /\ th'[t].pc = "t_journal" /\ th'[t].sig = th[t].sig /\ th'[t].then = th[t].then
          /\ Others(t)
      BY <3>0, Went
    <3>2. owed' => Saves(t)
      BY <3>0 DEF CancelCarried, CarriedBy
    <3>3. owed' => CarriedBy(t)'
      BY <3>1, <3>2 DEF CarriedBy, Saves
    <3>4. QED
      BY <1>a, <3>0, <3>1, <3>3
  <2>3. CASE TransitionJournal(t)
    <3>0. th[t].pc = "t_journal" /\ owed' = owed
      BY <2>3 DEF TransitionJournal
    <3>1. th'[t].pc = th[t].then /\ th'[t].sig = th[t].sig /\ Others(t)
      BY <2>3, Restarted DEF TransitionJournal
    <3>2. owed => Saves(t)
      BY <3>0 DEF CancelCarried, CarriedBy
    <3>3. owed' => th'[t].pc # "idle" /\ CarriedBy(t)'
      BY <3>0, <3>1, <3>2 DEF CarriedBy, Saves
    <3>4. QED
      BY <1>a, <3>0, <3>1, <3>3
  <2>4. QED
    BY <1>1, <2>1, <2>2, <2>3 DEF Transition
<1>2. ASSUME NEW d \in Drivers, DriverNext(d)
      PROVE  CancelCarried'
  <2>0. d \in Threads
    BY ThreadKinds
  <2>1. CASE DriverTop(d)
    <3>0. th[d].pc = "top" /\ UNCHANGED <<row, owed>>
      BY <2>1 DEF DriverTop
    <3>1. CASE ~owed
      BY <3>0, <3>1 DEF CancelCarried
    <3>2. CASE owed
      <4>1. row.signal = "Cancel"
        BY <1>c, <2>0, <3>0, <3>2
      <4>2. Call(d, "Cancelled", "exit")
        BY <2>1, <4>1 DEF DriverTop, None
      <4>3. th'[d].pc = "t_get" /\ th'[d].to = "Cancelled" /\ Others(d)
        BY <2>0, <4>2, Called
      <4>4. CarriedBy(d)'
        BY <3>0, <4>1, <4>3 DEF CarriedBy, Terminal
      <4>5. QED
        BY <1>a, <2>0, <3>0, <4>3, <4>4
    <3>3. QED
      BY <1>0, <3>1, <3>2
  <2>2. CASE DriverStep(d) \/ DriverStay(d) \/ DriverFault(d)
    <3>1. ~owed'
      BY <1>x, <2>0, <2>2 DEF DriverStep, DriverStay, DriverFault
    <3>2. QED
      BY <3>1 DEF CancelCarried
  <2>3. CASE DriverError(d)
    <3>0. th[d].pc = "err" /\ UNCHANGED <<row, owed>>
      BY <2>3 DEF DriverError
    <3>1. CASE Goto(d, "fin")
      BY <1>b, <2>0, <3>0, <3>1, Went
    <3>2. CASE Call(d, "Failed", "fin")
      <4>1. th'[d].pc = "t_get" /\ th'[d].to = "Failed" /\ Others(d)
        BY <2>0, <3>2, Called
      <4>2. owed => row.signal = "Cancel"
        BY <1>c, <2>0, <3>0
      <4>3. owed' => CarriedBy(d)'
        BY <3>0, <4>1, <4>2 DEF CarriedBy, Terminal
      <4>4. QED
        BY <1>a, <2>0, <3>0, <4>1, <4>3
    <3>3. QED
      BY <2>3, <3>1, <3>2 DEF DriverError
  <2>4. CASE DriverDone(d)
    <3>1. th[d].pc \in {"exit", "fin"} /\ th'[d].pc = "idle" /\ Others(d)
      BY <2>0, <2>4, Ended DEF DriverDone
    <3>2. QED
      BY <1>b, <2>0, <2>4, <3>1 DEF DriverDone
  <2>5. QED
    BY <1>2, <2>1, <2>2, <2>3, <2>4 DEF DriverNext
<1>3. ASSUME NEW c \in Clients, Request(c)
      PROVE  CancelCarried'
  <2>0. c \in Threads
    BY ThreadKinds
  <2>1. CASE RequestPause(c) \/ ResolveBegin(c) \/ Respond(c)
    <3>1. ~owed'
      BY <2>1 DEF RequestPause, ResolveBegin, Respond
    <3>2. QED
      BY <3>1 DEF CancelCarried
  <2>2. CASE RequestCancel(c)
    <3>1. row'.signal = "Cancel" /\ th' = th /\ owed' => owed \/ Quiet
      BY <1>s, <2>2 DEF RequestCancel
    <3>2. row'.signal = "Cancel" /\ th' = th
      BY <1>s, <2>2 DEF RequestCancel
    <3>3. \A t \in Threads : owed' /\ th'[t].pc # "idle" => CarriedBy(t)'
      BY <3>1, <3>2 DEF CancelCarried, CarriedBy, Saves, Quiet
    <3>4. QED
      BY <3>2, <3>3 DEF CancelCarried
  <2>3. CASE ResumeBegin(c)
    <3>1. th'[c].pc \in {"rs_get", "rc_pending"} /\ Others(c) /\ Quiet /\ th[c].pc = "idle"
      BY <2>0, <2>3, Went DEF ResumeBegin, MayRequest
    <3>2. QED
      BY <1>b, <2>0, <2>3, <3>1 DEF ResumeBegin
  <2>4. QED
    BY <1>3, <2>1, <2>2, <2>3 DEF Request
<1>4. ASSUME NEW c \in Clients, ClientContinue(c)
      PROVE  CancelCarried'
  <2>0. c \in Threads
    BY ThreadKinds
  <2>1. CASE RecoverPause(c)
    <3>0. th[c].pc = "rc_pending" /\ UNCHANGED <<row, owed>>
      BY <2>1 DEF RecoverPause
    <3>1. th'[c].pc = "t_get" /\ th'[c].then = "rc_rearm" /\ th'[c].sig = row.signal /\ Others(c)
      <4>1. th' = [th EXCEPT ![c].pc = "t_get", ![c].to = "Paused", ![c].then = "rc_rearm",
                             ![c].sig = row.signal]
        BY <2>1 DEF RecoverPause
      <4>2. QED
        BY <2>0, <4>1 DEF TypeOK, Thread, Others
    <3>2. owed => row.signal = "Cancel"
      BY <1>c, <2>0, <3>0
    <3>3. owed' => CarriedBy(c)'
      BY <3>0, <3>1, <3>2 DEF CarriedBy, Saves
    <3>4. QED
      BY <1>a, <2>0, <3>0, <3>1, <3>3
  <2>2. CASE RecoverRearm(c) \/ ResumeRearm(c)
    <3>0. th[c].pc \in {"rc_rearm", "rs_rearm"} /\ owed' = owed
      BY <2>2 DEF RecoverRearm, ResumeRearm
    <3>1. \/ th' = [th EXCEPT ![c].pc = "rs_get", ![c].sig = None]
          \/ th' = [th EXCEPT ![c].pc = "spawn", ![c].sig = None]
      BY <2>2 DEF RecoverRearm, ResumeRearm
    <3>2. th'[c].pc \in {"rs_get", "spawn"} /\ Others(c)
      BY <2>0, <3>1, WentSaving
    <3>3. owed => th[c].sig = "Cancel"
      BY <2>0, <3>0 DEF CancelCarried, CarriedBy
    <3>4. th[c].sig = "Cancel" => SetSignal("Cancel")
      BY <2>2 DEF RecoverRearm, ResumeRearm, None
    <3>5. owed => row'.signal = "Cancel"
      BY <1>s, <3>3, <3>4
    <3>6. owed' => CarriedBy(c)'
      BY <3>0, <3>2, <3>5 DEF CarriedBy
    <3>7. QED
      BY <1>a, <2>0, <3>0, <3>2, <3>5, <3>6
  <2>3. CASE ResumeMove(c)
    <3>0. th[c].pc = "rs_get" /\ UNCHANGED <<row, owed>>
      BY <2>3 DEF ResumeMove
    <3>1. owed => row.signal = "Cancel"
      BY <1>c, <2>0, <3>0
    <3>2. ASSUME th' = [th EXCEPT ![c].pc = "t_get", ![c].to = row.from, ![c].then = "rs_rearm",
                                  ![c].sig = row.signal]
          PROVE  CancelCarried'
      <4>1. th'[c].pc = "t_get" /\ th'[c].then = "rs_rearm" /\ th'[c].sig = row.signal /\ Others(c)
        BY <2>0, <3>2 DEF TypeOK, Thread, Others
      <4>2. owed' => CarriedBy(c)'
        BY <3>0, <3>1, <4>1 DEF CarriedBy, Saves
      <4>3. QED
        BY <1>a, <2>0, <3>0, <4>1, <4>2
    <3>3. ASSUME th' = [th EXCEPT ![c].pc = "rs_rearm", ![c].sig = row.signal]
          PROVE  CancelCarried'
      <4>1. th'[c].pc = "rs_rearm" /\ th'[c].sig = row.signal /\ Others(c)
        BY <2>0, <3>3 DEF TypeOK, Thread, Others
      <4>2. owed' => CarriedBy(c)'
        BY <3>0, <3>1, <4>1 DEF CarriedBy
      <4>3. QED
        BY <1>a, <2>0, <3>0, <4>1, <4>2
    <3>4. QED
      BY <2>3, <3>2, <3>3 DEF ResumeMove
  <2>4. CASE Spawn(c)
    <3>0. th[c].pc \in {"spawn", "spawn_live"} /\ UNCHANGED <<row, owed>>
      BY <2>4 DEF Spawn
    <3>1. PICK d \in Drivers :
            th' = [th EXCEPT ![c] = IdleThread, ![d] = [IdleThread EXCEPT !.pc = "top"]]
      BY <2>4 DEF Spawn
    <3>2. \A u \in Threads : th'[u].pc \in {"idle", "top"}
      <4>1. \A u \in Threads \ {c} : th[u].pc = "idle"
        BY <2>0, <3>0, Alone
      <4>2. QED
        BY <2>0, <3>1, <4>1 DEF TypeOK, IdleThread
    <3>3. owed' => row'.signal = "Cancel"
      BY <1>c, <2>0, <3>0
    <3>4. \A u \in Threads : owed' => CarriedBy(u)'
      BY <3>2, <3>3 DEF CarriedBy
    <3>5. QED
      BY <3>3, <3>4 DEF CancelCarried
  <2>5. CASE NoSpawn(c)
    <3>1. th[c].pc \in {"spawn", "spawn_live"} /\ th'[c].pc = "idle" /\ Others(c)
      BY <2>0, <2>5, Ended DEF NoSpawn
    <3>2. QED
      BY <1>b, <2>0, <2>5, <3>1 DEF NoSpawn
  <2>6. CASE \/ ResolveApprove(c) \/ ResolveDeny(c) \/ ResolveExecute(c)
             \/ ResolveRefused(c) \/ ResolveResult(c) \/ ResolveMove(c)
    <3>1. th[c].pc \in {"pm_pending", "pm_exec", "pm_result", "pm_get"} /\ owed' = owed
      BY <2>6 DEF ResolveApprove, ResolveDeny, ResolveExecute, ResolveRefused, ResolveResult,
                  ResolveMove
    <3>2. ~owed'
      BY <1>x, <2>0, <3>1
    <3>3. QED
      BY <3>2 DEF CancelCarried
  <2>7. QED
    BY <1>4, <2>1, <2>2, <2>3, <2>4, <2>5, <2>6 DEF ClientContinue
<1>5. ASSUME NEW p \in Processes, Crash(p)
      PROVE  CancelCarried'
  BY <1>5 DEF Crash, CancelCarried
<1>6. ASSUME UNCHANGED vars PROVE CancelCarried'
  BY <1>6 DEF vars, CancelCarried, CarriedBy, Saves, Quiet
<1>7. QED
  BY <1>1, <1>2, <1>3, <1>4, <1>5, <1>6 DEF Next

\* A driver begins a step at the loop head only, with no signal in the row.
LEMMA StepBegins ==
  ASSUME TypeOK, AtMostOne, [Next]_vars, Contended \subseteq {"pause", "cancel"},
         NEW d \in Drivers, th[d].pc = "top", th'[d].pc = "step"
  PROVE  row.signal = None
<1>0. d \in Threads /\ \A t \in Threads : th[t].pc # "idle" => t = d
  BY ThreadKinds DEF AtMostOne
<1>1. ~Quiet
  BY <1>0 DEF Quiet
<1>2. ASSUME NEW e \in Drivers, DriverNext(e) PROVE row.signal = None
  <2>0. e = d
    BY <1>0, <1>2, ThreadKinds
       DEF DriverNext, DriverTop, DriverStep, DriverStay, DriverFault, DriverError, DriverDone
  <2>1. DriverTop(d)
    BY <1>2, <2>0 DEF DriverNext, DriverStep, DriverStay, DriverFault, DriverError, DriverDone
  <2>2. ASSUME NEW to, NEW then, Call(d, to, then) PROVE FALSE
    BY <1>0, <2>2, Called
  <2>3. QED
    BY <2>1, <2>2 DEF DriverTop
<1>3. ASSUME NEW t \in Threads, Transition(t) PROVE FALSE
  BY <1>0, <1>3 DEF Transition, TransitionRead, TransitionWrite, TransitionJournal
<1>4. ASSUME NEW c \in Clients, ClientContinue(c) PROVE FALSE
  <2>1. th[c].pc \notin {"idle", "top"}
    BY <1>4 DEF ClientContinue, RecoverPause, RecoverRearm, ResumeMove, ResumeRearm, Spawn,
                NoSpawn, ResolveApprove, ResolveDeny, ResolveExecute, ResolveRefused,
                ResolveResult, ResolveMove
  <2>2. QED
    BY <1>0, <2>1, ThreadKinds
<1>5. ASSUME NEW c \in Clients, Request(c) PROVE FALSE
  BY <1>1, <1>5 DEF Request, RequestPause, RequestCancel, ResumeBegin, ResolveBegin, Respond,
                    MayRequest
<1>6. ASSUME NEW p \in Processes, Crash(p) PROVE FALSE
  BY <1>0, <1>6 DEF Crash, IdleThread
<1>7. ASSUME UNCHANGED vars PROVE FALSE
  BY <1>7 DEF vars
<1>8. QED
  BY <1>2, <1>3, <1>4, <1>5, <1>6, <1>7 DEF Next

\* Once a cancel of a task at rest has been accepted no driver starts a step
\* of it, whatever recovery, resume and spawn come in between: each transition
\* they make clears pending_signal, and each is made by a thread that has saved
\* the cancel.
THEOREM NoStepFollowsCancel ==
  ASSUME Contended \subseteq {"pause", "cancel"}
  PROVE  Spec => NoStepAfterCancel
<1>1. Init => CancelCarried
  BY DEF Init, CancelCarried
<1>2. ASSUME TypeOK, AtMostOne, CancelCarried, [Next]_vars
      PROVE  CancelCarried'
  BY <1>2, CancelStaysCarried
<1>3. ASSUME TypeOK, AtMostOne, CancelCarried, [Next]_vars
      PROVE  \A d \in Drivers : th[d].pc = "top" /\ th'[d].pc = "step" => ~owed
  <2>1. ASSUME NEW d \in Drivers, th[d].pc = "top", th'[d].pc = "step", owed PROVE FALSE
    <3>1. row.signal = None
      BY <1>3, <2>1, StepBegins
    <3>2. row.signal = "Cancel"
      BY <1>3, <2>1, ThreadKinds DEF CancelCarried, CarriedBy
    <3>3. QED
      BY <3>1, <3>2 DEF None
  <2>2. QED
    BY <1>3, <2>1 DEF TypeOK
<1>4. QED
  BY <1>1, <1>2, <1>3, Serial, PTL DEF Spec, NoStepAfterCancel
=============================================================================
