---------------------------- MODULE TaskLifecycle ----------------------------
(***************************************************************************)
(* One task's row in workspace.db and every thread that may change it: the *)
(* agent drivers spawned for it and the runtime calls (pause, cancel,      *)
(* resume, resolve, respond) of the daemon and of CLI processes that open  *)
(* the same database.                                                      *)
(*                                                                         *)
(* Each Store::call is one atomic action; everything between two calls can *)
(* interleave with the calls of other threads, and the process hosting a   *)
(* thread can be killed there.  TaskManager::transition is the subroutine  *)
(* "t_get" (read the row, test legality), "t_write" (UPDATE), "t_journal"  *)
(* (append StateChanged), entered with Call(t, to, then) and left at the   *)
(* program counter `then`.                                                 *)
(*                                                                         *)
(* Of a step of the agent only its outcome is kept here, the state it asks *)
(* for; the repair loop is module VerifyRepair.                            *)
(*                                                                         *)
(* A "faulty variant" of a definition is what a plausible slip in the code *)
(* would make of it; a property is worth its run if some variant breaks it.*)
(***************************************************************************)
EXTENDS AgentStates, Naturals, FiniteSets

CONSTANTS
  Processes,    \* OS processes with their own Runtime over the shared database
  Drivers,      \* bound: driver runs alive at the same time
  Clients,      \* threads serving runtime calls
  Host,         \* the process each driver and client runs in
  Kinds,        \* the requests clients make, a subset of RequestKinds
  Contended,    \* those they may make while another thread works on the task
  MaxRequests,  \* bound: requests in one behaviour
  MaxCrashes    \* bound: process kills in one behaviour

None == "None"
RequestKinds == {"pause", "cancel", "resume", "resolve", "respond"}
Threads == Drivers \union Clients

ASSUME LifecycleAssumption ==
  /\ Host \in [Threads -> Processes]
  /\ Drivers \intersect Clients = {}
  /\ Kinds \subseteq RequestKinds
  /\ Contended \subseteq Kinds
  /\ MaxRequests \in Nat
  /\ MaxCrashes \in Nat

VARIABLES
  row,        \* the tasks row: state, paused_from, pending_signal
  ask,        \* whether the last TOOL effect is a prompt nobody resolved
  ran,        \* times an approved call was executed for the last prompt
  cached,     \* AgentDriver::verify_states holds the task, per process
  th,         \* the threads
  requests,   \* requests made so far
  crashes,    \* kills so far
  owed        \* history: a cancel was accepted and has to be carried out

vars == <<row, ask, ran, cached, th, requests, crashes, owed>>

Signals == {None, "Pause", "Cancel"}
Pcs == {"idle", "t_get", "t_write", "t_journal",
        "top", "step", "err", "exit", "fin",
        "rc_pending", "rc_rearm", "rs_get", "rs_rearm", "spawn", "spawn_live",
        "pm_pending", "pm_exec", "pm_result", "pm_get"}

\* Where a transition may return to.
Returns == {"idle", "top", "exit", "fin", "rc_rearm", "rs_rearm", "spawn_live", "pm_get"}

Thread == [pc    : Pcs,
           state : States,                    \* tasks.state when last read
           from  : States \union {None},      \* paused_from when last read
           sig   : Signals,                   \* a signal saved across transitions
           to    : States,                    \* target of the running transition
           then  : Returns]                   \* where the running transition returns

IdleThread == [pc |-> "idle", state |-> "Idle", from |-> None, sig |-> None,
               to |-> "Idle", then |-> "idle"]

Quiet == \A t \in Threads : th[t].pc = "idle"

-----------------------------------------------------------------------------
(* The shared subroutine TaskManager::transition.                          *)

Goto(t, pc) == th' = [th EXCEPT ![t].pc = pc]

Call(t, to, then) ==
  th' = [th EXCEPT ![t].pc = "t_get", ![t].to = to, ![t].then = then]

\* The legality test on the row as read.
LegalMove(seen, to) ==
  /\ seen.state = "Paused" => seen.from = to
  /\ CanTransitionTo(seen.state, to)

\* Where `Err(IllegalTransition | WrongResumeTarget)` propagates to.
AfterError(t) ==
  CASE t \in Clients         -> "idle"
    [] th[t].then = "fin"    -> "fin"
    [] OTHER                 -> "err"

TransitionRead(t) ==
  /\ th[t].pc = "t_get"
  /\ \/ /\ LegalMove(row, th[t].to)
        /\ th' = [th EXCEPT ![t].pc = "t_write", ![t].state = row.state, ![t].from = row.from]
     \/ /\ ~LegalMove(row, th[t].to)
        /\ th' = [th EXCEPT ![t] = [IdleThread EXCEPT !.pc = AfterError(t)]]
  /\ UNCHANGED <<row, ask, ran, cached, requests, crashes, owed>>

\* Faulty variant of NewRow: paused_from is not cleared on the way out.
NewRowKeepsFrom(t) ==
  [state  |-> th[t].to,
   from   |-> IF th[t].to = "Paused" THEN th[t].state ELSE th[t].from,
   signal |-> None]

\* The UPDATE is keyed by id alone and always clears pending_signal.
NewRow(t) ==
  [state  |-> th[t].to,
   from   |-> IF th[t].to = "Paused" THEN th[t].state ELSE None,
   signal |-> None]

TransitionWrite(t) ==
  /\ th[t].pc = "t_write"
  /\ row' = NewRow(t)
  /\ owed' = (owed /\ th[t].to \notin Terminal)
  /\ Goto(t, "t_journal")
  /\ UNCHANGED <<ask, ran, cached, requests, crashes>>

\* The append of StateChanged: what reads the journal is module TaskJournal.
TransitionJournal(t) ==
  /\ th[t].pc = "t_journal"
  /\ th' = [th EXCEPT ![t] = [IdleThread EXCEPT !.pc = th[t].then, !.sig = th[t].sig]]
  /\ UNCHANGED <<row, ask, ran, cached, requests, crashes, owed>>

-----------------------------------------------------------------------------
(* The driver loop, AgentDriver::run_with_role under Runtime::spawn_driver.*)

\* Loop head: one get, then pending_signal before the state.
DriverTop(d) ==
  /\ th[d].pc = "top"
  /\ \/ row.signal = "Cancel" /\ Call(d, "Cancelled", "exit") /\ UNCHANGED cached
     \/ row.signal = "Pause"  /\ Call(d, "Paused", "exit") /\ UNCHANGED cached
     \/ /\ row.signal = None
        /\ row.state \in StableWithoutDriver
        /\ Goto(d, "exit")
        /\ cached' = [cached EXCEPT ![Host[d]] = @ /\ row.state \notin Terminal]
     \/ /\ row.signal = None
        /\ row.state \notin StableWithoutDriver
        /\ th' = [th EXCEPT ![d].pc = "step", ![d].state = row.state]
        /\ UNCHANGED cached
  /\ UNCHANGED <<row, ask, ran, requests, crashes, owed>>

\* The state the step handler of `s` may ask for.
StepTargets(s) ==
  CASE s = "Idle"          -> {"Understanding"}
    [] s = "Understanding" -> {"Discovery"}
    [] s = "Discovery"     -> {"Planning"}
    [] s = "Planning"      -> {"Implementing", "Failed"}
    [] s = "Implementing"  -> {"Verifying", "WaitingForUser", "WaitingForPermission", "Failed"}
    [] s = "Verifying"     -> {"Completed", "Diagnosing"}
    [] s = "Diagnosing"    -> {"Repairing", "WaitingForUser", "Failed"}
    [] s = "Repairing"     -> {"Verifying", "WaitingForUser", "WaitingForPermission", "Failed"}
    [] OTHER               -> {}

\* take_verify_state / put_verify_state fill the process's map; giving up
\* and a denied repair edit empty it.
CacheAfter(s, to, held) ==
  CASE s = "Verifying"                      -> TRUE
    [] s \in {"Diagnosing", "Repairing"}    -> to # "Failed"
    [] OTHER                                -> held

\* Flow::Return leaves run() without another loop head.
ReturnsFromRun(s, to) ==
  \/ s = "Verifying" /\ to = "Completed"
  \/ s = "Planning" /\ to = "Failed"
  \/ s = "Repairing" /\ to # "Verifying"

\* Faulty variant of AskAfter: the prompt is not journaled before waiting.
AskForgotten(s, to, held) ==
  IF s \in {"Implementing", "Repairing"} THEN {"none", held} ELSE {held}

\* What the step leaves of the last prompt: a new TOOL effect closes it, a
\* PERMISSION_ASK (journaled before the transition) opens one.
AskAfter(s, to, held) ==
  CASE to = "WaitingForPermission"                                 -> {"open"}
    [] s \in {"Implementing", "Repairing"} /\ to \in {"Failed", s} -> {"none"}
    [] s = "Repairing" /\ to \in {"Verifying", "WaitingForUser"}    -> {"none", held}
    [] OTHER                                                       -> {held}

DriverStep(d) ==
  /\ th[d].pc = "step"
  /\ \E to \in StepTargets(th[d].state) :
       /\ Call(d, to, IF ReturnsFromRun(th[d].state, to) THEN "exit" ELSE "top")
       /\ cached' = [cached EXCEPT ![Host[d]] = CacheAfter(th[d].state, to, @)]
       /\ ask' \in AskAfter(th[d].state, to, ask)
       /\ ran' = IF to = "WaitingForPermission" THEN 0 ELSE ran
  /\ UNCHANGED <<row, requests, crashes, owed>>

\* A tool call executed, or a check passed: back to the loop head.
DriverStay(d) ==
  /\ th[d].pc = "step"
  /\ th[d].state \in {"Implementing", "Verifying"}
  /\ Goto(d, "top")
  /\ ask' \in AskAfter(th[d].state, th[d].state, ask)
  /\ cached' = [cached EXCEPT ![Host[d]] = CacheAfter(th[d].state, th[d].state, @)]
  /\ UNCHANGED <<row, ran, requests, crashes, owed>>

\* Any `?` in the step: no model available, a malformed completion, ...
DriverFault(d) ==
  /\ th[d].pc = "step"
  /\ Goto(d, "err")
  /\ UNCHANGED <<row, ask, ran, cached, requests, crashes, owed>>

\* spawn_driver's error arm: fail the task unless something else ended it.
DriverError(d) ==
  /\ th[d].pc = "err"
  /\ \/ row.state \in Terminal /\ Goto(d, "fin")
     \/ row.state \notin Terminal /\ Call(d, "Failed", "fin")
  /\ UNCHANGED <<row, ask, ran, cached, requests, crashes, owed>>

\* The tail of spawn_driver (the per-task mode it drops is module ToolGate's).
DriverDone(d) ==
  /\ th[d].pc \in {"exit", "fin"}
  /\ th' = [th EXCEPT ![d] = IdleThread]
  /\ UNCHANGED <<row, ask, ran, cached, requests, crashes, owed>>

-----------------------------------------------------------------------------
(* Runtime calls.                                                          *)

MayRequest(c, k) ==
  /\ th[c].pc = "idle"
  /\ requests < MaxRequests
  /\ k \in Kinds
  /\ k \in Contended \/ Quiet

SetSignal(sig) == row' = [row EXCEPT !.signal = sig]

\* request_pause and request_cancel: a bare UPDATE, whatever the state.
\* The later of two requests replaces the earlier one.
RequestPause(c) ==
  /\ MayRequest(c, "pause")
  /\ requests' = requests + 1
  /\ SetSignal("Pause")
  /\ owed' = FALSE
  /\ UNCHANGED <<ask, ran, cached, th, crashes>>

\* One accepted while a thread is between two calls may be cleared by that
\* thread's own transition: only a cancel of a task at rest is owed.
RequestCancel(c) ==
  /\ MayRequest(c, "cancel")
  /\ requests' = requests + 1
  /\ SetSignal("Cancel")
  /\ owed' = (row.state \notin Terminal /\ (owed \/ Quiet))
  /\ UNCHANGED <<ask, ran, cached, th, crashes>>

\* resume_task, first recover_task_if_active.
ResumeBegin(c) ==
  /\ MayRequest(c, "resume")
  /\ requests' = requests + 1
  /\ Goto(c, IF row.state \in StableWithoutDriver THEN "rs_get" ELSE "rc_pending")
  /\ UNCHANGED <<row, ask, ran, cached, crashes, owed>>

\* recover_task saves pending_signal, notes the recovery, pauses the task...
RecoverPause(c) ==
  /\ th[c].pc = "rc_pending"
  /\ th' = [th EXCEPT ![c].pc = "t_get", ![c].to = "Paused", ![c].then = "rc_rearm",
                      ![c].sig = row.signal]
  /\ UNCHANGED <<row, ask, ran, cached, requests, crashes, owed>>

\* Faulty variant of RecoverRearm: the saved signal is dropped.
RecoverForgets(c) ==
  /\ th[c].pc = "rc_rearm"
  /\ th' = [th EXCEPT ![c].pc = "rs_get", ![c].sig = None]
  /\ UNCHANGED <<row, ask, ran, cached, requests, crashes, owed>>

\* ... and puts the signal the transition cleared back.
RecoverRearm(c) ==
  /\ th[c].pc = "rc_rearm"
  /\ IF th[c].sig = None THEN UNCHANGED row ELSE SetSignal(th[c].sig)
  /\ th' = [th EXCEPT ![c].pc = "rs_get", ![c].sig = None]
  /\ UNCHANGED <<ask, ran, cached, requests, crashes, owed>>

\* Back to paused_from, remembering the signal for ResumeRearm.
ResumeMove(c) ==
  /\ th[c].pc = "rs_get"
  /\ \/ /\ row.state = "Paused" /\ row.from # None
        /\ th' = [th EXCEPT ![c].pc = "t_get", ![c].to = row.from, ![c].then = "rs_rearm",
                            ![c].sig = row.signal]
     \/ /\ row.state # "Paused"
        /\ th' = [th EXCEPT ![c].pc = "rs_rearm", ![c].sig = row.signal]
  /\ UNCHANGED <<row, ask, ran, cached, requests, crashes, owed>>

\* Faulty variant of ResumeRearm: no signal outlives the resume.
ResumeForgets(c) ==
  /\ th[c].pc = "rs_rearm"
  /\ th' = [th EXCEPT ![c].pc = "spawn", ![c].sig = None]
  /\ UNCHANGED <<row, ask, ran, cached, requests, crashes, owed>>

\* Only a cancel outlives the resume.
ResumeRearm(c) ==
  /\ th[c].pc = "rs_rearm"
  /\ IF th[c].sig = "Cancel" THEN SetSignal("Cancel") ELSE UNCHANGED row
  /\ th' = [th EXCEPT ![c].pc = "spawn", ![c].sig = None]
  /\ UNCHANGED <<ask, ran, cached, requests, crashes, owed>>

\* The runtime call's last read decides whether to spawn a driver.
Spawn(c) ==
  /\ th[c].pc \in {"spawn", "spawn_live"}
  /\ row.state \notin Terminal
  /\ th[c].pc = "spawn_live" => row.state \notin {"WaitingForPermission", "WaitingForUser"}
  /\ \E d \in Drivers :
       /\ th[d].pc = "idle" /\ Host[d] = Host[c]
       /\ th' = [th EXCEPT ![c] = IdleThread, ![d] = [IdleThread EXCEPT !.pc = "top"]]
  /\ UNCHANGED <<row, ask, ran, cached, requests, crashes, owed>>

NoSpawn(c) ==
  /\ \/ th[c].pc \in {"spawn", "spawn_live"} /\ row.state \in Terminal
     \/ th[c].pc = "spawn_live" /\ row.state \in {"WaitingForPermission", "WaitingForUser"}
  /\ th' = [th EXCEPT ![c] = IdleThread]
  /\ UNCHANGED <<row, ask, ran, cached, requests, crashes, owed>>

\* resolve_permission_scoped.  The refused call (NotWaitingForPermission)
\* changes nothing and is no action.  The transition an answer ends in drops
\* a cancel accepted while the task waited.
ResolveBegin(c) ==
  /\ MayRequest(c, "resolve")
  /\ row.state = "WaitingForPermission"
  /\ requests' = requests + 1
  /\ Goto(c, "pm_pending")
  /\ owed' = FALSE
  /\ UNCHANGED <<row, ask, ran, cached, crashes>>

\* pending_tool_call reads the journal: gone means NoPendingToolCall.
ResolveApprove(c) ==
  /\ th[c].pc = "pm_pending"
  /\ Goto(c, IF ask = "open" THEN "pm_exec" ELSE "idle")
  /\ UNCHANGED <<row, ask, ran, cached, requests, crashes, owed>>

ResolveDeny(c) ==
  /\ th[c].pc = "pm_pending"
  /\ ask = "open"
  /\ ask' = "none"
  /\ Call(c, "Failed", "spawn_live")
  /\ UNCHANGED <<row, ran, cached, requests, crashes, owed>>

\* The authorised call runs in the world...
ResolveExecute(c) ==
  /\ th[c].pc = "pm_exec"
  /\ ran' = ran + 1
  /\ Goto(c, "pm_result")
  /\ UNCHANGED <<row, ask, cached, requests, crashes, owed>>

\* ... or is refused by the runtime after all and fails the task...
ResolveRefused(c) ==
  /\ th[c].pc = "pm_exec"
  /\ ask' = "none"
  /\ Call(c, "Failed", "pm_get")
  /\ UNCHANGED <<row, ran, cached, requests, crashes, owed>>

\* Faulty variant of ResolveResult: no TOOL_RESULT is journaled.
ResolveUnrecorded(c) ==
  /\ th[c].pc = "pm_result"
  /\ Goto(c, "pm_get")
  /\ UNCHANGED <<row, ask, ran, cached, requests, crashes, owed>>

\* ... and only then is TOOL_RESULT journaled.
ResolveResult(c) ==
  /\ th[c].pc = "pm_result"
  /\ ask' = "none"
  /\ Goto(c, "pm_get")
  /\ UNCHANGED <<row, ran, cached, requests, crashes, owed>>

\* Resume into the phase that asked, guessed from this process's map.
ResumeTarget(p) == IF cached[p] THEN "Verifying" ELSE "Implementing"

ResolveMove(c) ==
  /\ th[c].pc = "pm_get"
  /\ IF row.state = "WaitingForPermission"
       THEN Call(c, ResumeTarget(Host[c]), "spawn_live")
       ELSE Goto(c, "spawn_live")
  /\ UNCHANGED <<row, ask, ran, cached, requests, crashes, owed>>

\* respond_to_user: the answer is journaled, then the task implements again.
Respond(c) ==
  /\ MayRequest(c, "respond")
  /\ row.state = "WaitingForUser"
  /\ requests' = requests + 1
  /\ Call(c, "Implementing", "spawn_live")
  /\ owed' = FALSE
  /\ UNCHANGED <<row, ask, ran, cached, crashes>>

-----------------------------------------------------------------------------
\* kill -9 of a process: its threads and in-memory maps are gone.  Whether a
\* cancel survives a kill is not part of what `owed` records.
Crash(p) ==
  /\ crashes < MaxCrashes
  /\ \E t \in Threads : Host[t] = p /\ th[t].pc # "idle"
  /\ crashes' = crashes + 1
  /\ th' = [t \in Threads |-> IF Host[t] = p THEN IdleThread ELSE th[t]]
  /\ cached' = [cached EXCEPT ![p] = FALSE]
  /\ owed' = FALSE
  /\ UNCHANGED <<row, ask, ran, requests>>

\* create_and_start_task_with_mode has inserted the row and journaled
\* TaskCreated; its driver is about to be spawned.
Init ==
  /\ row = [state |-> "Idle", from |-> None, signal |-> None]
  /\ ask = "none"
  /\ ran = 0
  /\ cached = [p \in Processes |-> FALSE]
  /\ \E c \in Clients :
       th = [t \in Threads |-> IF t = c THEN [IdleThread EXCEPT !.pc = "spawn"] ELSE IdleThread]
  /\ requests = 0
  /\ crashes = 0
  /\ owed = FALSE

DriverNext(d) ==
  \/ DriverTop(d)
  \/ DriverStep(d)
  \/ DriverStay(d)
  \/ DriverFault(d)
  \/ DriverError(d)
  \/ DriverDone(d)

Transition(t) ==
  \/ TransitionRead(t)
  \/ TransitionWrite(t)
  \/ TransitionJournal(t)

\* A runtime call, once begun, runs on by itself.
ClientContinue(c) ==
  \/ RecoverPause(c)
  \/ RecoverRearm(c)
  \/ ResumeMove(c)
  \/ ResumeRearm(c)
  \/ Spawn(c)
  \/ NoSpawn(c)
  \/ ResolveApprove(c)
  \/ ResolveDeny(c)
  \/ ResolveExecute(c)
  \/ ResolveRefused(c)
  \/ ResolveResult(c)
  \/ ResolveMove(c)

Request(c) ==
  \/ RequestPause(c)
  \/ RequestCancel(c)
  \/ ResumeBegin(c)
  \/ ResolveBegin(c)
  \/ Respond(c)

Next ==
  \/ \E d \in Drivers : DriverNext(d)
  \/ \E t \in Threads : Transition(t)
  \/ \E c \in Clients : ClientContinue(c) \/ Request(c)
  \/ \E p \in Processes : Crash(p)

Spec == Init /\ [][Next]_vars

\* The tokio runtime keeps polling spawned tasks and the store actor answers
\* every call; nobody owes a request, and a crash is never owed.
Fairness ==
  /\ \A d \in Drivers : WF_vars(DriverNext(d))
  /\ \A t \in Threads : WF_vars(Transition(t))
  /\ \A c \in Clients : WF_vars(ClientContinue(c))

FairSpec == Spec /\ Fairness

-----------------------------------------------------------------------------
(* Properties.                                                             *)

\* Every variable keeps its shape.
TypeOK ==
  /\ row \in [state : States, from : States \union {None}, signal : Signals]
  /\ ask \in {"none", "open"}
  /\ ran \in Nat
  /\ cached \in [Processes -> BOOLEAN]
  /\ th \in [Threads -> Thread]
  /\ requests \in Nat
  /\ crashes \in Nat
  /\ owed \in BOOLEAN

\* A paused row always remembers a state `resume` may legally return to,
\* however stale the read that produced it was: transition writes
\* paused_from from its own earlier read, not from the row it overwrites.
PausedCanResume ==
  /\ row.state = "Paused" => row.from # None /\ CanTransitionTo("Paused", row.from)
  /\ row.state # "Paused" => row.from = None

\* "Once reached, a task's state never changes again" (state.rs): not so where
\* transition has tested a row that another thread then moves to a terminal
\* state before the UPDATE, which is keyed by id alone.
TerminalIsFinal ==
  [][row.state \in Terminal => row'.state = row.state]_vars

\* An approval executes the approved call once, and once more at most for each
\* process killed between the execution and its TOOL_RESULT.
ApprovedCallRunsOnce == ran <= 1 + crashes

\* Short of a kill, the only way to wait with no prompt left is an approval in
\* a process whose verify_states outlived the repair loop it was filled for.
OnlyStaleCacheBlocks ==
  Quiet /\ crashes = 0 /\ row.state = "WaitingForPermission" /\ ask # "open"
    => \E p \in Processes : cached[p]

\* Once a cancel of a task at rest has been accepted the driver starts no
\* further step: what clears pending_signal is a transition to a terminal
\* state, a later pause, an answer, or (not counted) the death of a process.
NoStepAfterCancel ==
  [][\A d \in Drivers : th[d].pc = "top" /\ th'[d].pc = "step" => ~owed]_vars

\* A cancel accepted while nothing ran is carried out once the task is
\* resumed, though recovery and resume both clear pending_signal on the way.
ResumeHonoursCancel ==
  (owed /\ \E c \in Clients : th[c].pc \in {"rc_pending", "rs_get"}) ~> ~owed

=============================================================================
