---------------------------- MODULE VerifyRepair ----------------------------
(***************************************************************************)
(* The driver's Verifying -> Diagnosing -> Repairing loop                  *)
(* (crates/valyria-agent/src/driver.rs) for one task.                      *)
(*                                                                         *)
(* What the loop knows is kept twice: in verify_states, a map of each      *)
(* process that only dies with it, and in the journal, from which a        *)
(* process whose map is empty rebuilds the loop detector and the repair    *)
(* ledger, and nothing else.  The journal is represented by `replay`, the  *)
(* value reconstruct_verify_state folds it to: appending an entry applies  *)
(* that entry's arm of the fold.                                           *)
(*                                                                         *)
(* A process may be killed between any two journal entries.  One process   *)
(* drives at a time; another may take over when it pauses, dies or waits.  *)
(* Row writes, signals and concurrent drivers are module TaskLifecycle.    *)
(***************************************************************************)
EXTENDS RepairLoop

CONSTANTS
  Processes,
  Disks,         \* contents of the workspace
  Tooling,       \* the check tiers discovered in a workspace of such contents
  NoFailures,    \* fingerprint of a diagnosis that has no failure
  MaxFiles,      \* bound: files the task touches
  MaxAnswers,    \* bound: answers of the user
  MaxHandovers,  \* bound: pauses
  MaxCrashes     \* bound: process kills

Tiers == {"Syntax", "Style", "Full"}

ASSUME LoopAssumption ==
  /\ Tooling \in [Disks -> SUBSET Tiers]
  /\ None \notin Disks \union Processes
  /\ NoFailures \in Fingerprints
  /\ FailureCount[NoFailures] = 0
  /\ {MaxFiles, MaxAnswers, MaxHandovers, MaxCrashes} \subseteq Nat

VARIABLES
  state,      \* the task's state
  disk,       \* contents of the workspace
  touched,    \* number of files the change ledger holds for the task
  replay,     \* [det, led] rebuilt from the journal as it stands
  vs,         \* verify_states, per process; None where it has no entry
  open,       \* the journal ends in a TOOL effect without an outcome
  at,         \* the process driving the task
  pc,         \* where in a step handler it is
  local,      \* the handler's finding, decision or repair outcome
  verified,   \* history: tiers that passed on the contents now on disk
  answers, handovers, crashes

vars == <<state, disk, touched, replay, vs, open, at, pc, local, verified,
          answers, handovers, crashes>>

counters == <<answers, handovers, crashes>>

Pcs == {"top", "diagnosed", "decided", "editing", "redoing", "edited", "redone",
        "repaired", "attempted"}

\* The states a step may leave the task in without a driver.
Resting == {"WaitingForUser", "Completed", "Failed"}

-----------------------------------------------------------------------------
(* VerifyState                                                             *)

\* Faulty variant of Fresh: the ledger is not rebuilt from the journal.
FreshForgets(rebuilt) ==
  [det |-> rebuilt.det, led |-> EmptyLedger, plan |-> <<>>, executed |-> 0,
   passed |-> FALSE, run |-> [fp |-> NoFailures, disk |-> None],
   diag |-> NoFailures, broaden |-> FALSE, primary |-> FALSE]

\* VerifyState::default() around a detector and a ledger.  `run` is last_run
\* and the contents it was run on; `plan` = <<>> is no plan.
Fresh(rebuilt) ==
  [det |-> rebuilt.det, led |-> rebuilt.led, plan |-> <<>>, executed |-> 0,
   passed |-> FALSE, run |-> [fp |-> NoFailures, disk |-> None],
   diag |-> NoFailures, broaden |-> FALSE, primary |-> FALSE]

\* take_verify_state: the map's entry if there is one, else the replay.
Take(p) == IF vs[p] = None THEN Fresh(replay) ELSE vs[p]

Put(p, v) == vs' = [vs EXCEPT ![p] = v]

Remove(p) == Put(p, None)

-----------------------------------------------------------------------------
(* Verifying                                                               *)

\* EscalationStrategy::plan, one command per tier and nothing targeted.
EscalationPlan(tooling, broaden) ==
  LET Stage(tier) == IF tier \in tooling THEN <<tier>> ELSE <<>>
  IN Stage("Syntax") \o (IF broaden THEN <<>> ELSE Stage("Style")) \o Stage("Full")

\* The plan is made on first entry and after a repair dropped it.
Planned(v) ==
  IF v.plan # <<>> THEN v
  ELSE [v EXCEPT !.plan = EscalationPlan(Tooling[disk], v.broaden),
                 !.executed = 0, !.passed = TRUE]

\* VerificationPlan::next_after: a failure stops the escalation.
HasNext(v) == (v.executed = 0 \/ v.passed) /\ v.executed < Len(v.plan)

Driving(p, s) == at = p /\ pc = "top" /\ state = s

\* Transition to a state in which run_with_role returns or goes on.
MoveTo(s) ==
  /\ state' = s
  /\ pc' = "top"
  /\ local' = None
  /\ at' = IF s \in Resting THEN None ELSE at

\* Nothing to verify: an honest completion.
VerifyNothing(p) ==
  /\ Driving(p, "Verifying")
  /\ Planned(Take(p)).plan = <<>>
  /\ Put(p, Take(p))
  /\ MoveTo("Completed")
  /\ UNCHANGED <<disk, touched, replay, open, verified, counters>>

\* One check of the plan runs, its result is journaled.  A failing result
\* takes no part in the replay, and the transition follows it at once.
VerifyPass(p) ==
  LET v == Planned(Take(p))
  IN /\ Driving(p, "Verifying")
     /\ HasNext(v)
     /\ Put(p, [v EXCEPT !.executed = @ + 1, !.passed = TRUE,
                         !.run = [fp |-> NoFailures, disk |-> disk],
                         !.det = ObservePass(@)])
     /\ replay' = [replay EXCEPT !.det = ObservePass(@)]
     /\ verified' = verified \union {v.plan[v.executed + 1]}
     /\ UNCHANGED <<state, disk, touched, open, at, pc, local, counters>>

VerifyFail(p) ==
  LET v == Planned(Take(p))
  IN /\ Driving(p, "Verifying")
     /\ HasNext(v)
     /\ \E fp \in Fingerprints :
          Put(p, [v EXCEPT !.executed = @ + 1, !.passed = FALSE,
                           !.run = [fp |-> fp, disk |-> disk]])
     /\ verified' = verified \ {v.plan[v.executed + 1]}
     /\ MoveTo("Diagnosing")
     /\ UNCHANGED <<disk, touched, replay, open, counters>>

\* The last check recorded has failed: go and diagnose it.
VerifyStopped(p) ==
  LET v == Planned(Take(p))
  IN /\ Driving(p, "Verifying")
     /\ v.plan # <<>> /\ ~HasNext(v) /\ ~v.passed
     /\ Put(p, v)
     /\ MoveTo("Diagnosing")
     /\ UNCHANGED <<disk, touched, replay, open, verified, counters>>

\* The plan is exhausted and everything passed.
VerifyDone(p) ==
  LET v == Planned(Take(p))
  IN /\ Driving(p, "Verifying")
     /\ v.plan # <<>> /\ ~HasNext(v) /\ v.passed
     /\ Put(p, v)
     /\ MoveTo("Completed")
     /\ UNCHANGED <<disk, touched, replay, open, verified, counters>>

-----------------------------------------------------------------------------
(* Diagnosing                                                              *)

\* DIAGNOSIS is journaled with what the detector is then told.
Diagnose(p) ==
  LET v      == Take(p)
      metric == [frontier |-> v.executed, failures |-> FailureCount[v.run.fp],
                 touched  |-> touched]
      live   == ObserveDiagnosis(v.det, v.run.fp, disk, metric)
  IN /\ Driving(p, "Diagnosing")
     /\ replay' = [replay EXCEPT !.det = ObserveDiagnosis(@, v.run.fp, disk, metric).det]
     /\ Put(p, [v EXCEPT !.det = live.det, !.diag = v.run.fp])
     /\ pc' = "diagnosed"
     /\ local' = live.finding
     /\ UNCHANGED <<state, disk, touched, open, at, verified, counters>>

\* REPAIR_DECISION is journaled ...
DecideRepair(p) ==
  LET decision == Decide(Take(p).led, Take(p).diag, local)
  IN /\ at = p /\ pc = "diagnosed"
     /\ replay' = [replay EXCEPT !.led = Mark(@, decision)]
     /\ pc' = "decided"
     /\ local' = decision
     /\ UNCHANGED <<state, disk, touched, vs, open, at, verified, counters>>

\* ... and then acted on.
DecisionState(decision) ==
  CASE decision = "AskUser" -> "WaitingForUser"
    [] decision = "GiveUp"  -> "Failed"
    [] OTHER                -> "Repairing"

ActOnDecision(p) ==
  LET v     == Take(p)
      wider == local \in {"EscalateStrategy", "SwitchRole"}
  IN /\ at = p /\ pc = "decided"
     /\ IF local = "GiveUp" THEN Remove(p)
        ELSE Put(p, [v EXCEPT !.led = Mark(@, local),
                              !.plan = IF wider THEN <<>> ELSE @,
                              !.broaden = @ \/ local = "EscalateStrategy",
                              !.primary = @ \/ local = "SwitchRole"])
     /\ MoveTo(DecisionState(local))
     /\ UNCHANGED <<disk, touched, replay, open, verified, counters>>

-----------------------------------------------------------------------------
(* Repairing                                                               *)

\* The model answers with an edit, or says it is done without one.
RepairEdit(p) ==
  /\ Driving(p, "Repairing")
  /\ ~open
  /\ open' = TRUE
  /\ pc' = "editing"
  /\ local' = "Improved"
  /\ Put(p, Take(p))
  /\ UNCHANGED <<state, disk, touched, replay, at, verified, counters>>

RepairFinish(p) ==
  /\ Driving(p, "Repairing")
  /\ ~open
  /\ pc' = "repaired"
  /\ local' = "NoChange"
  /\ Put(p, Take(p))
  /\ UNCHANGED <<state, disk, touched, replay, open, at, verified, counters>>

\* It asks: an attempt all the same, and the plan is kept.
RepairAsk(p) ==
  LET v == Take(p)
  IN /\ Driving(p, "Repairing")
     /\ ~open
     /\ replay' = [replay EXCEPT !.led = Record(@, v.diag, "NoChange")]
     /\ Put(p, [v EXCEPT !.led = Record(@, v.diag, "NoChange")])
     /\ MoveTo("WaitingForUser")
     /\ UNCHANGED <<disk, touched, open, verified, counters>>

\* D1: an edit without an outcome is issued again before anything new, and
\* neither counts as an attempt nor reaches verify_states.
RepairRedo(p) ==
  /\ Driving(p, "Repairing")
  /\ open
  /\ pc' = "redoing"
  /\ UNCHANGED <<state, disk, touched, replay, vs, open, at, local, verified, counters>>

\* The edit changes the workspace, or changes nothing.
Write ==
  /\ disk' \in Disks
  /\ touched' \in {touched} \union {n \in {touched + 1} : n <= MaxFiles}
  /\ verified' = IF disk' = disk THEN verified ELSE {}

ToolRuns(p) ==
  /\ at = p /\ pc \in {"editing", "redoing"}
  /\ Write
  /\ pc' = IF pc = "editing" THEN "edited" ELSE "redone"
  /\ UNCHANGED <<state, replay, vs, open, at, local, counters>>

\* Faulty variant of ToolResult: a redone edit never gets its outcome.
ToolResultLost(p) ==
  /\ at = p
  /\ \/ pc = "edited" /\ pc' = "repaired" /\ open' = FALSE
     \/ pc = "redone" /\ pc' = "top" /\ UNCHANGED open
  /\ UNCHANGED <<state, at, local, disk, touched, replay, vs, verified, counters>>

ToolResult(p) ==
  /\ at = p
  /\ open' = FALSE
  /\ \/ pc = "edited" /\ pc' = "repaired" /\ UNCHANGED <<state, at, local>>
     \/ pc = "redone" /\ MoveTo("Verifying")
  /\ UNCHANGED <<disk, touched, replay, vs, verified, counters>>

\* Denied: TOOL_DENIED, Failed; a first try still journals its attempt.
ToolDenied(p) ==
  /\ at = p
  /\ open' = FALSE
  /\ MoveTo("Failed")
  /\ \/ /\ pc = "editing"
        /\ replay' = [replay EXCEPT !.led = Record(@, Take(p).diag, local)]
        /\ Remove(p)
     \/ /\ pc = "redoing"
        /\ UNCHANGED <<replay, vs>>
  /\ UNCHANGED <<disk, touched, verified, counters>>

\* Permission is asked: Repairing has no edge to WaitingForPermission, and
\* spawn_driver fails the task over the error.
ToolAsks(p) ==
  /\ at = p /\ pc \in {"editing", "redoing"}
  /\ open' = FALSE
  /\ MoveTo("Failed")
  /\ UNCHANGED <<disk, touched, replay, vs, verified, counters>>

\* Faulty variants of RecordAttempt: the plan goes on after the check that
\* failed; the plan is left as the failed check left it.
RecordKeepingPlan(p, passed) ==
  /\ at = p /\ pc = "repaired"
  /\ replay' = [replay EXCEPT !.led = Record(@, Take(p).diag, local)]
  /\ Put(p, [Take(p) EXCEPT !.led = Record(@, Take(p).diag, local), !.passed = passed])
  /\ pc' = "attempted"
  /\ UNCHANGED <<state, disk, touched, open, at, local, verified, counters>>
RecordGoingOn(p) == RecordKeepingPlan(p, TRUE)
RecordLeavingPlan(p) == RecordKeepingPlan(p, FALSE)

\* REPAIR_ATTEMPT is journaled, and the detector sees the files once more.
RecordAttempt(p) ==
  LET v   == Take(p)
      sig == [act |-> None, err |-> None, files |-> disk]
  IN /\ at = p /\ pc = "repaired"
     /\ replay' = [replay EXCEPT !.led = Record(@, v.diag, local)]
     /\ Put(p, [v EXCEPT !.led = Record(@, v.diag, local), !.plan = <<>>,
                         !.executed = 0, !.passed = TRUE,
                         !.det = ObserveStep(@, sig).det])
     /\ pc' = "attempted"
     /\ UNCHANGED <<state, disk, touched, open, at, local, verified, counters>>

RepairDone(p) ==
  /\ at = p /\ pc = "attempted"
  /\ MoveTo("Verifying")
  /\ UNCHANGED <<disk, touched, replay, vs, open, verified, counters>>

-----------------------------------------------------------------------------
(* Around the loop                                                         *)

\* Any `?` of a step: spawn_driver fails the task.
Fault(p) ==
  /\ at = p /\ pc = "top"
  /\ MoveTo("Failed")
  /\ UNCHANGED <<disk, touched, replay, vs, open, verified, counters>>

\* respond_to_user goes back to Implementing, in the process that was asked.
Respond(p) ==
  /\ state = "WaitingForUser"
  /\ answers < MaxAnswers
  /\ answers' = answers + 1
  /\ state' = "Implementing"
  /\ at' = p
  /\ UNCHANGED <<disk, touched, replay, vs, open, pc, local, verified, handovers, crashes>>

\* The main loop edits and finishes; it knows nothing of verify_states.
Implement(p) ==
  /\ Driving(p, "Implementing")
  /\ Write
  /\ MoveTo("Verifying")
  /\ UNCHANGED <<replay, vs, open, counters>>

\* A pause takes effect at the loop head; any process may resume.
Pause(p) ==
  /\ at = p /\ pc = "top"
  /\ handovers < MaxHandovers
  /\ handovers' = handovers + 1
  /\ at' = None
  /\ UNCHANGED <<state, disk, touched, replay, vs, open, pc, local, verified, answers, crashes>>

Resume(p) ==
  /\ at = None
  /\ state \notin Resting
  /\ at' = p
  /\ UNCHANGED <<state, disk, touched, replay, vs, open, pc, local, verified, counters>>

Crash(p) ==
  /\ at = p
  /\ crashes < MaxCrashes
  /\ crashes' = crashes + 1
  /\ at' = None
  /\ pc' = "top"
  /\ local' = None
  /\ Remove(p)
  /\ UNCHANGED <<state, disk, touched, replay, open, verified, answers, handovers>>

\* The task enters Verifying for the first time, its edits made.
Init ==
  /\ state = "Verifying"
  /\ disk \in Disks
  /\ touched \in 0..MaxFiles
  /\ replay = [det |-> EmptyDetector, led |-> EmptyLedger]
  /\ vs = [p \in Processes |-> None]
  /\ open = FALSE
  /\ at \in Processes
  /\ pc = "top"
  /\ local = None
  /\ verified = {}
  /\ answers = 0 /\ handovers = 0 /\ crashes = 0

Step(p) ==
  \/ VerifyNothing(p)
  \/ VerifyPass(p)
  \/ VerifyFail(p)
  \/ VerifyStopped(p)
  \/ VerifyDone(p)
  \/ Diagnose(p)
  \/ DecideRepair(p)
  \/ ActOnDecision(p)
  \/ RepairEdit(p)
  \/ RepairFinish(p)
  \/ RepairAsk(p)
  \/ RepairRedo(p)
  \/ ToolRuns(p)
  \/ ToolResult(p)
  \/ ToolDenied(p)
  \/ ToolAsks(p)
  \/ RecordAttempt(p)
  \/ RepairDone(p)
  \/ Implement(p)
  \/ Fault(p)

Next == \E p \in Processes : Step(p) \/ Respond(p) \/ Pause(p) \/ Resume(p) \/ Crash(p)

Spec == Init /\ [][Next]_vars

\* A spawned driver keeps being polled; checks and models time out.  This is
\* weak fairness of Step(p), spelt out: a step is possible exactly while p
\* drives, and is what then happens unless the user or a kill comes first.
FairSpec ==
  /\ Spec
  /\ \A p \in Processes : []<>(at # p) \/ []<><<at = p /\ UNCHANGED counters>>_vars

-----------------------------------------------------------------------------
(* Properties                                                              *)

VerifyState ==
  [det : Detector(Disks), led : Ledger, plan : Seq(Tiers), executed : Nat, passed : BOOLEAN,
   run : [fp : Fingerprints, disk : Disks \union {None}], diag : Fingerprints,
   broaden : BOOLEAN, primary : BOOLEAN]

\* A missing entry of the map is no entry.
ASSUME EntryAssumption == None \notin VerifyState

\* Every variable keeps its shape.
TypeOK ==
  /\ state \in {"Implementing", "Verifying", "Diagnosing", "Repairing"} \union Resting
  /\ disk \in Disks
  /\ touched \in Nat
  /\ replay \in [det : Detector(Disks), led : Ledger]
  /\ vs \in [Processes -> VerifyState \union {None}]
  /\ open \in BOOLEAN
  /\ at \in Processes \union {None}
  /\ pc \in Pcs
  /\ local \in Findings \union Decisions \union Outcomes
  /\ pc \in {"editing", "edited", "repaired"} => local \in Outcomes
  /\ verified \subseteq Tiers
  /\ {answers, handovers, crashes} \subseteq Nat

Attempts == Len(replay.led.attempts)

\* The bound of the repair loop: however the task is killed and recovered,
\* the journal never holds more than MAX_REPAIR_ATTEMPTS attempts, and one
\* for each kill (a kill between REPAIR_ATTEMPT and the transition to
\* Verifying lets Repairing run again without a decision).
AttemptsBounded == Attempts <= MaxAttempts + crashes

\* At the loop head the ledger a process works with is the one the journal
\* holds: attempts, escalation and switch survive kills and hand-overs.
LedgerIsDurable ==
  pc = "top" /\ at # None => Take(at).led = replay.led

\* A task completes only when every check of the workspace's plan, with or
\* without the style gates, passed on the very contents it completes with.
VerifiedCompletion ==
  [][state' = "Completed" /\ state # "Completed" => Tooling[disk] \ {"Style"} \subseteq verified]_vars

\* Diagnosing follows a check that failed on the contents now on disk, unless
\* the user's answer sent the task through Implementing with the old plan.
DiagnosisIsCurrent ==
  [][state = "Verifying" /\ state' = "Diagnosing" /\ answers = 0
       => Take(at)'.run.disk = disk]_vars

\* The loop never spins: left to itself, a driven task comes to rest.
ComesToRest == at # None ~> (at = None \/ state \in Resting)

=============================================================================
