------------------------- MODULE VerifyRepair_proofs -------------------------
(***************************************************************************)
(* Theorems about VerifyRepair: its types for any instance, and, when one  *)
(* process ever drives the task, the bound on repair attempts and what a   *)
(* completion and a diagnosis are about.                                   *)
(***************************************************************************)
EXTENDS VerifyRepair, TLAPS

-----------------------------------------------------------------------------
(* The operators of RepairLoop stay within their types.                    *)

LEMMA StepTyped ==
  ASSUME NEW det \in Detector(Disks), NEW sig \in Signature(Disks)
  PROVE  /\ ObserveStep(det, sig).det \in Detector(Disks)
         /\ ObserveStep(det, sig).finding \in Findings
<1> DEFINE steps == Append(det.steps, sig)
           same == det.steps # <<>> /\ det.steps[Len(det.steps)].files = sig.files
           unchanged == IF same THEN det.unchanged + 1 ELSE 0
<1>1. steps \in Seq(Signature(Disks)) /\ unchanged \in Nat
  BY DEF Detector
<1>2. [det EXCEPT !.steps = steps, !.unchanged = unchanged] \in Detector(Disks)
  BY <1>1 DEF Detector
<1>3. ObserveStep(det, sig).det = [det EXCEPT !.steps = steps, !.unchanged = unchanged]
  BY DEF ObserveStep
<1>4. ObserveStep(det, sig).finding \in Findings
  BY DEF ObserveStep, Findings
<1>5. QED
  BY <1>2, <1>3, <1>4

LEMMA FailureTyped ==
  ASSUME NEW det \in Detector(Disks), NEW fp \in Fingerprints
  PROVE  /\ ObserveFailure(det, fp).det \in Detector(Disks)
         /\ ObserveFailure(det, fp).finding \in Findings
<1>1. Append(det.failures, fp) \in Seq(Fingerprints)
  BY DEF Detector
<1>2. [det EXCEPT !.failures = Append(det.failures, fp)] \in Detector(Disks)
  BY <1>1 DEF Detector
<1>3. QED
  BY <1>2 DEF ObserveFailure, Findings

LEMMA ProgressTyped ==
  ASSUME NEW det \in Detector(Disks), NEW metric \in Metric
  PROVE  /\ ObserveProgress(det, metric).det \in Detector(Disks)
         /\ ObserveProgress(det, metric).finding \in Findings
<1> DEFINE stalled == IF det.metric = None THEN det.stalled
                      ELSE IF Advanced(metric, det.metric) THEN 0 ELSE det.stalled + 1
<1>1. stalled \in Nat
  BY DEF Detector
<1>2. [det EXCEPT !.metric = metric, !.stalled = stalled] \in Detector(Disks)
  BY <1>1 DEF Detector
<1>3. QED
  BY <1>2 DEF ObserveProgress, Findings

\* The whole `or_else` chain.
LEMMA DiagnosisTyped ==
  ASSUME NEW det \in Detector(Disks), NEW fp \in Fingerprints,
         NEW files \in Disks, NEW metric \in Metric
  PROVE  /\ ObserveDiagnosis(det, fp, files, metric).det \in Detector(Disks)
         /\ ObserveDiagnosis(det, fp, files, metric).finding \in Findings
<1> DEFINE sig == [act |-> None, err |-> fp, files |-> files]
<1>1. sig \in Signature(Disks)
  BY DEF Signature
<1>2. /\ ObserveStep(det, sig).det \in Detector(Disks)
      /\ ObserveStep(det, sig).finding \in Findings
  BY <1>1, StepTyped
<1> DEFINE f == ObserveFailure(ObserveStep(det, sig).det, fp)
<1>3. f.det \in Detector(Disks) /\ f.finding \in Findings
  BY <1>2, FailureTyped
<1>4. /\ ObserveProgress(f.det, metric).det \in Detector(Disks)
      /\ ObserveProgress(f.det, metric).finding \in Findings
  BY <1>3, ProgressTyped
<1>5. QED
  BY <1>2, <1>3, <1>4 DEF ObserveDiagnosis

\* A recorded attempt is one more attempt, and changes nothing else.
LEMMA RecordTyped ==
  ASSUME NEW led \in Ledger, NEW fp \in Fingerprints, NEW outcome \in Outcomes
  PROVE  /\ Record(led, fp, outcome) \in Ledger
         /\ Len(Record(led, fp, outcome).attempts) = Len(led.attempts) + 1
<1> DEFINE attempts == Append(led.attempts, [fp |-> fp, outcome |-> outcome])
<1>1. /\ attempts \in Seq([fp : Fingerprints, outcome : Outcomes])
      /\ Len(attempts) = Len(led.attempts) + 1
  BY DEF Ledger
<1>2. Record(led, fp, outcome) = [led EXCEPT !.attempts = attempts]
  BY DEF Record
<1>3. Record(led, fp, outcome) \in Ledger /\ Record(led, fp, outcome).attempts = attempts
  <2> HIDE DEF attempts
  <2> QED
    BY <1>1, <1>2 DEF Ledger
<1>4. QED
  BY <1>1, <1>3

LEMMA MarkTyped ==
  ASSUME NEW led \in Ledger, NEW decision
  PROVE  Mark(led, decision) \in Ledger /\ Mark(led, decision).attempts = led.attempts
BY DEF Ledger, Mark

\* The ledger only says something other than GiveUp while it has budget.
LEMMA DecideTyped ==
  ASSUME NEW led \in Ledger, NEW fp, NEW finding
  PROVE  /\ Decide(led, fp, finding) \in Decisions
         /\ Decide(led, fp, finding) # "GiveUp" => Len(led.attempts) < MaxAttempts
BY RepairAssumption DEF Decide, EscalateOrAsk, Decisions, Ledger

LEMMA PlanTyped ==
  ASSUME NEW tooling, NEW broaden
  PROVE  EscalationPlan(tooling, broaden) \in Seq(Tiers)
<1> DEFINE Stage(tier) == IF tier \in tooling THEN <<tier>> ELSE <<>>
<1>1. /\ Stage("Syntax") \in Seq(Tiers)
      /\ (IF broaden THEN <<>> ELSE Stage("Style")) \in Seq(Tiers)
      /\ Stage("Full") \in Seq(Tiers)
  <2>1. ASSUME NEW tier \in Tiers PROVE <<tier>> \in Seq(Tiers) /\ <<>> \in Seq(Tiers)
    OBVIOUS
  <2>2. QED
    BY <2>1 DEF Tiers
<1>2. EscalationPlan(tooling, broaden)
        = Stage("Syntax") \o (IF broaden THEN <<>> ELSE Stage("Style")) \o Stage("Full")
  BY DEF EscalationPlan
<1>3. ASSUME NEW a \in Seq(Tiers), NEW b \in Seq(Tiers), NEW c \in Seq(Tiers)
      PROVE  a \o b \o c \in Seq(Tiers)
  OBVIOUS
<1>4. QED
  <2> HIDE DEF Stage
  <2> QED
    BY <1>1, <1>2, <1>3

-----------------------------------------------------------------------------
(* VerifyState                                                             *)

Reps == [det : Detector(Disks), led : Ledger]

LEMMA FreshTyped ==
  ASSUME NEW rebuilt \in Reps
  PROVE  Fresh(rebuilt) \in VerifyState /\ Fresh(rebuilt).led = rebuilt.led
<1>1. <<>> \in Seq(Tiers)
  OBVIOUS
<1>2. QED
  BY <1>1, LoopAssumption DEF Fresh, VerifyState, Reps

LEMMA TakeTyped ==
  ASSUME TypeOK, NEW p \in Processes
  PROVE  Take(p) \in VerifyState
BY FreshTyped DEF TypeOK, Take, Reps

\* Recording a run's result keeps an entry well formed.
LEMMA RanTyped ==
  ASSUME NEW v \in VerifyState, NEW passed \in BOOLEAN, NEW det \in Detector(Disks),
         NEW run \in [fp : Fingerprints, disk : Disks \union {None}]
  PROVE  [v EXCEPT !.executed = @ + 1, !.passed = passed, !.run = run, !.det = det] \in VerifyState
<1>1. v.executed + 1 \in Nat
  BY DEF VerifyState
<1>2. ASSUME NEW n \in Nat
      PROVE  [v EXCEPT !.executed = n, !.passed = passed, !.run = run, !.det = det] \in VerifyState
  <2>1. [v EXCEPT !.executed = n] \in VerifyState
    BY DEF VerifyState
  <2>2. ASSUME NEW w \in VerifyState PROVE [w EXCEPT !.passed = passed] \in VerifyState
    BY Zenon DEF VerifyState
  <2>3. ASSUME NEW w \in VerifyState PROVE [w EXCEPT !.run = run] \in VerifyState
    BY DEF VerifyState
  <2>4. ASSUME NEW w \in VerifyState PROVE [w EXCEPT !.det = det] \in VerifyState
    BY DEF VerifyState
  <2>5. QED
    BY <2>1, <2>2, <2>3, <2>4
<1>3. QED
  BY <1>1, <1>2

LEMMA PlannedTyped ==
  ASSUME TypeOK, NEW v \in VerifyState
  PROVE  Planned(v) \in VerifyState /\ Planned(v).led = v.led
<1>1. EscalationPlan(Tooling[disk], v.broaden) \in Seq(Tiers)
  BY PlanTyped
<1>2. QED
  BY <1>1 DEF Planned, VerifyState

\* Putting an entry keeps the map well formed.
LEMMA PutTyped ==
  ASSUME TypeOK, NEW p \in Processes, NEW v \in VerifyState \union {None}, Put(p, v)
  PROVE  vs' \in [Processes -> VerifyState \union {None}] /\ vs'[p] = v
BY DEF Put, TypeOK

LEMMA MoveTyped ==
  ASSUME TypeOK, NEW s \in {"Implementing", "Verifying", "Diagnosing", "Repairing"} \union Resting,
         MoveTo(s)
  PROVE  /\ state' \in {"Implementing", "Verifying", "Diagnosing", "Repairing"} \union Resting
         /\ pc' \in Pcs /\ pc' = "top"
         /\ local' \in Findings \union Decisions \union Outcomes
         /\ at' \in Processes \union {None} /\ at' \in {at, None}
BY DEF MoveTo, TypeOK, Pcs, Findings

-----------------------------------------------------------------------------
\* Every variable keeps its shape, whatever processes, contents, checks,
\* fingerprints and bounds.
THEOREM TypeCorrect == Spec => []TypeOK
<1>1. Init => TypeOK
  <2> SUFFICES ASSUME Init PROVE TypeOK
    OBVIOUS
  <2>1. EmptyDetector \in Detector(Disks) /\ EmptyLedger \in Ledger
    BY DEF EmptyDetector, Detector, EmptyLedger, Ledger
  <2>2. touched \in Nat
    BY LoopAssumption DEF Init
  <2>3. replay \in [det : Detector(Disks), led : Ledger]
    BY <2>1 DEF Init
  <2>4. vs \in [Processes -> VerifyState \union {None}]
    BY DEF Init
  <2>5. /\ state \in {"Implementing", "Verifying", "Diagnosing", "Repairing"} \union Resting
        /\ pc \in Pcs /\ local \in Findings \union Decisions \union Outcomes
        /\ at \in Processes \union {None} /\ disk \in Disks
        /\ open \in BOOLEAN /\ verified \subseteq Tiers
    BY DEF Init, Pcs, Findings
  <2>6. {answers, handovers, crashes} \subseteq Nat
    BY DEF Init
  <2>7. QED
    BY <2>2, <2>3, <2>4, <2>5, <2>6 DEF TypeOK, Init
<1>2. TypeOK /\ [Next]_vars => TypeOK'
  <2> SUFFICES ASSUME TypeOK, [Next]_vars PROVE TypeOK'
    OBVIOUS
  <2>0. /\ replay.det \in Detector(Disks) /\ replay.led \in Ledger
        /\ replay \in [det : Detector(Disks), led : Ledger]
        /\ disk \in Disks /\ touched \in Nat /\ verified \subseteq Tiers
    BY DEF TypeOK
  <2>a. ASSUME NEW det \in Detector(Disks)
        PROVE  [replay EXCEPT !.det = det] \in [det : Detector(Disks), led : Ledger]
    BY <2>0
  <2>b. ASSUME NEW led \in Ledger
        PROVE  [replay EXCEPT !.led = led] \in [det : Detector(Disks), led : Ledger]
    BY <2>0
  <2>c. ASSUME Write PROVE disk' \in Disks /\ touched' \in Nat /\ verified' \subseteq Tiers
    BY <2>0, <2>c, LoopAssumption DEF Write
  <2>1. ASSUME NEW p \in Processes, Step(p) PROVE TypeOK'
    <3> DEFINE v == Take(p)
    <3>0. v \in VerifyState /\ Planned(v) \in VerifyState
      BY TakeTyped, PlannedTyped
    <3> HIDE DEF v
    <3>1. CASE VerifyNothing(p)
      <4>1. vs' \in [Processes -> VerifyState \union {None}]
        BY <3>0, <3>1, PutTyped DEF VerifyNothing, v
      <4>2. QED
        BY <3>1, <4>1, MoveTyped DEF VerifyNothing, TypeOK, Resting, counters
    <3>2. CASE VerifyPass(p)
      <4> DEFINE w == Planned(v)
                 x == [w EXCEPT !.executed = @ + 1, !.passed = TRUE,
                                !.run = [fp |-> NoFailures, disk |-> disk], !.det = ObservePass(@)]
      <4>0. ASSUME NEW det \in Detector(Disks) PROVE ObservePass(det) \in Detector(Disks)
        <5>1. <<>> \in Seq(Fingerprints)
          OBVIOUS
        <5>2. QED
          BY <5>1 DEF ObservePass, Detector
      <4>1. x \in VerifyState
        <5>1. w \in VerifyState /\ [fp |-> NoFailures, disk |-> disk] \in [fp : Fingerprints, disk : Disks \union {None}]
          BY <2>0, <3>0, LoopAssumption
        <5> HIDE DEF w
        <5>2. ObservePass(w.det) \in Detector(Disks)
          BY <4>0, <5>1 DEF VerifyState
        <5>3. QED
          BY <5>1, <5>2, RanTyped
      <4>2. vs' \in [Processes -> VerifyState \union {None}]
        BY <3>2, <4>1, PutTyped DEF VerifyPass, v
      <4>3. replay' \in [det : Detector(Disks), led : Ledger]
        BY <2>0, <2>a, <3>2, <4>0 DEF VerifyPass
      <4>4. w.plan[w.executed + 1] \in Tiers
        BY <3>0, <3>2 DEF VerifyPass, HasNext, VerifyState, v
      <4>5. verified' \subseteq Tiers
        BY <2>0, <3>2, <4>4 DEF VerifyPass, v
      <4>6. QED
        BY <3>2, <4>2, <4>3, <4>5 DEF VerifyPass, TypeOK, counters
    <3>3. CASE VerifyFail(p)
      <4> DEFINE w == Planned(v)
      <4>1. PICK fp \in Fingerprints :
              Put(p, [w EXCEPT !.executed = @ + 1, !.passed = FALSE, !.run = [fp |-> fp, disk |-> disk]])
        BY <3>3 DEF VerifyFail, v
      <4>2. [w EXCEPT !.executed = @ + 1, !.passed = FALSE, !.run = [fp |-> fp, disk |-> disk]]
              \in VerifyState
        <5>1. w \in VerifyState /\ [fp |-> fp, disk |-> disk] \in [fp : Fingerprints, disk : Disks \union {None}]
          BY <2>0, <3>0
        <5> HIDE DEF w
        <5>2. w.det \in Detector(Disks)
          BY <5>1 DEF VerifyState
        <5>3. [w EXCEPT !.executed = @ + 1, !.passed = FALSE, !.run = [fp |-> fp, disk |-> disk]]
                = [w EXCEPT !.executed = @ + 1, !.passed = FALSE, !.run = [fp |-> fp, disk |-> disk], !.det = w.det]
          BY <5>1 DEF VerifyState
        <5>4. QED
          BY <5>1, <5>2, <5>3, RanTyped
      <4>3. vs' \in [Processes -> VerifyState \union {None}]
        BY <4>1, <4>2, PutTyped
      <4>4. verified' \subseteq Tiers
        BY <2>0, <3>3 DEF VerifyFail
      <4>5. QED
        BY <3>3, <4>3, <4>4, MoveTyped DEF VerifyFail, TypeOK, counters
    <3>4. CASE VerifyStopped(p) \/ VerifyDone(p)
      <4>1. vs' \in [Processes -> VerifyState \union {None}]
        BY <3>0, <3>4, PutTyped DEF VerifyStopped, VerifyDone, v
      <4>2. QED
        BY <3>4, <4>1, MoveTyped DEF VerifyStopped, VerifyDone, TypeOK, Resting, counters
    <3>5. CASE Diagnose(p)
      <4> DEFINE metric == [frontier |-> v.executed, failures |-> FailureCount[v.run.fp],
                            touched |-> touched]
                 live == ObserveDiagnosis(v.det, v.run.fp, disk, metric)
                 redo == ObserveDiagnosis(replay.det, v.run.fp, disk, metric)
      <4>1. metric \in Metric /\ v.run.fp \in Fingerprints /\ v.det \in Detector(Disks)
        BY <2>0, <3>0, RepairAssumption DEF Metric, VerifyState
      <4>2. /\ live.det \in Detector(Disks) /\ live.finding \in Findings
            /\ redo.det \in Detector(Disks)
        BY <2>0, <4>1, DiagnosisTyped
      <4>3. /\ replay' = [replay EXCEPT !.det = redo.det]
            /\ Put(p, [v EXCEPT !.det = live.det, !.diag = v.run.fp])
            /\ local' = live.finding
        BY <3>5 DEF Diagnose, v
      <4> HIDE DEF live, redo, metric
      <4>4. [v EXCEPT !.det = live.det, !.diag = v.run.fp] \in VerifyState
        BY <3>0, <4>1, <4>2 DEF VerifyState
      <4>5. vs' \in [Processes -> VerifyState \union {None}]
        BY <4>3, <4>4, PutTyped
      <4>6. replay' \in [det : Detector(Disks), led : Ledger]
        BY <2>a, <4>2, <4>3
      <4>7. QED
        BY <3>5, <4>2, <4>3, <4>5, <4>6 DEF Diagnose, TypeOK, Pcs, counters
    <3>6. CASE DecideRepair(p)
      <4> DEFINE decision == Decide(v.led, v.diag, local)
      <4>1. decision \in Decisions
        BY <3>0, DecideTyped DEF VerifyState
      <4>2. Mark(replay.led, decision) \in Ledger
        BY <2>0, MarkTyped
      <4>3. local' = decision /\ replay' = [replay EXCEPT !.led = Mark(@, decision)]
        BY <3>6 DEF DecideRepair, v
      <4> HIDE DEF decision
      <4>4. replay' \in [det : Detector(Disks), led : Ledger]
        BY <2>b, <4>2, <4>3
      <4>5. QED
        BY <3>6, <4>1, <4>3, <4>4 DEF DecideRepair, TypeOK, Pcs, counters
    <3>7. CASE ActOnDecision(p)
      <4> DEFINE x == [v EXCEPT !.led = Mark(@, local),
                                !.plan = IF local \in {"EscalateStrategy", "SwitchRole"} THEN <<>> ELSE @,
                                !.broaden = @ \/ local = "EscalateStrategy",
                                !.primary = @ \/ local = "SwitchRole"]
      <4>1. Mark(v.led, local) \in Ledger /\ <<>> \in Seq(Tiers)
        BY <3>0, MarkTyped DEF VerifyState
      <4>2. x \in VerifyState
        BY <3>0, <4>1 DEF VerifyState
      <4>3. Remove(p) \/ Put(p, x)
        BY <3>7 DEF ActOnDecision, v
      <4> HIDE DEF x
      <4>4. vs' \in [Processes -> VerifyState \union {None}]
        BY <4>2, <4>3, PutTyped DEF Remove
      <4>5. DecisionState(local) \in {"Repairing"} \union Resting
        BY DEF DecisionState, Resting
      <4>6. QED
        BY <3>7, <4>4, <4>5, MoveTyped DEF ActOnDecision, TypeOK, counters
    <3>8. CASE RepairEdit(p) \/ RepairFinish(p)
      <4>1. vs' \in [Processes -> VerifyState \union {None}]
        BY <3>0, <3>8, PutTyped DEF RepairEdit, RepairFinish, v
      <4>2. QED
        BY <3>8, <4>1 DEF RepairEdit, RepairFinish, TypeOK, Pcs, Outcomes, counters
    <3>9. CASE RepairAsk(p)
      <4>1. v.diag \in Fingerprints /\ v.led \in Ledger /\ "NoChange" \in Outcomes
        BY <3>0 DEF VerifyState, Outcomes
      <4>2. Record(v.led, v.diag, "NoChange") \in Ledger /\ Record(replay.led, v.diag, "NoChange") \in Ledger
        BY <2>0, <4>1, RecordTyped
      <4>3. [v EXCEPT !.led = Record(@, v.diag, "NoChange")] \in VerifyState
        BY <3>0, <4>2 DEF VerifyState
      <4>4. vs' \in [Processes -> VerifyState \union {None}]
        BY <3>9, <4>3, PutTyped DEF RepairAsk, v
      <4>5. replay' \in [det : Detector(Disks), led : Ledger]
        BY <2>b, <3>9, <4>2 DEF RepairAsk, v
      <4>6. QED
        BY <3>9, <4>4, <4>5, MoveTyped DEF RepairAsk, TypeOK, Resting, counters
    <3>10. CASE RepairRedo(p)
      BY <3>10 DEF RepairRedo, TypeOK, Pcs, counters
    <3>11. CASE ToolRuns(p)
      BY <2>c, <3>11 DEF ToolRuns, TypeOK, Pcs, counters
    <3>12. CASE ToolResult(p)
      BY <3>12, MoveTyped DEF ToolResult, TypeOK, Pcs, counters
    <3>13. CASE ToolDenied(p)
      <4>1. vs' \in [Processes -> VerifyState \union {None}]
        BY <3>13, PutTyped DEF ToolDenied, Remove, TypeOK
      <4>2. ASSUME pc = "editing"
            PROVE  Record(replay.led, v.diag, local) \in Ledger
        BY <2>0, <3>0, <4>2, RecordTyped DEF TypeOK, VerifyState
      <4>3. replay' \in [det : Detector(Disks), led : Ledger]
        BY <2>0, <2>b, <3>13, <4>2 DEF ToolDenied, v
      <4>4. QED
        BY <3>13, <4>1, <4>3, MoveTyped DEF ToolDenied, TypeOK, Resting, counters
    <3>14. CASE ToolAsks(p)
      BY <3>14, MoveTyped DEF ToolAsks, TypeOK, Resting, counters
    <3>15. CASE RecordAttempt(p)
      <4> DEFINE sig == [act |-> None, err |-> None, files |-> disk]
                 seen == ObserveStep(v.det, sig).det
                 x == [v EXCEPT !.led = Record(@, v.diag, local), !.plan = <<>>, !.executed = 0,
                                !.passed = TRUE, !.det = seen]
      <4>1. /\ v.det \in Detector(Disks) /\ v.led \in Ledger /\ v.diag \in Fingerprints
            /\ local \in Outcomes /\ <<>> \in Seq(Tiers)
        BY <3>0, <3>15 DEF RecordAttempt, TypeOK, VerifyState
      <4>2. sig \in Signature(Disks)
        BY <2>0 DEF Signature
      <4>3. seen \in Detector(Disks)
        BY <4>1, <4>2, StepTyped
      <4>4. Record(v.led, v.diag, local) \in Ledger /\ Record(replay.led, v.diag, local) \in Ledger
        BY <2>0, <4>1, RecordTyped
      <4>5. Put(p, x)
        BY <3>15 DEF RecordAttempt, v
      <4>6. x \in VerifyState
        <5> HIDE DEF seen
        <5> QED
          BY <3>0, <4>1, <4>3, <4>4 DEF VerifyState
      <4> HIDE DEF x
      <4>7. vs' \in [Processes -> VerifyState \union {None}]
        BY <4>5, <4>6, PutTyped
      <4>8. replay' \in [det : Detector(Disks), led : Ledger]
        BY <2>b, <3>15, <4>4 DEF RecordAttempt, v
      <4>9. QED
        BY <3>15, <4>7, <4>8 DEF RecordAttempt, TypeOK, Pcs, counters
    <3>16. CASE RepairDone(p)
      BY <3>16, MoveTyped DEF RepairDone, TypeOK, counters
    <3>17. CASE Implement(p)
      BY <2>c, <3>17, MoveTyped DEF Implement, TypeOK, counters
    <3>18. CASE Fault(p)
      BY <3>18, MoveTyped DEF Fault, TypeOK, Resting, counters
    <3>19. QED
      BY <2>1, <3>1, <3>2, <3>3, <3>4, <3>5, <3>6, <3>7, <3>8, <3>9, <3>10, <3>11, <3>12,
         <3>13, <3>14, <3>15, <3>16, <3>17, <3>18 DEF Step
  <2>2. ASSUME NEW p \in Processes, Respond(p) \/ Pause(p) \/ Resume(p) PROVE TypeOK'
    BY <2>2 DEF Respond, Pause, Resume, TypeOK, counters
  <2>3. ASSUME NEW p \in Processes, Crash(p) PROVE TypeOK'
    <3>1. vs' \in [Processes -> VerifyState \union {None}]
      BY <2>3, PutTyped DEF Crash, Remove
    <3>2. QED
      BY <2>3, <3>1 DEF Crash, TypeOK, Pcs, Findings
  <2>4. CASE UNCHANGED vars
    BY <2>4 DEF vars, counters, TypeOK
  <2>5. QED
    BY <2>1, <2>2, <2>3, <2>4 DEF Next
<1>3. QED
  BY <1>1, <1>2, PTL DEF Spec

-----------------------------------------------------------------------------
(* One process: what it works with is what the journal holds.              *)

\* Between journaling a decision and acting on it the journal is one mark
\* ahead of the process.
LedgerAgrees ==
  \A p \in Processes :
    IF pc = "decided" THEN Mark(Take(p).led, local) = replay.led
                      ELSE Take(p).led = replay.led

\* Whoever is about to record an attempt has budget left for it.
HasBudget == Attempts < MaxAttempts + crashes

Budget ==
  /\ Attempts <= MaxAttempts + crashes
  /\ pc \in {"editing", "edited", "repaired"} => HasBudget
  /\ pc = "top" /\ state = "Repairing" => HasBudget
  /\ pc = "decided" /\ local # "GiveUp" => HasBudget

\* What a process would take after a step is what was put, or the replay.
LEMMA TakeNext ==
  ASSUME TypeOK, NEW p \in Processes, NEW v, Put(p, v), v.led = replay'.led \/ v = None
  PROVE  Take(p)'.led = replay'.led
BY DEF TypeOK, Put, Take, Fresh

LEMMA TakeSame ==
  ASSUME TypeOK, NEW p \in Processes, Take(p).led = replay.led, vs' = vs, replay'.led = replay.led
  PROVE  Take(p)'.led = replay'.led
BY DEF Take, Fresh

\* A kill or a step of the only process keeps its ledger in agreement.
LEMMA LedgerAgreesKept ==
  ASSUME TypeOK, LedgerAgrees, [Next]_vars, \A p, q \in Processes : p = q
  PROVE  LedgerAgrees'
<1> SUFFICES ASSUME NEW p \in Processes
             PROVE  IF pc' = "decided" THEN Mark(Take(p)'.led, local') = replay'.led
                                       ELSE Take(p)'.led = replay'.led
  BY DEF LedgerAgrees
<1>0. /\ replay \in [det : Detector(Disks), led : Ledger]
      /\ Take(p) \in VerifyState /\ Planned(Take(p)) \in VerifyState
      /\ Planned(Take(p)).led = Take(p).led
  BY TakeTyped, PlannedTyped DEF TypeOK
<1>1. CASE Step(p)
  <2>1. CASE VerifyNothing(p)
    BY <1>0, <2>1, TakeNext DEF VerifyNothing, Driving, LedgerAgrees, MoveTo
  <2>2. CASE VerifyPass(p)
    <3> DEFINE w == Planned(Take(p))
               x == [w EXCEPT !.executed = @ + 1, !.passed = TRUE,
                              !.run = [fp |-> NoFailures, disk |-> disk], !.det = ObservePass(@)]
    <3>1. x.led = replay.led
      BY <1>0, <2>2 DEF VerifyPass, Driving, LedgerAgrees, VerifyState
    <3>2. Put(p, x) /\ replay'.led = replay.led /\ pc' = "top"
      BY <1>0, <2>2 DEF VerifyPass, Driving
    <3> HIDE DEF x
    <3>3. QED
      BY <3>1, <3>2, TakeNext
  <2>3. CASE VerifyFail(p)
    <3> DEFINE w == Planned(Take(p))
    <3>1. PICK fp \in Fingerprints :
            Put(p, [w EXCEPT !.executed = @ + 1, !.passed = FALSE, !.run = [fp |-> fp, disk |-> disk]])
      BY <2>3 DEF VerifyFail
    <3>2. [w EXCEPT !.executed = @ + 1, !.passed = FALSE, !.run = [fp |-> fp, disk |-> disk]].led = replay.led
      BY <1>0, <2>3 DEF VerifyFail, Driving, LedgerAgrees, VerifyState
    <3>3. replay' = replay /\ pc' = "top"
      BY <2>3 DEF VerifyFail, MoveTo
    <3>4. QED
      BY <3>1, <3>2, <3>3, TakeNext
  <2>4. CASE VerifyStopped(p) \/ VerifyDone(p)
    BY <1>0, <2>4, TakeNext DEF VerifyStopped, VerifyDone, Driving, LedgerAgrees, MoveTo
  <2>5. CASE Diagnose(p)
    <3> DEFINE v == Take(p)
               metric == [frontier |-> v.executed, failures |-> FailureCount[v.run.fp],
                          touched |-> touched]
               live == ObserveDiagnosis(v.det, v.run.fp, disk, metric)
               redo == ObserveDiagnosis(replay.det, v.run.fp, disk, metric)
               x == [v EXCEPT !.det = live.det, !.diag = v.run.fp]
    <3>1. Put(p, x) /\ replay' = [replay EXCEPT !.det = redo.det] /\ pc' = "diagnosed"
      BY <2>5 DEF Diagnose
    <3>2. x.led = replay.led
      <4> HIDE DEF live
      <4> QED
        BY <1>0, <2>5 DEF Diagnose, Driving, LedgerAgrees, VerifyState
    <3>3. replay'.led = replay.led
      <4> HIDE DEF redo
      <4> QED
        BY <1>0, <3>1
    <3> HIDE DEF x
    <3>4. QED
      BY <3>1, <3>2, <3>3, TakeNext
  <2>6. CASE DecideRepair(p)
    <3> DEFINE decision == Decide(Take(p).led, Take(p).diag, local)
    <3>1. replay' = [replay EXCEPT !.led = Mark(@, decision)] /\ local' = decision
          /\ pc' = "decided" /\ vs' = vs
      BY <2>6 DEF DecideRepair
    <3> HIDE DEF decision
    <3>2. replay'.led = Mark(replay.led, decision)
      BY <1>0, <3>1
    <3>3. Mark(Mark(replay.led, decision), decision) = Mark(replay.led, decision)
      BY <1>0 DEF Mark, Ledger
    <3>4. Take(p).led = replay.led
      BY <2>6 DEF DecideRepair, LedgerAgrees
    <3>5. Take(p)'.led \in {Take(p).led, replay'.led}
      BY <3>1 DEF Take, Fresh
    <3>6. QED
      BY <3>1, <3>2, <3>3, <3>4, <3>5
  <2>7. CASE ActOnDecision(p)
    <3> DEFINE v == Take(p)
               x == [v EXCEPT !.led = Mark(@, local),
                              !.plan = IF local \in {"EscalateStrategy", "SwitchRole"} THEN <<>> ELSE @,
                              !.broaden = @ \/ local = "EscalateStrategy",
                              !.primary = @ \/ local = "SwitchRole"]
    <3>1. Put(p, None) \/ Put(p, x)
      BY <2>7 DEF ActOnDecision, Remove
    <3>2. replay' = replay /\ pc' = "top"
      BY <2>7 DEF ActOnDecision, MoveTo
    <3>3. x.led = replay.led
      BY <1>0, <2>7 DEF ActOnDecision, LedgerAgrees, VerifyState
    <3> HIDE DEF x
    <3>4. QED
      BY <3>1, <3>2, <3>3, TakeNext
  <2>8. CASE RepairEdit(p) \/ RepairFinish(p)
    BY <1>0, <2>8, TakeNext DEF RepairEdit, RepairFinish, Driving, LedgerAgrees
  <2>9. CASE RepairAsk(p)
    <3> DEFINE v == Take(p)
               x == [v EXCEPT !.led = Record(@, v.diag, "NoChange")]
    <3>1. Put(p, x) /\ replay' = [replay EXCEPT !.led = Record(@, v.diag, "NoChange")] /\ pc' = "top"
      BY <2>9 DEF RepairAsk, MoveTo
    <3>2. v.led = replay.led
      BY <2>9 DEF RepairAsk, Driving, LedgerAgrees
    <3>3. x.led = Record(replay.led, v.diag, "NoChange") /\ replay'.led = Record(replay.led, v.diag, "NoChange")
      BY <1>0, <3>1, <3>2 DEF VerifyState
    <3> HIDE DEF x
    <3>4. QED
      BY <3>1, <3>3, TakeNext
  <2>10. CASE RepairRedo(p) \/ ToolRuns(p) \/ ToolResult(p) \/ ToolAsks(p) \/ RepairDone(p)
    <3>1. pc # "decided" /\ pc' # "decided" /\ vs' = vs /\ replay' = replay
      BY <2>10 DEF RepairRedo, ToolRuns, ToolResult, ToolAsks, RepairDone, Driving, MoveTo
    <3>2. QED
      BY <3>1, TakeSame DEF LedgerAgrees
  <2>11. CASE ToolDenied(p)
    <3>1. pc # "decided" /\ pc' = "top"
      BY <2>11 DEF ToolDenied, MoveTo
    <3>2. Put(p, None) \/ (vs' = vs /\ replay' = replay)
      BY <2>11 DEF ToolDenied, Remove
    <3>3. QED
      BY <3>1, <3>2, TakeNext, TakeSame DEF LedgerAgrees
  <2>12. CASE RecordAttempt(p)
    <3> DEFINE v == Take(p)
               seen == ObserveStep(v.det, [act |-> None, err |-> None, files |-> disk]).det
               x == [v EXCEPT !.led = Record(@, v.diag, local), !.plan = <<>>, !.executed = 0,
                              !.passed = TRUE, !.det = seen]
    <3>1. Put(p, x) /\ replay' = [replay EXCEPT !.led = Record(@, v.diag, local)] /\ pc' = "attempted"
      BY <2>12 DEF RecordAttempt
    <3>2. v.led = replay.led
      BY <2>12 DEF RecordAttempt, LedgerAgrees
    <3>3. x.led = Record(replay.led, v.diag, local) /\ replay'.led = Record(replay.led, v.diag, local)
      <4> HIDE DEF seen
      <4> QED
        BY <1>0, <3>1, <3>2 DEF VerifyState
    <3> HIDE DEF x
    <3>4. QED
      BY <3>1, <3>3, TakeNext
  <2>13. CASE Implement(p) \/ Fault(p)
    <3>1. pc = "top" /\ pc' = "top" /\ vs' = vs /\ replay' = replay
      BY <2>13 DEF Implement, Fault, Driving, MoveTo
    <3>2. QED
      BY <3>1, TakeSame DEF LedgerAgrees
  <2>14. QED
    BY <1>1, <2>1, <2>2, <2>3, <2>4, <2>5, <2>6, <2>7, <2>8, <2>9, <2>10, <2>11, <2>12, <2>13 DEF Step
<1>2. CASE Respond(p) \/ Pause(p) \/ Resume(p) \/ UNCHANGED vars
  <2>1. vs' = vs /\ replay' = replay /\ pc' = pc /\ local' = local
    BY <1>2 DEF Respond, Pause, Resume, vars, counters
  <2>2. Take(p)' = Take(p)
    BY <2>1 DEF Take
  <2>3. QED
    BY <2>1, <2>2 DEF LedgerAgrees
<1>3. CASE Crash(p)
  BY <1>3, TakeNext DEF Crash, Remove
<1>4. QED
  BY <1>1, <1>2, <1>3 DEF Next

\* A step records an attempt only where Budget says there is room for it.
LEMMA BudgetKept ==
  ASSUME TypeOK, LedgerAgrees, Budget, [Next]_vars
  PROVE  Budget'
<1>0. /\ replay \in [det : Detector(Disks), led : Ledger] /\ replay.led \in Ledger
      /\ Attempts \in Nat /\ crashes \in Nat /\ MaxAttempts \in Nat
  BY RepairAssumption DEF TypeOK, Ledger, Attempts
<1>a. ASSUME NEW fp \in Fingerprints, NEW outcome \in Outcomes,
             replay' = [replay EXCEPT !.led = Record(@, fp, outcome)]
      PROVE  Attempts' = Attempts + 1
  BY <1>0, <1>a, RecordTyped DEF Attempts
<1>1. ASSUME NEW p \in Processes, Step(p) PROVE Budget'
  <2>0. Take(p) \in VerifyState /\ Take(p).diag \in Fingerprints /\ Take(p).led \in Ledger
    BY TakeTyped DEF VerifyState
  <2>1. CASE VerifyNothing(p) \/ VerifyFail(p) \/ VerifyStopped(p) \/ VerifyDone(p)
             \/ RepairDone(p) \/ Implement(p) \/ Fault(p) \/ ToolAsks(p)
    <3>1. /\ replay' = replay /\ crashes' = crashes /\ pc' = "top"
          /\ state' \in {"Completed", "Diagnosing", "Verifying", "Failed"}
      BY <2>1 DEF VerifyNothing, VerifyFail, VerifyStopped, VerifyDone, RepairDone, Implement,
                  Fault, ToolAsks, MoveTo, counters
    <3>2. QED
      BY <3>1 DEF Budget, Attempts
  <2>2. CASE VerifyPass(p) \/ Diagnose(p)
    <3>1. \E det : replay' = [replay EXCEPT !.det = det]
      BY <2>2 DEF VerifyPass, Diagnose
    <3>2. Attempts' = Attempts
      BY <1>0, <3>1 DEF Attempts
    <3>3. crashes' = crashes /\ (pc' = "diagnosed" \/ (pc' = "top" /\ state' = "Verifying"))
      BY <2>2 DEF VerifyPass, Diagnose, Driving, counters
    <3>4. QED
      BY <1>0, <3>2, <3>3 DEF Budget
  <2>3. CASE DecideRepair(p)
    <3> DEFINE decision == Decide(Take(p).led, Take(p).diag, local)
    <3>1. /\ replay' = [replay EXCEPT !.led = Mark(@, decision)]
          /\ local' = decision /\ pc' = "decided" /\ crashes' = crashes
      BY <2>3 DEF DecideRepair, counters
    <3>2. Take(p).led = replay.led
      BY <2>3 DEF DecideRepair, LedgerAgrees
    <3>3. decision # "GiveUp" => Attempts < MaxAttempts
      BY <2>0, <3>2, DecideTyped DEF Attempts
    <3> HIDE DEF decision
    <3>4. Attempts' = Attempts
      BY <1>0, <3>1, MarkTyped DEF Attempts
    <3>5. QED
      BY <1>0, <3>1, <3>3, <3>4 DEF Budget, HasBudget
  <2>4. CASE ActOnDecision(p)
    <3>1. /\ replay' = replay /\ crashes' = crashes /\ pc' = "top" /\ pc = "decided"
          /\ state' = DecisionState(local)
      BY <2>4 DEF ActOnDecision, MoveTo, counters
    <3>2. state' = "Repairing" => local # "GiveUp"
      BY <3>1 DEF DecisionState
    <3>3. QED
      BY <3>1, <3>2 DEF Budget, HasBudget, Attempts
  <2>5. CASE RepairEdit(p) \/ RepairFinish(p) \/ RepairRedo(p)
    <3>1. /\ replay' = replay /\ crashes' = crashes /\ pc = "top" /\ state = "Repairing"
          /\ pc' \in {"editing", "repaired", "redoing"}
      BY <2>5 DEF RepairEdit, RepairFinish, RepairRedo, Driving, counters
    <3>2. QED
      BY <3>1 DEF Budget, HasBudget, Attempts
  <2>6. CASE RepairAsk(p)
    <3>1. /\ replay' = [replay EXCEPT !.led = Record(@, Take(p).diag, "NoChange")]
          /\ crashes' = crashes /\ pc = "top" /\ state = "Repairing"
          /\ pc' = "top" /\ state' = "WaitingForUser"
      BY <2>6 DEF RepairAsk, Driving, MoveTo, counters
    <3>2. Attempts' = Attempts + 1
      BY <1>a, <2>0, <3>1 DEF Outcomes
    <3>3. QED
      BY <1>0, <3>1, <3>2 DEF Budget, HasBudget
  <2>7. CASE ToolRuns(p) \/ ToolResult(p)
    <3>1. /\ replay' = replay /\ crashes' = crashes
          /\ \/ pc \in {"editing", "edited"} /\ pc' \in {"edited", "repaired"}
             \/ pc' = "redone"
             \/ pc' = "top" /\ state' = "Verifying"
      BY <2>7 DEF ToolRuns, ToolResult, MoveTo, counters
    <3>2. QED
      BY <3>1 DEF Budget, HasBudget, Attempts
  <2>8. CASE ToolDenied(p)
    <3>1. /\ crashes' = crashes /\ pc' = "top" /\ state' = "Failed"
          /\ \/ pc = "editing" /\ replay' = [replay EXCEPT !.led = Record(@, Take(p).diag, local)]
             \/ replay' = replay
      BY <2>8 DEF ToolDenied, MoveTo, counters
    <3>2. \/ pc = "editing" /\ Attempts' = Attempts + 1
          \/ Attempts' = Attempts
      BY <1>a, <2>0, <3>1 DEF TypeOK, Attempts
    <3>3. QED
      BY <1>0, <3>1, <3>2 DEF Budget, HasBudget
  <2>9. CASE RecordAttempt(p)
    <3>1. /\ crashes' = crashes /\ pc' = "attempted" /\ pc = "repaired"
          /\ replay' = [replay EXCEPT !.led = Record(@, Take(p).diag, local)]
      BY <2>9 DEF RecordAttempt, counters
    <3>2. Attempts' = Attempts + 1
      BY <1>a, <2>0, <3>1 DEF TypeOK
    <3>3. QED
      BY <1>0, <3>1, <3>2 DEF Budget, HasBudget
  <2>10. QED
    BY <1>1, <2>1, <2>2, <2>3, <2>4, <2>5, <2>6, <2>7, <2>8, <2>9 DEF Step
<1>2. ASSUME NEW p \in Processes, Respond(p) \/ Pause(p) \/ Resume(p) PROVE Budget'
  BY <1>2 DEF Respond, Pause, Resume, counters, Budget, HasBudget, Attempts
<1>3. ASSUME NEW p \in Processes, Crash(p) PROVE Budget'
  <2>1. replay' = replay /\ crashes' = crashes + 1 /\ pc' = "top"
    BY <1>3 DEF Crash
  <2>2. QED
    BY <1>0, <2>1 DEF Budget, HasBudget, Attempts
<1>4. CASE UNCHANGED vars
  BY <1>4 DEF vars, counters, Budget, HasBudget, Attempts
<1>5. QED
  BY <1>1, <1>2, <1>3, <1>4 DEF Next

\* As long as one process drives the task, however often it is killed and
\* recovered, the attempts of the journal stay within MAX_REPAIR_ATTEMPTS and
\* one for each kill, and the repair ledger the driver works with is the one
\* reconstruct_verify_state would rebuild: no crash loses an attempt.
THEOREM RepairBounded ==
  ASSUME \A p, q \in Processes : p = q
  PROVE  Spec => [](AttemptsBounded /\ LedgerIsDurable)
<1>1. Init => LedgerAgrees /\ Budget
  <2> SUFFICES ASSUME Init PROVE LedgerAgrees /\ Budget
    OBVIOUS
  <2>1. LedgerAgrees
    BY DEF Init, LedgerAgrees, Take, Fresh
  <2>2. Attempts = 0 /\ crashes = 0
    BY DEF Init, Attempts, EmptyLedger
  <2>3. Budget
    BY <2>2, RepairAssumption DEF Init, Budget
  <2>4. QED
    BY <2>1, <2>3
<1>2. ASSUME TypeOK, LedgerAgrees, Budget, [Next]_vars PROVE LedgerAgrees' /\ Budget'
  BY <1>2, LedgerAgreesKept, BudgetKept
<1>3. TypeOK /\ LedgerAgrees /\ Budget => AttemptsBounded /\ LedgerIsDurable
  BY DEF TypeOK, LedgerAgrees, Budget, AttemptsBounded, LedgerIsDurable
<1>4. Spec => []TypeOK
  BY TypeCorrect
<1>5. QED
  BY <1>1, <1>2, <1>3, <1>4, PTL DEF Spec

-----------------------------------------------------------------------------
(* What a plan in progress stands for, when one process drives the task.   *)

\* Where the steps of a handler belong.
StepsOfStates ==
  /\ pc \in {"editing", "edited", "redoing", "redone", "repaired", "attempted"} =>
       state = "Repairing"
  /\ pc \in {"diagnosed", "decided"} => state = "Diagnosing"
  /\ open => /\ state \in {"Repairing", "Failed"}
             /\ pc \in {"top", "editing", "edited", "redoing", "redone"}
  /\ pc \in {"redoing", "redone"} => open
  /\ state = "Implementing" => answers > 0

\* The plan has a check for every tier of the contents on disk but the gates.
PlanCovers(p) ==
  \A tier \in Tooling[disk] \ {"Style"} :
    \E i \in 1..Len(Take(p).plan) : Take(p).plan[i] = tier

\* The checks executed so far passed on the contents on disk.
PassedSoFar(p) ==
  \A i \in 1..Len(Take(p).plan) : i <= Take(p).executed => Take(p).plan[i] \in verified

\* A plan none of whose checks failed is one in progress, on these contents; a
\* plan left over from before the disk changed is one with a failure.
PlanIsCurrent(p) ==
  /\ Take(p).plan # <<>> => Take(p).executed > 0
  /\ Take(p).plan # <<>> /\ Take(p).passed =>
       \/ state \in {"Completed", "Failed"}
       \/ state = "Verifying" /\ PlanCovers(p) /\ PassedSoFar(p)

\* A failed plan is verified again only where the user's answer said so.
FailedPlanIsDropped(p) ==
  /\ open /\ pc \notin {"editing", "edited"} => Take(p).plan = <<>>
  /\ pc = "attempted" => Take(p).plan = <<>>
  /\ state = "Verifying" /\ answers = 0 => Take(p).plan = <<>> \/ Take(p).passed

\* Every tier found is in the plan, but for the gates.
LEMMA EscalationCovers ==
  ASSUME NEW tooling \in SUBSET Tiers, NEW broaden \in BOOLEAN, NEW tier \in tooling \ {"Style"}
  PROVE  \E i \in 1..Len(EscalationPlan(tooling, broaden)) :
           EscalationPlan(tooling, broaden)[i] = tier
<1> DEFINE Stage(x) == IF x \in tooling THEN <<x>> ELSE <<>>
           first == Stage("Syntax")
           second == IF broaden THEN <<>> ELSE Stage("Style")
           third == Stage("Full")
<1>1. EscalationPlan(tooling, broaden) = first \o second \o third
  BY DEF EscalationPlan
<1>2. first \in Seq(Tiers) /\ second \in Seq(Tiers) /\ third \in Seq(Tiers)
  <2>1. ASSUME NEW x \in Tiers PROVE <<x>> \in Seq(Tiers) /\ <<>> \in Seq(Tiers)
    OBVIOUS
  <2>2. QED
    BY <2>1 DEF Tiers
<1>3. ASSUME NEW a \in Seq(Tiers), NEW b \in Seq(Tiers), NEW c \in Seq(Tiers)
      PROVE  /\ Len(a \o b \o c) = Len(a) + Len(b) + Len(c)
             /\ Len(a) > 0 => (a \o b \o c)[1] = a[1]
             /\ Len(c) = 1 => (a \o b \o c)[Len(a) + Len(b) + 1] = c[1]
  OBVIOUS
<1>4. CASE tier = "Syntax"
  <2>1. Len(first) = 1 /\ first[1] = tier
    BY <1>4
  <2> HIDE DEF first, second, third
  <2>2. 1 \in 1..Len(first \o second \o third) /\ (first \o second \o third)[1] = tier
    BY <1>2, <1>3, <2>1
  <2>3. QED
    BY <1>1, <2>2
<1>5. CASE tier = "Full"
  <2>1. Len(third) = 1 /\ third[1] = tier
    BY <1>5
  <2> HIDE DEF first, second, third
  <2>2. /\ Len(first) + Len(second) + 1 \in 1..Len(first \o second \o third)
        /\ (first \o second \o third)[Len(first) + Len(second) + 1] = tier
    BY <1>2, <1>3, <2>1
  <2>3. QED
    BY <1>1, <2>2
<1>6. QED
  BY <1>4, <1>5 DEF Tiers

\* What a process would take after a step.
LEMMA TakePut ==
  ASSUME TypeOK, NEW p \in Processes, NEW v \in VerifyState, Put(p, v)
  PROVE  Take(p)' = v
BY EntryAssumption DEF TypeOK, Put, Take

LEMMA TakeGone ==
  ASSUME TypeOK, NEW p \in Processes, Remove(p)
  PROVE  Take(p)'.plan = <<>>
BY DEF TypeOK, Remove, Put, Take, Fresh

LEMMA TakeKept ==
  ASSUME NEW p \in Processes, vs' = vs
  PROVE  /\ Take(p)'.plan = Take(p).plan /\ Take(p)'.executed = Take(p).executed
         /\ Take(p)'.passed = Take(p).passed
BY DEF Take, Fresh

PlanKept(p) ==
  /\ Take(p)'.plan = Take(p).plan /\ Take(p)'.executed = Take(p).executed
  /\ Take(p)'.passed = Take(p).passed

LEMMA PutKept ==
  ASSUME TypeOK, NEW p \in Processes, NEW v \in VerifyState, Put(p, v),
         v.plan = Take(p).plan, v.executed = Take(p).executed, v.passed = Take(p).passed
  PROVE  PlanKept(p)
BY TakePut DEF PlanKept

\* Each handler's steps stay in its state, and only a repair leaves an edit open.
LEMMA StepsStay ==
  ASSUME TypeOK, StepsOfStates, [Next]_vars
  PROVE  StepsOfStates'
<1>0. answers \in Nat
  BY DEF TypeOK
<1>1. ASSUME NEW p \in Processes, Step(p) PROVE StepsOfStates'
  <2>1. CASE VerifyNothing(p) \/ VerifyFail(p) \/ VerifyStopped(p) \/ VerifyDone(p)
    <3>1. /\ state = "Verifying" /\ state' \in {"Completed", "Diagnosing"}
          /\ pc' = "top" /\ open' = open
      BY <2>1 DEF VerifyNothing, VerifyFail, VerifyStopped, VerifyDone, Driving, MoveTo
    <3>2. QED
      BY <3>1 DEF StepsOfStates
  <2>2. CASE VerifyPass(p) \/ Diagnose(p)
    BY <2>2 DEF VerifyPass, Diagnose, Driving, counters, StepsOfStates
  <2>3. CASE DecideRepair(p)
    BY <2>3 DEF DecideRepair, counters, StepsOfStates
  <2>4. CASE ActOnDecision(p)
    BY <2>4 DEF ActOnDecision, DecisionState, MoveTo, counters, StepsOfStates
  <2>5. CASE RepairEdit(p) \/ RepairFinish(p) \/ RepairAsk(p) \/ RepairRedo(p)
    BY <2>5 DEF RepairEdit, RepairFinish, RepairAsk, RepairRedo, Driving, MoveTo, counters,
                StepsOfStates
  <2>6. CASE ToolRuns(p) \/ ToolResult(p) \/ ToolDenied(p) \/ ToolAsks(p)
    BY <2>6 DEF ToolRuns, ToolResult, ToolDenied, ToolAsks, MoveTo, counters, StepsOfStates
  <2>7. CASE RecordAttempt(p) \/ RepairDone(p)
    BY <2>7 DEF RecordAttempt, RepairDone, MoveTo, counters, StepsOfStates
  <2>8. CASE Implement(p) \/ Fault(p)
    BY <2>8 DEF Implement, Fault, Driving, MoveTo, counters, StepsOfStates
  <2>9. QED
    BY <1>1, <2>1, <2>2, <2>3, <2>4, <2>5, <2>6, <2>7, <2>8 DEF Step
<1>2. ASSUME NEW p \in Processes, Respond(p) \/ Pause(p) \/ Resume(p) \/ Crash(p)
      PROVE  StepsOfStates'
  BY <1>0, <1>2 DEF Respond, Pause, Resume, Crash, counters, StepsOfStates
<1>3. CASE UNCHANGED vars
  BY <1>3 DEF vars, counters, StepsOfStates
<1>4. QED
  BY <1>1, <1>2, <1>3 DEF Next

\* The only process's plan stays what it stands for.
LEMMA PlansStay ==
  ASSUME TypeOK, StepsOfStates, [Next]_vars, \A p, q \in Processes : p = q,
         NEW p \in Processes, PlanIsCurrent(p), FailedPlanIsDropped(p)
  PROVE  PlanIsCurrent(p)' /\ FailedPlanIsDropped(p)'
<1>0. /\ Take(p) \in VerifyState /\ Planned(Take(p)) \in VerifyState
      /\ verified \subseteq Tiers /\ Tooling[disk] \subseteq Tiers
      /\ answers \in Nat
  BY TakeTyped, PlannedTyped, LoopAssumption DEF TypeOK
\* No plan is no promise.
<1>a. ASSUME Take(p)'.plan = <<>> PROVE PlanIsCurrent(p)' /\ FailedPlanIsDropped(p)'
  BY <1>a DEF PlanIsCurrent, FailedPlanIsDropped
\* A plan with a failed check, in the handlers that follow it.
<1>b. ASSUME PlanKept(p), state # "Verifying", state \notin {"Completed", "Failed"},
             state' # "Verifying" \/ answers' > 0,
             open' => pc' \in {"editing", "edited"} \/ Take(p).plan = <<>>,
             pc' # "attempted"
      PROVE  PlanIsCurrent(p)' /\ FailedPlanIsDropped(p)'
  BY <1>0, <1>b DEF PlanKept, PlanIsCurrent, FailedPlanIsDropped
\* The plan rests while the state does.
<1>c. ASSUME PlanKept(p), state' = state \/ state' \in {"Completed", "Failed"},
             disk' = disk, verified' = verified, answers' = answers,
             open' = open, pc' = pc
      PROVE  PlanIsCurrent(p)' /\ FailedPlanIsDropped(p)'
  <2>1. PlanCovers(p) => PlanCovers(p)'
    BY <1>c DEF PlanKept, PlanCovers
  <2>2. PassedSoFar(p) => PassedSoFar(p)'
    BY <1>c DEF PlanKept, PassedSoFar
  <2>3. QED
    BY <1>c, <2>1, <2>2 DEF PlanKept, PlanIsCurrent, FailedPlanIsDropped
\* What a verification starts from: its plan covers the contents, unless a
\* check of it has failed, and what was executed passed.
<1> DEFINE w == Planned(Take(p))
<1>d. ASSUME state = "Verifying", w.passed, w.plan # <<>>
      PROVE  /\ \A tier \in Tooling[disk] \ {"Style"} : \E i \in 1..Len(w.plan) : w.plan[i] = tier
             /\ \A i \in 1..Len(w.plan) : i <= w.executed => w.plan[i] \in verified
  <2>1. CASE Take(p).plan # <<>>
    <3>1. w = Take(p)
      BY <2>1 DEF Planned
    <3>2. PlanCovers(p) /\ PassedSoFar(p)
      BY <1>d, <2>1, <3>1 DEF PlanIsCurrent
    <3> HIDE DEF w
    <3>3. QED
      BY <3>1, <3>2 DEF PlanCovers, PassedSoFar
  <2>2. CASE Take(p).plan = <<>>
    <3>1. w.plan = EscalationPlan(Tooling[disk], Take(p).broaden) /\ w.executed = 0
      BY <1>0, <2>2 DEF Planned, VerifyState
    <3>2. Take(p).broaden \in BOOLEAN
      BY <1>0 DEF VerifyState
    <3>3. \A tier \in Tooling[disk] \ {"Style"} :
            \E i \in 1..Len(EscalationPlan(Tooling[disk], Take(p).broaden)) :
              EscalationPlan(Tooling[disk], Take(p).broaden)[i] = tier
      BY <1>0, <3>2, EscalationCovers
    <3> HIDE DEF w
    <3>4. QED
      BY <3>1, <3>3
  <2>3. QED
    BY <2>1, <2>2
<1>e. HasNext(w) /\ w.plan # <<>> => w.passed
  <2>1. CASE Take(p).plan # <<>>
    BY <1>0, <2>1 DEF Planned, HasNext, PlanIsCurrent
  <2>2. CASE Take(p).plan = <<>>
    BY <1>0, <2>2 DEF Planned, VerifyState
  <2>3. QED
    BY <2>1, <2>2
<1>f. HasNext(w) => w.plan # <<>>
  BY <1>0 DEF HasNext, VerifyState
<1>g. w \in VerifyState /\ w.plan \in Seq(Tiers) /\ w.executed \in Nat
  BY <1>0 DEF VerifyState
<1> HIDE DEF w
<1>1. ASSUME Step(p) PROVE PlanIsCurrent(p)' /\ FailedPlanIsDropped(p)'
  <2>1. CASE VerifyNothing(p)
    <3>1. Put(p, Take(p)) /\ w.plan = <<>>
      BY <2>1 DEF VerifyNothing, w
    <3>2. Take(p).plan = <<>>
      BY <1>0, <3>1 DEF w, Planned
    <3>3. QED
      BY <1>0, <1>a, <3>1, <3>2, TakePut
  <2>2. CASE VerifyPass(p)
    <3> DEFINE x == [w EXCEPT !.executed = @ + 1, !.passed = TRUE,
                              !.run = [fp |-> NoFailures, disk |-> disk], !.det = ObservePass(@)]
    <3>1. /\ Put(p, x) /\ HasNext(w) /\ state = "Verifying" /\ pc = "top"
          /\ verified' = verified \union {w.plan[w.executed + 1]}
          /\ UNCHANGED <<state, disk, open, pc, answers>>
      BY <2>2 DEF VerifyPass, Driving, counters, w
    <3>2. x \in VerifyState
      <4>1. [fp |-> NoFailures, disk |-> disk] \in [fp : Fingerprints, disk : Disks \union {None}]
        BY LoopAssumption DEF TypeOK
      <4>2. w.det \in Detector(Disks)
        BY <1>g DEF VerifyState
      <4>3. ObservePass(w.det) \in Detector(Disks)
        <5>1. <<>> \in Seq(Fingerprints)
          OBVIOUS
        <5>2. QED
          BY <4>2, <5>1 DEF ObservePass, Detector
      <4>4. [w EXCEPT !.executed = @ + 1, !.passed = TRUE,
                      !.run = [fp |-> NoFailures, disk |-> disk], !.det = ObservePass(w.det)] \in VerifyState
        BY <1>g, <4>1, <4>3, RanTyped
      <4>5. QED
        BY <4>4
    <3>3. x.plan = w.plan /\ x.executed = w.executed + 1 /\ x.passed
      BY <1>g DEF VerifyState
    <3> HIDE DEF x
    <3>4. Take(p)' = x
      BY <3>1, <3>2, TakePut
    <3>5. w.plan # <<>> /\ w.passed
      BY <1>e, <1>f, <3>1
    <3>6. PlanCovers(p)'
      BY <1>d, <3>1, <3>3, <3>4, <3>5 DEF PlanCovers
    <3>7. PassedSoFar(p)'
      <4> SUFFICES ASSUME NEW i \in 1..Len(w.plan), i <= w.executed + 1
                   PROVE  w.plan[i] \in verified'
        BY <3>3, <3>4 DEF PassedSoFar
      <4>1. CASE i <= w.executed
        BY <1>d, <3>1, <3>5, <4>1
      <4>2. CASE i = w.executed + 1
        BY <3>1, <4>2
      <4>3. QED
        BY <1>g, <4>1, <4>2
    <3>8. Take(p)'.executed > 0
      BY <1>g, <3>3, <3>4
    <3>9. ~open'
      BY <3>1 DEF StepsOfStates
    <3>10. QED
      BY <3>1, <3>3, <3>4, <3>6, <3>7, <3>8, <3>9 DEF PlanIsCurrent, FailedPlanIsDropped
  <2>3. CASE VerifyFail(p)
    <3>1. PICK fp \in Fingerprints :
            Put(p, [w EXCEPT !.executed = @ + 1, !.passed = FALSE, !.run = [fp |-> fp, disk |-> disk]])
      BY <2>3 DEF VerifyFail, w
    <3> DEFINE x == [w EXCEPT !.executed = @ + 1, !.passed = FALSE, !.run = [fp |-> fp, disk |-> disk]]
    <3>2. x \in VerifyState
      <4>1. [fp |-> fp, disk |-> disk] \in [fp : Fingerprints, disk : Disks \union {None}]
        BY DEF TypeOK
      <4>2. w.det \in Detector(Disks)
        BY <1>g DEF VerifyState
      <4>3. [w EXCEPT !.executed = @ + 1, !.passed = FALSE,
                      !.run = [fp |-> fp, disk |-> disk], !.det = w.det] \in VerifyState
        BY <1>g, <4>1, <4>2, RanTyped
      <4>4. [w EXCEPT !.executed = @ + 1, !.passed = FALSE,
                      !.run = [fp |-> fp, disk |-> disk], !.det = w.det] = x
        BY <1>g DEF VerifyState
      <4>5. QED
        BY <4>3, <4>4
    <3>3. x.executed = w.executed + 1 /\ ~x.passed
      BY <1>g DEF VerifyState
    <3>4. Put(p, x)
      BY <3>1
    <3> HIDE DEF x
    <3>5. Take(p)' = x
      BY <3>2, <3>4, TakePut
    <3>6. /\ state = "Verifying" /\ state' = "Diagnosing" /\ pc' = "top" /\ open' = open
      BY <2>3 DEF VerifyFail, Driving, MoveTo
    <3>7. ~open'
      BY <3>6 DEF StepsOfStates
    <3>8. x.executed > 0
      BY <1>g, <3>3
    <3>9. QED
      BY <3>3, <3>5, <3>6, <3>7, <3>8 DEF PlanIsCurrent, FailedPlanIsDropped
  <2>4. CASE VerifyStopped(p)
    <3>1. /\ Put(p, w) /\ w.plan # <<>> /\ ~HasNext(w) /\ ~w.passed /\ state = "Verifying"
          /\ state' = "Diagnosing" /\ pc' = "top" /\ open' = open
      BY <2>4 DEF VerifyStopped, Driving, MoveTo, w
    <3>2. Take(p)' = w
      BY <1>g, <3>1, TakePut
    <3>3. w.executed > 0
      <4>1. Len(w.plan) > 0
        BY <1>g, <3>1
      <4>2. QED
        BY <1>g, <3>1, <4>1 DEF HasNext
    <3>4. ~open'
      BY <3>1 DEF StepsOfStates
    <3>5. QED
      BY <3>1, <3>2, <3>3, <3>4 DEF PlanIsCurrent, FailedPlanIsDropped
  <2>5. CASE VerifyDone(p)
    <3>1. /\ Put(p, w) /\ w.plan # <<>> /\ ~HasNext(w) /\ w.passed /\ state = "Verifying"
          /\ state' = "Completed" /\ pc' = "top" /\ open' = open
      BY <2>5 DEF VerifyDone, Driving, MoveTo, w
    <3>2. Take(p)' = w
      BY <1>g, <3>1, TakePut
    <3>3. w.executed > 0
      <4>1. Len(w.plan) > 0
        BY <1>g, <3>1
      <4>2. QED
        BY <1>g, <3>1, <4>1 DEF HasNext
    <3>4. ~open'
      BY <3>1 DEF StepsOfStates
    <3>5. QED
      BY <3>1, <3>2, <3>3, <3>4 DEF PlanIsCurrent, FailedPlanIsDropped
  <2>6. CASE Diagnose(p)
    <3> DEFINE v == Take(p)
               metric == [frontier |-> v.executed, failures |-> FailureCount[v.run.fp],
                          touched |-> touched]
               live == ObserveDiagnosis(v.det, v.run.fp, disk, metric)
    <3>1. Put(p, [v EXCEPT !.det = live.det, !.diag = v.run.fp])
      BY <2>6 DEF Diagnose
    <3>2. metric \in Metric /\ v.run.fp \in Fingerprints /\ v.det \in Detector(Disks)
      BY <1>0, RepairAssumption DEF TypeOK, VerifyState, Metric
    <3>3. live.det \in Detector(Disks)
      BY <3>2, DiagnosisTyped DEF TypeOK
    <3> HIDE DEF live, metric
    <3>4. [v EXCEPT !.det = live.det, !.diag = v.run.fp] \in VerifyState
      BY <1>0, <3>2, <3>3 DEF VerifyState
    <3>5. PlanKept(p)
      <4>1. /\ [v EXCEPT !.det = live.det, !.diag = v.run.fp].plan = Take(p).plan
            /\ [v EXCEPT !.det = live.det, !.diag = v.run.fp].executed = Take(p).executed
            /\ [v EXCEPT !.det = live.det, !.diag = v.run.fp].passed = Take(p).passed
        BY <1>0 DEF VerifyState
      <4>2. QED
        BY <3>1, <3>4, <4>1, PutKept
    <3>6. state = "Diagnosing" /\ state' = state /\ pc' = "diagnosed" /\ open' = open
      BY <2>6 DEF Diagnose, Driving
    <3>7. ~open'
      BY <3>6 DEF StepsOfStates
    <3>8. QED
      BY <1>b, <3>5, <3>6, <3>7
  <2>7. CASE DecideRepair(p)
    <3>1. vs' = vs /\ state = "Diagnosing" /\ state' = state /\ pc' = "decided" /\ open' = open
      BY <2>7 DEF DecideRepair, StepsOfStates
    <3>2. ~open'
      BY <3>1 DEF StepsOfStates
    <3>3. QED
      BY <1>b, <3>1, <3>2, TakeKept DEF PlanKept
  <2>8. CASE ActOnDecision(p)
    <3> DEFINE v == Take(p)
               wider == local \in {"EscalateStrategy", "SwitchRole"}
               x == [v EXCEPT !.led = Mark(@, local), !.plan = IF wider THEN <<>> ELSE @,
                              !.broaden = @ \/ local = "EscalateStrategy",
                              !.primary = @ \/ local = "SwitchRole"]
    <3>1. /\ state = "Diagnosing" /\ state' = DecisionState(local) /\ pc' = "top" /\ open' = open
      BY <2>8 DEF ActOnDecision, MoveTo, StepsOfStates
    <3>2. ~open'
      BY <3>1 DEF StepsOfStates
    <3>3. CASE Remove(p)
      BY <1>a, <3>3, TakeGone
    <3>4. CASE Put(p, x)
      <4>1. x \in VerifyState
        <5>1. Mark(v.led, local) \in Ledger
          BY <1>0, MarkTyped DEF VerifyState
        <5>2. (IF wider THEN <<>> ELSE v.plan) \in Seq(Tiers)
          BY <1>0 DEF VerifyState
        <5>3. ASSUME NEW l \in Ledger, NEW s \in Seq(Tiers), NEW b \in BOOLEAN, NEW c \in BOOLEAN
              PROVE  [v EXCEPT !.led = l, !.plan = s, !.broaden = b, !.primary = c] \in VerifyState
          <6>1. ASSUME NEW y \in VerifyState PROVE [y EXCEPT !.led = l] \in VerifyState
            BY DEF VerifyState
          <6>2. ASSUME NEW y \in VerifyState PROVE [y EXCEPT !.plan = s] \in VerifyState
            BY DEF VerifyState
          <6>3. ASSUME NEW y \in VerifyState PROVE [y EXCEPT !.broaden = b] \in VerifyState
            BY Zenon DEF VerifyState
          <6>4. ASSUME NEW y \in VerifyState PROVE [y EXCEPT !.primary = c] \in VerifyState
            BY Zenon DEF VerifyState
          <6>5. QED
            BY <1>0, <6>1, <6>2, <6>3, <6>4
        <5>4. (v.broaden \/ local = "EscalateStrategy") \in BOOLEAN
              /\ (v.primary \/ local = "SwitchRole") \in BOOLEAN
          OBVIOUS
        <5>5. x = [v EXCEPT !.led = Mark(v.led, local), !.plan = IF wider THEN <<>> ELSE v.plan,
                            !.broaden = v.broaden \/ local = "EscalateStrategy",
                            !.primary = v.primary \/ local = "SwitchRole"]
          OBVIOUS
        <5> HIDE DEF v, wider, x
        <5>6. QED
          BY <5>1, <5>2, <5>3, <5>4, <5>5
      <4>2. /\ x.plan = <<>> \/ x.plan = Take(p).plan
            /\ x.executed = Take(p).executed /\ x.passed = Take(p).passed
        BY <1>0 DEF VerifyState
      <4> HIDE DEF x
      <4>3. Take(p)' = x
        BY <3>4, <4>1, TakePut
      <4>4. state' # "Verifying"
        BY <3>1 DEF DecisionState
      <4>5. QED
        BY <1>a, <1>b, <3>1, <3>2, <4>2, <4>3, <4>4 DEF PlanKept
    <3>5. QED
      BY <2>8, <3>3, <3>4 DEF ActOnDecision
  <2>9. CASE RepairEdit(p) \/ RepairFinish(p)
    <3>1. /\ Put(p, Take(p)) /\ state = "Repairing" /\ state' = state
          /\ (pc' = "editing" \/ (pc' = "repaired" /\ ~open'))
      BY <2>9 DEF RepairEdit, RepairFinish, Driving
    <3>2. PlanKept(p)
      BY <1>0, <3>1, PutKept
    <3>3. QED
      BY <1>b, <3>1, <3>2
  <2>10. CASE RepairAsk(p)
    <3> DEFINE v == Take(p)
               x == [v EXCEPT !.led = Record(@, v.diag, "NoChange")]
    <3>1. /\ Put(p, x) /\ state = "Repairing" /\ state' = "WaitingForUser" /\ pc' = "top" /\ ~open'
      BY <2>10 DEF RepairAsk, Driving, MoveTo
    <3>2. v.led \in Ledger /\ v.diag \in Fingerprints /\ "NoChange" \in Outcomes
      BY <1>0 DEF VerifyState, Outcomes
    <3>3. Record(v.led, v.diag, "NoChange") \in Ledger
      BY <3>2, RecordTyped
    <3>4. x \in VerifyState /\ x.plan = v.plan /\ x.executed = v.executed /\ x.passed = v.passed
      BY <1>0, <3>3 DEF VerifyState
    <3> HIDE DEF x
    <3>5. PlanKept(p)
      BY <3>1, <3>4, PutKept
    <3>6. QED
      BY <1>b, <3>1, <3>5
  <2>11. CASE RepairRedo(p)
    <3>1. vs' = vs /\ state = "Repairing" /\ state' = state /\ pc = "top" /\ open /\ pc' = "redoing"
      BY <2>11 DEF RepairRedo, Driving
    <3>2. Take(p)'.plan = <<>>
      BY <3>1, TakeKept DEF FailedPlanIsDropped
    <3>3. QED
      BY <1>a, <3>2
  <2>12. CASE ToolRuns(p)
    <3>1. /\ vs' = vs /\ state = "Repairing" /\ state' = state /\ open' = open
          /\ \/ pc = "editing" /\ pc' = "edited"
             \/ pc = "redoing" /\ pc' = "redone"
      BY <2>12 DEF ToolRuns, StepsOfStates
    <3>2. pc = "redoing" => Take(p).plan = <<>>
      BY DEF StepsOfStates, FailedPlanIsDropped
    <3>3. PlanKept(p)
      BY <3>1, TakeKept DEF PlanKept
    <3>4. QED
      BY <1>b, <3>1, <3>2, <3>3
  <2>13. CASE ToolResult(p)
    <3>1. /\ vs' = vs /\ state = "Repairing" /\ ~open'
          /\ \/ pc = "edited" /\ pc' = "repaired" /\ state' = state
             \/ pc = "redone" /\ pc' = "top"
      BY <2>13 DEF ToolResult, MoveTo, StepsOfStates
    <3>2. pc = "redone" => Take(p).plan = <<>>
      BY DEF StepsOfStates, FailedPlanIsDropped
    <3>3. PlanKept(p)
      BY <3>1, TakeKept DEF PlanKept
    <3>4. CASE pc = "edited"
      BY <1>b, <3>1, <3>3, <3>4
    <3>5. CASE pc = "redone"
      BY <1>a, <3>2, <3>3, <3>5 DEF PlanKept
    <3>6. QED
      BY <3>1, <3>4, <3>5
  <2>14. CASE ToolDenied(p) \/ ToolAsks(p)
    <3>1. /\ ~open' /\ state' = "Failed" /\ pc' = "top" /\ (Remove(p) \/ vs' = vs)
      BY <2>14 DEF ToolDenied, ToolAsks, MoveTo
    <3>2. Take(p)'.plan = <<>> \/ PlanKept(p)
      BY <3>1, TakeGone, TakeKept DEF PlanKept
    <3>3. ASSUME PlanKept(p) PROVE PlanIsCurrent(p)' /\ FailedPlanIsDropped(p)'
      BY <3>1, <3>3 DEF PlanKept, PlanIsCurrent, FailedPlanIsDropped
    <3>4. QED
      BY <1>a, <3>2, <3>3
  <2>15. CASE RecordAttempt(p)
    <3> DEFINE v == Take(p)
               sig == [act |-> None, err |-> None, files |-> disk]
               x == [v EXCEPT !.led = Record(@, v.diag, local), !.plan = <<>>, !.executed = 0,
                              !.passed = TRUE, !.det = ObserveStep(@, sig).det]
    <3>1. Put(p, x)
      BY <2>15 DEF RecordAttempt
    <3>2. x.plan = <<>>
      BY <1>0 DEF VerifyState
    <3>3. Take(p)'.plan = x.plan \/ Take(p)'.plan = <<>>
      <4> HIDE DEF x
      <4>1. QED
        BY <3>1 DEF TypeOK, Put, Take, Fresh
    <3>4. QED
      BY <1>a, <3>2, <3>3
  <2>16. CASE RepairDone(p)
    <3>1. vs' = vs /\ pc = "attempted"
      BY <2>16 DEF RepairDone
    <3>2. Take(p)'.plan = <<>>
      BY <3>1, TakeKept DEF FailedPlanIsDropped
    <3>3. QED
      BY <1>a, <3>2
  <2>17. CASE Implement(p)
    <3>1. /\ vs' = vs /\ state = "Implementing" /\ state' = "Verifying" /\ pc' = "top"
          /\ open' = open /\ answers' = answers
      BY <2>17 DEF Implement, Driving, MoveTo, counters
    <3>2. ~open' /\ answers' > 0
      BY <3>1 DEF StepsOfStates
    <3>3. PlanKept(p)
      BY <3>1, TakeKept DEF PlanKept
    <3>4. QED
      BY <1>b, <3>1, <3>2, <3>3
  <2>18. CASE Fault(p)
    <3>1. /\ vs' = vs /\ state' = "Failed" /\ pc = "top" /\ pc' = pc
          /\ UNCHANGED <<disk, verified, answers, open>>
      BY <2>18 DEF Fault, MoveTo, counters
    <3>2. QED
      BY <1>c, <3>1, TakeKept DEF PlanKept
  <2>19. QED
    BY <1>1, <2>1, <2>2, <2>3, <2>4, <2>5, <2>6, <2>7, <2>8, <2>9, <2>10, <2>11, <2>12, <2>13,
       <2>14, <2>15, <2>16, <2>17, <2>18 DEF Step
<1>2. ASSUME Respond(p) PROVE PlanIsCurrent(p)' /\ FailedPlanIsDropped(p)'
  <2>1. /\ vs' = vs /\ state = "WaitingForUser" /\ state' = "Implementing" /\ pc' = pc /\ open' = open
    BY <1>2 DEF Respond
  <2>2. ~open' /\ pc' # "attempted"
    BY <2>1 DEF StepsOfStates
  <2>3. QED
    BY <1>b, <2>1, <2>2, TakeKept DEF PlanKept
<1>3. ASSUME Pause(p) \/ Resume(p) \/ UNCHANGED vars
      PROVE  PlanIsCurrent(p)' /\ FailedPlanIsDropped(p)'
  <2>1. vs' = vs /\ UNCHANGED <<state, disk, verified, answers, open, pc>>
    BY <1>3 DEF Pause, Resume, vars, counters
  <2>2. QED
    BY <1>c, <2>1, TakeKept DEF PlanKept
<1>4. ASSUME Crash(p) PROVE PlanIsCurrent(p)' /\ FailedPlanIsDropped(p)'
  BY <1>4, <1>a, TakeGone DEF Crash
<1>5. QED
  BY <1>1, <1>2, <1>3, <1>4 DEF Next

LEMMA PlansAreCurrent ==
  ASSUME \A p, q \in Processes : p = q
  PROVE  Spec => [](/\ TypeOK /\ StepsOfStates
                    /\ \A p \in Processes : PlanIsCurrent(p) /\ FailedPlanIsDropped(p))
<1>1. Init => StepsOfStates /\ \A p \in Processes : PlanIsCurrent(p) /\ FailedPlanIsDropped(p)
  BY DEF Init, StepsOfStates, PlanIsCurrent, FailedPlanIsDropped, Take, Fresh
<1>2. ASSUME TypeOK, StepsOfStates, [Next]_vars,
             \A p \in Processes : PlanIsCurrent(p) /\ FailedPlanIsDropped(p)
      PROVE  /\ StepsOfStates'
             /\ (\A p \in Processes : PlanIsCurrent(p) /\ FailedPlanIsDropped(p))'
  <2>1. StepsOfStates'
    BY <1>2, StepsStay
  <2>2. ASSUME NEW p \in Processes PROVE PlanIsCurrent(p)' /\ FailedPlanIsDropped(p)'
    BY <1>2, PlansStay
  <2>3. QED
    BY <2>1, <2>2
<1>3. QED
  BY <1>1, <1>2, TypeCorrect, PTL DEF Spec

\* As long as one process drives the task, it completes only when the syntax
\* check and the tests of the contents it completes with have passed on them,
\* whatever repairs, answers, pauses and kills came before.
THEOREM CompletionIsVerified ==
  ASSUME \A p, q \in Processes : p = q
  PROVE  Spec => VerifiedCompletion
<1>1. ASSUME TypeOK, StepsOfStates, [Next]_vars,
             \A p \in Processes : PlanIsCurrent(p) /\ FailedPlanIsDropped(p),
             state' = "Completed", state # "Completed"
      PROVE  Tooling[disk] \ {"Style"} \subseteq verified
  <2>1. PICK p \in Processes : VerifyNothing(p) \/ VerifyDone(p)
    BY <1>1 DEF Next, Step, VerifyPass, VerifyFail, VerifyStopped, Diagnose, DecideRepair,
                ActOnDecision, DecisionState, RepairEdit, RepairFinish, RepairAsk, RepairRedo,
                ToolRuns, ToolResult, ToolDenied, ToolAsks, RecordAttempt, RepairDone, Implement,
                Fault, Respond, Pause, Resume, Crash, MoveTo, vars
  <2> DEFINE w == Planned(Take(p))
  <2>2. Take(p) \in VerifyState /\ w \in VerifyState /\ Tooling[disk] \subseteq Tiers
    BY <1>1, TakeTyped, PlannedTyped, LoopAssumption DEF TypeOK
  <2>3. CASE Take(p).plan = <<>>
    <3>1. w.plan = EscalationPlan(Tooling[disk], Take(p).broaden) /\ w.executed = 0
      BY <2>2, <2>3 DEF Planned, VerifyState
    <3>2. w.plan = <<>>
      <4>1. VerifyDone(p) => w.plan = <<>> \/ (~HasNext(w) /\ w.plan # <<>>)
        BY DEF VerifyDone
      <4>2. w.plan # <<>> => HasNext(w)
        <5>1. w.plan \in Seq(Tiers)
          BY <2>2 DEF VerifyState
        <5>2. w.plan # <<>> => Len(w.plan) > 0
          BY <5>1
        <5> HIDE DEF w
        <5>3. QED
          BY <3>1, <5>2 DEF HasNext
      <4>3. QED
        BY <2>1, <4>1, <4>2 DEF VerifyNothing
    <3>3. Take(p).broaden \in BOOLEAN
      BY <2>2 DEF VerifyState
    <3>4. ASSUME NEW tier \in Tooling[disk] \ {"Style"} PROVE FALSE
      <4>1. \E i \in 1..Len(EscalationPlan(Tooling[disk], Take(p).broaden)) : TRUE
        BY <2>2, <3>3, EscalationCovers
      <4> HIDE DEF w
      <4>2. QED
        BY <3>1, <3>2, <4>1
    <3>5. QED
      BY <3>4
  <2>4. CASE Take(p).plan # <<>>
    <3>1. w = Take(p)
      BY <2>4 DEF Planned
    <3>2. VerifyDone(p)
      BY <2>1, <2>4, <3>1 DEF VerifyNothing
    <3>3. Take(p).passed /\ ~HasNext(Take(p)) /\ state = "Verifying"
      BY <3>1, <3>2 DEF VerifyDone, Driving
    <3>4. PlanCovers(p) /\ PassedSoFar(p)
      BY <1>1, <2>4, <3>3 DEF PlanIsCurrent
    <3>5. Take(p).executed >= Len(Take(p).plan)
      BY <2>2, <3>3 DEF HasNext, VerifyState
    <3>6. \A i \in 1..Len(Take(p).plan) : Take(p).plan[i] \in verified
      BY <2>2, <3>4, <3>5 DEF PassedSoFar, VerifyState
    <3>7. QED
      BY <3>4, <3>6 DEF PlanCovers
  <2>5. QED
    BY <2>3, <2>4
<1>2. QED
  BY <1>1, PlansAreCurrent, PTL DEF Spec, VerifiedCompletion

\* As long as one process drives the task, and until the user has answered, a
\* diagnosis is made of a check that failed on the contents now on disk: a
\* repair always drops the plan whose check it answers.
THEOREM DiagnosesAreCurrent ==
  ASSUME \A p, q \in Processes : p = q
  PROVE  Spec => DiagnosisIsCurrent
<1>1. ASSUME TypeOK, StepsOfStates, [Next]_vars,
             \A p \in Processes : PlanIsCurrent(p) /\ FailedPlanIsDropped(p),
             state = "Verifying", state' = "Diagnosing", answers = 0
      PROVE  Take(at)'.run.disk = disk
  <2>1. PICK p \in Processes : VerifyFail(p) \/ VerifyStopped(p)
    BY <1>1 DEF Next, Step, VerifyNothing, VerifyPass, VerifyDone, Diagnose, DecideRepair,
                ActOnDecision, DecisionState, RepairEdit, RepairFinish, RepairAsk, RepairRedo,
                ToolRuns, ToolResult, ToolDenied, ToolAsks, RecordAttempt, RepairDone, Implement,
                Fault, Respond, Pause, Resume, Crash, MoveTo, StepsOfStates, Driving, vars
  <2> DEFINE w == Planned(Take(p))
  <2>2. Take(p) \in VerifyState /\ w \in VerifyState
    BY <1>1, TakeTyped, PlannedTyped
  <2>3. CASE VerifyStopped(p)
    <3>1. ~w.passed
      BY <2>3 DEF VerifyStopped
    <3>2. w.passed
      BY <1>1, <2>2 DEF FailedPlanIsDropped, Planned, VerifyState
    <3>3. QED
      BY <3>1, <3>2
  <2>4. CASE VerifyFail(p)
    <3>1. PICK fp \in Fingerprints :
            Put(p, [w EXCEPT !.executed = @ + 1, !.passed = FALSE, !.run = [fp |-> fp, disk |-> disk]])
      BY <2>4 DEF VerifyFail
    <3> DEFINE x == [w EXCEPT !.executed = @ + 1, !.passed = FALSE, !.run = [fp |-> fp, disk |-> disk]]
    <3>2. x \in VerifyState
      <4>1. [fp |-> fp, disk |-> disk] \in [fp : Fingerprints, disk : Disks \union {None}]
        BY <1>1 DEF TypeOK
      <4>2. w.det \in Detector(Disks)
        BY <2>2 DEF VerifyState
      <4>3. [w EXCEPT !.executed = @ + 1, !.passed = FALSE,
                      !.run = [fp |-> fp, disk |-> disk], !.det = w.det] \in VerifyState
        BY <2>2, <4>1, <4>2, RanTyped
      <4>4. [w EXCEPT !.executed = @ + 1, !.passed = FALSE,
                      !.run = [fp |-> fp, disk |-> disk], !.det = w.det] = x
        BY <2>2 DEF VerifyState
      <4>5. QED
        BY <4>3, <4>4
    <3>3. x.run.disk = disk
      BY <2>2 DEF VerifyState
    <3>4. Put(p, x)
      BY <3>1
    <3> HIDE DEF x
    <3>5. Take(p)' = x
      BY <1>1, <3>2, <3>4, TakePut
    <3>6. at' = p
      BY <2>4 DEF VerifyFail, Driving, MoveTo, Resting
    <3>7. Take(at)' = Take(p)'
      BY <3>6 DEF Take
    <3>8. QED
      BY <3>3, <3>5, <3>7
  <2>5. QED
    BY <2>1, <2>3, <2>4
<1>2. QED
  BY <1>1, PlansAreCurrent, PTL DEF Spec, DiagnosisIsCurrent
=============================================================================
