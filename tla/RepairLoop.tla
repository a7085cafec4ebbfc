----------------------------- MODULE RepairLoop -----------------------------
(***************************************************************************)
(* The pure bookkeeping of the repair loop: the loop detector of           *)
(* crates/valyria-agent/src/loop_detect.rs with its default thresholds and *)
(* the repair ledger of repair.rs.  A detector and a ledger are records;   *)
(* an observation returns the finding it makes and the detector it leaves. *)
(***************************************************************************)
EXTENDS Naturals, Sequences

CONSTANTS
  MaxAttempts,   \* MAX_REPAIR_ATTEMPTS
  Fingerprints,  \* diagnosis fingerprints
  FailureCount,  \* how many failures a diagnosis of that fingerprint counts
  None           \* no value

ASSUME RepairAssumption ==
  /\ MaxAttempts \in Nat
  /\ None \notin Fingerprints
  /\ FailureCount \in [Fingerprints -> Nat]

\* DetectorConfig::default
RepeatAt == 3
LongestPeriod == 3
FailuresAt == 3
StallAt == 3

Findings == {None, "NoChangeIteration", "ExactRepeat", "Oscillation",
             "RepeatedFailure", "FrontierStalled"}

Signature(Files) == [act : {None}, err : Fingerprints \union {None}, files : Files]

Metric == [frontier : Nat, failures : Nat, touched : Nat]

Detector(Files) ==
  [steps : Seq(Signature(Files)), failures : Seq(Fingerprints),
   metric : Metric \union {None}, unchanged : Nat, stalled : Nat]

EmptyDetector == [steps |-> <<>>, failures |-> <<>>, metric |-> None,
                  unchanged |-> 0, stalled |-> 0]

-----------------------------------------------------------------------------
(* A step signature is [act, err, files]: what the step did, the failure   *)
(* it reacted to, and the hash of the files it left.  The driver never     *)
(* sets a tool call or a patch: act is None.  Equal records, equal keys.   *)

\* The last n elements are all x.
EndsWith(s, n, x) ==
  Len(s) >= n /\ \A i \in (Len(s) - n + 1)..Len(s) : s[i] = x

NoChange(steps, unchanged) ==
  /\ unchanged + 1 >= StallAt
  /\ \E i \in (Len(steps) - unchanged)..Len(steps) : steps[i].act # None

Repeats(steps) ==
  LET last == steps[Len(steps)]
  IN  (last.act # None \/ last.err # None) /\ EndsWith(steps, RepeatAt, last)

\* The last three rounds of some period are the same, and not constant.
Oscillates(steps) ==
  \E period \in 1..LongestPeriod :
    LET first == Len(steps) - 3 * period + 1
    IN  /\ Len(steps) >= 3 * period
        /\ \E i \in first..(first + period - 1) : steps[i] # steps[first]
        /\ \A i \in first..(Len(steps) - period) : steps[i] = steps[i + period]

ObserveStep(det, sig) ==
  LET steps     == Append(det.steps, sig)
      same      == det.steps # <<>> /\ det.steps[Len(det.steps)].files = sig.files
      unchanged == IF same THEN det.unchanged + 1 ELSE 0
  IN [finding |-> CASE NoChange(steps, unchanged) -> "NoChangeIteration"
                    [] ~NoChange(steps, unchanged) /\ Repeats(steps) -> "ExactRepeat"
                    [] ~NoChange(steps, unchanged) /\ ~Repeats(steps) /\ Oscillates(steps)
                         -> "Oscillation"
                    [] OTHER -> None,
      det     |-> [det EXCEPT !.steps = steps, !.unchanged = unchanged]]

\* observe_failure(Some(fp))
ObserveFailure(det, fp) ==
  LET failures == Append(det.failures, fp)
  IN [finding |-> IF EndsWith(failures, FailuresAt, fp) THEN "RepeatedFailure" ELSE None,
      det     |-> [det EXCEPT !.failures = failures]]

\* observe_failure(None), on a passing run
ObservePass(det) == [det EXCEPT !.failures = <<>>]

\* A metric is [frontier, failures, touched].
Advanced(new, old) ==
  \/ new.frontier > old.frontier
  \/ new.failures < old.failures
  \/ new.touched > old.touched

ObserveProgress(det, metric) ==
  LET stalled == IF det.metric = None THEN det.stalled
                 ELSE IF Advanced(metric, det.metric) THEN 0 ELSE det.stalled + 1
  IN [finding |-> IF stalled >= StallAt THEN "FrontierStalled" ELSE None,
      det     |-> [det EXCEPT !.metric = metric, !.stalled = stalled]]

\* The `or_else` chain of step_diagnosing: a detector that fires hides the
\* observation from the ones after it.
ObserveDiagnosis(det, fp, files, metric) ==
  LET step    == ObserveStep(det, [act |-> None, err |-> fp, files |-> files])
      failure == ObserveFailure(step.det, fp)
  IN  IF step.finding # None THEN step
      ELSE IF failure.finding # None THEN failure
      ELSE ObserveProgress(failure.det, metric)

-----------------------------------------------------------------------------
(* RepairLedger                                                            *)

\* Outcomes the driver records; Fixed and Regressed are never produced.
Outcomes == {"Improved", "NoChange"}
Decisions == {"Continue", "EscalateStrategy", "SwitchRole", "AskUser", "GiveUp"}

Ledger == [attempts : Seq([fp : Fingerprints, outcome : Outcomes]),
           escalated : BOOLEAN, switched : BOOLEAN]

EmptyLedger == [attempts |-> <<>>, escalated |-> FALSE, switched |-> FALSE]

\* An attempt is [fp, outcome].
Record(led, fp, outcome) ==
  [led EXCEPT !.attempts = Append(@, [fp |-> fp, outcome |-> outcome])]

AttemptsAt(led, fp) == {i \in 1..Len(led.attempts) : led.attempts[i].fp = fp}

EscalateOrAsk(led) ==
  CASE ~led.escalated                  -> "EscalateStrategy"
    [] led.escalated /\ ~led.switched  -> "SwitchRole"
    [] OTHER                           -> "AskUser"

Decide(led, fp, finding) ==
  CASE Len(led.attempts) >= MaxAttempts -> "GiveUp"
    [] Len(led.attempts) < MaxAttempts /\ finding = "Oscillation" -> "AskUser"
    [] Len(led.attempts) < MaxAttempts /\ finding \notin {None, "Oscillation"}
         -> EscalateOrAsk(led)
    [] OTHER -> IF \E i, j \in AttemptsAt(led, fp) : i # j
                  THEN EscalateOrAsk(led) ELSE "Continue"

\* mark_escalated and mark_switched_role
Mark(led, decision) ==
  [led EXCEPT !.escalated = @ \/ decision = "EscalateStrategy",
              !.switched  = @ \/ decision = "SwitchRole"]
=============================================================================
