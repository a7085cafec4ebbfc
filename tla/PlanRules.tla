------------------------------ MODULE PlanRules ------------------------------
(***************************************************************************)
(* A plan proposed by the model: its validation, its dependency waves, the *)
(* order and the groups its steps run in, and how a group is cut into      *)
(* batches without overlapping targets.  Pure functions of a plan.         *)
(*                                                                         *)
(* A path is a file with the directory it lies in; a plan_scope entry is a *)
(* directory, plan_scope = {} means the plan promises nothing.             *)
(***************************************************************************)
EXTENDS Naturals, Sequences, FiniteSets, SequencesExt

CONSTANTS
  Files,         \* paths steps may name as targets
  Dirs,          \* directories a plan may name as its scope
  DirOf,         \* the directory of a file
  AllowedRoots,  \* directories the sandbox lets a plan write to; {}: all
  OutsideRoot    \* files whose path does not resolve inside the workspace

ASSUME PathsAssumption ==
  /\ DirOf \in [Files -> Dirs]
  /\ AllowedRoots \subseteq Dirs
  /\ OutsideRoot \subseteq Files

NoStep == "None"

\* The fields of a step and of a plan that the rules read: verified says that
\* the step declares a verification, boundary that it is a rollback boundary.
PlanStep ==
  [id : STRING, targets : SUBSET Files, deps : SUBSET STRING, parallel : BOOLEAN,
   checkpoint : BOOLEAN, verified : BOOLEAN, boundary : BOOLEAN]

ExecutionPlan == [scope : SUBSET Dirs, steps : Seq(PlanStep)]

\* Where `find` stops.
Lowest(S) == CHOOSE n \in S : \A k \in S : n <= k

StepIds(plan) == {plan.steps[i].id : i \in DOMAIN plan.steps}

\* Plan::step: the first step of that name.
StepOf(plan, id) ==
  plan.steps[CHOOSE i \in DOMAIN plan.steps :
               /\ plan.steps[i].id = id
               /\ \A k \in DOMAIN plan.steps : plan.steps[k].id = id => i <= k]

IsMutating(step) == step.targets # {}

-----------------------------------------------------------------------------
(* validate.rs                                                             *)

\* step -> the steps it depends on; a repeated name replaces the earlier one.
Adjacency(plan) ==
  [id \in StepIds(plan) |->
     LET last == CHOOSE i \in DOMAIN plan.steps :
                   /\ plan.steps[i].id = id
                   /\ \A k \in DOMAIN plan.steps : plan.steps[k].id = id => k <= i
     IN  plan.steps[last].deps \intersect StepIds(plan)]

Ready(plan, remaining) ==
  {id \in remaining : Adjacency(plan)[id] \intersect remaining = {}}

\* The elements of a sequence that lie in a set, in its order.
Keep(seq, S) ==
  LET Kept[n \in 0 .. Len(seq)] ==
        IF n = 0 THEN <<>>
        ELSE IF seq[n] \in S THEN Append(Kept[n - 1], seq[n]) ELSE Kept[n - 1]
  IN  Kept[Len(seq)]

\* The names in a set of steps, in declared order.
InOrder(plan, S) == Keep([i \in DOMAIN plan.steps |-> plan.steps[i].id], S)

\* Kahn's algorithm.  It stops early where only a cycle is left.
TopologicalWaves(plan) ==
  LET Left[n \in 0 .. Len(plan.steps)] ==      \* what n waves leave
        IF n = 0 THEN StepIds(plan) ELSE Left[n - 1] \ Ready(plan, Left[n - 1])
      rounds == {n \in 1 .. Len(plan.steps) : Ready(plan, Left[n - 1]) # {}}
  IN  [n \in rounds |-> InOrder(plan, Ready(plan, Left[n - 1]))]

FindCycle(plan) == ToSet(FlattenSeq(TopologicalWaves(plan))) # StepIds(plan)

InScope(plan, f) == plan.scope = {} \/ DirOf[f] \in plan.scope

ValidateScope(plan, manual) ==
  {"plan_scope_outside_profile" :
     d \in {d \in plan.scope : AllowedRoots # {} /\ d \notin AllowedRoots}}
  \union (IF manual /\ plan.scope # {} THEN {"plan_scope_outside_profile"} ELSE {})
  \union UNION {
    {"target_unresolvable" : f \in plan.steps[i].targets \intersect OutsideRoot}
    \union {"target_outside_plan_scope" :
              f \in {f \in plan.steps[i].targets \ OutsideRoot : ~InScope(plan, f)}}
    : i \in DOMAIN plan.steps}

\* The codes of everything wrong with a plan; {} means it is valid.
Validate(plan, manual) ==
  IF plan.steps = <<>> THEN {"empty_plan"}
  ELSE {"duplicate_step_id" :
          i \in {i \in DOMAIN plan.steps : \E k \in 1..(i - 1) : plan.steps[k].id = plan.steps[i].id}}
       \union {"unknown_dependency" :
          i \in {i \in DOMAIN plan.steps : ~(plan.steps[i].deps \subseteq StepIds(plan))}}
       \union (IF FindCycle(plan) THEN {"cyclic_dependency"} ELSE {})
       \union {"mutating_step_without_verification" :
          i \in {i \in DOMAIN plan.steps : IsMutating(plan.steps[i]) /\ ~plan.steps[i].verified}}
       \union {"rollback_boundary_without_checkpoint" :
          i \in {i \in DOMAIN plan.steps : plan.steps[i].boundary /\ ~plan.steps[i].checkpoint}}
       \union ValidateScope(plan, manual)

-----------------------------------------------------------------------------
(* schedule.rs                                                             *)

\* Every step of a validated plan, wave by wave.
ScheduleOrder(plan) == FlattenSeq(TopologicalWaves(plan))

WaveOf(plan, id) ==
  LET waves == TopologicalWaves(plan)
  IN  waves[CHOOSE n \in DOMAIN waves : id \in ToSet(waves[n])]

\* A step alone, or the parallelizable steps of its wave.
GroupFor(plan, id) ==
  IF StepOf(plan, id).parallel
    THEN Keep(WaveOf(plan, id), {other \in StepIds(plan) : StepOf(plan, other).parallel})
    ELSE <<id>>

\* The first step of the schedule that is not done.
NextIncomplete(order, done) ==
  LET rest == {i \in DOMAIN order : order[i] \notin done}
  IN  IF rest = {} THEN NoStep ELSE order[Lowest(rest)]

-----------------------------------------------------------------------------
(* plan_exec.rs: batches for the wave executor.                            *)

Overlap(plan, s1, s2) == StepOf(plan, s1).targets \intersect StepOf(plan, s2).targets # {}

\* Each step joins the first batch none of whose steps it overlaps: the
\* number of that batch, for every place in ids.
PartitionConflictFree(ids, plan) ==
  LET Batch[k \in DOMAIN ids] ==
        Lowest((1..k) \ {Batch[i] : i \in {i \in 1..(k - 1) : Overlap(plan, ids[i], ids[k])}})
  IN  [b \in {Batch[k] : k \in DOMAIN ids} |->
         Keep(ids, {ids[k] : k \in {k \in DOMAIN ids : Batch[k] = b}})]

\* batch.chunks(n)
Chunks(batch, n) ==
  [k \in 1..((Len(batch) + n - 1) \div n) |->
     SubSeq(batch, (k - 1) * n + 1, IF k * n < Len(batch) THEN k * n ELSE Len(batch))]

\* What one call of the wave executor launches, chunk after chunk.
WaveChunks(ids, plan, n) ==
  LET batches == PartitionConflictFree(ids, plan)
  IN  FlattenSeq([b \in DOMAIN batches |-> Chunks(batches[b], n)])

=============================================================================
