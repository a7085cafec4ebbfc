----------------------------- MODULE TaskJournal -----------------------------
(***************************************************************************)
(* What the driver reads back from a task's journal.  A journal is a       *)
(* sequence of entries; an entry keeps its kind, the plan step it names,   *)
(* the decision or submission stored in it (act), the turn index of a      *)
(* model call (turn) and, for the outcome of a tool call, the position of  *)
(* the entry that issued the call (of), which stands for the effect id.    *)
(* StateChanged entries are left out: no query below looks for them.       *)
(***************************************************************************)
EXTENDS Naturals, Sequences, FiniteSets

None == "None"

Nothing == [kind |-> "nothing"]

Entry(kind, step, act, turn, of) ==
  [kind |-> kind, step |-> step, act |-> act, turn |-> turn, of |-> of]

Plain(kind)         == Entry(kind, None, Nothing, 0, 0)
About(kind, step)   == Entry(kind, step, Nothing, 0, 0)
Outcome(kind, i)    == Entry(kind, None, Nothing, 0, i)

ModelCall       == {"model_call", "turn_call"}
ModelCompletion == {"plan_completion", "step_completion", "turn_completion"}

\* The largest of a set of positions, 0 if there is none (rposition).
LastOf(S) == IF S = {} THEN 0 ELSE CHOOSE i \in S : \A k \in S : k <= i

\* The smallest, 0 if there is none (position).
FirstOf(S) == IF S = {} THEN 0 ELSE CHOOSE i \in S : \A k \in S : i <= k

Places(j, kinds) == {i \in DOMAIN j : j[i].kind \in kinds}

PlacesFor(j, kinds, s) == {i \in Places(j, kinds) : j[i].step = s}

Since(j, i, kinds) == \E k \in Places(j, kinds) : k > i

-----------------------------------------------------------------------------
(* TaskManager.                                                            *)

\* The turn index of the next call.  A completion in the very last entry was
\* not acted on and does not count.
CountModelCalls(j) == Cardinality(Places(j, ModelCompletion) \ {Len(j)})

\* The kind of the latest outcome journaled for the call issued at i.
OutcomeOf(j, i) ==
  LET last == LastOf({k \in DOMAIN j : k > i /\ j[k].of = i})
  IN  IF last = 0 THEN None ELSE j[last].kind

LastToolCall(j) == LastOf(Places(j, {"tool"}))

\* The last tool call if nothing says how it ended: 0 if there is none.
InterruptedToolCall(j) ==
  LET i == LastToolCall(j) IN IF i # 0 /\ OutcomeOf(j, i) = None THEN i ELSE 0

\* The last tool call if its latest outcome is an open question to the user.
PendingToolCall(j) ==
  LET i == LastToolCall(j) IN IF i # 0 /\ OutcomeOf(j, i) = "permission_ask" THEN i ELSE 0

-----------------------------------------------------------------------------
(* AgentDriver, planning and plan steps.                                   *)

HasAcceptedPlan(j) == Places(j, {"plan_accepted"}) # {}

PlanRejectionCount(j) == Cardinality(Places(j, {"plan_rejected"}))

\* The planning completion nobody has judged yet.
UnprocessedPlanSubmission(j) ==
  LET i == LastOf(Places(j, {"plan_completion"}))
  IN  IF Since(j, i, {"plan_accepted", "plan_rejected"}) THEN 0 ELSE i

CompletedPlanSteps(j) == {j[i].step : i \in Places(j, {"plan_step_completed"})}

StepStarted(j, s) == PlacesFor(j, {"plan_step_started"}, s) # {}

CheckpointTakenFor(j, s) == PlacesFor(j, {"plan_checkpoint"}, s) # {}

\* Model calls (issued, not completed) for s since it was first started.
ModelTurnsForStep(j, s) ==
  LET start == FirstOf(PlacesFor(j, {"plan_step_started"}, s))
  IN  IF start = 0 THEN 0
      ELSE Cardinality({i \in PlacesFor(j, {"model_call"}, s) : i > start})

\* Faulty variant of UnprocessedStepAction: what was decided is never found.
NoStepAction(j, s) == 0

\* The decision for s nobody has acted on yet.  A journaled scope expansion
\* counts as acting, the outcome of a question does not.
UnprocessedStepAction(j, s) ==
  LET i == LastOf(PlacesFor(j, {"step_completion"}, s))
  IN  IF Since(j, i, {"tool", "plan_step_completed", "plan_scope_expansion"}) THEN 0 ELSE i

-----------------------------------------------------------------------------
(* AgentDriver::build_conversation: what a turn without a plan is told.    *)

Questions(j) == {i \in Places(j, ModelCompletion) : j[i].act.kind = "ask"}

\* The question the answer at i is paired with, 0 if it is told alone: the
\* latest one, unless an earlier answer took it.
QuestionOf(j, i) ==
  LET q == LastOf({k \in Questions(j) : k < i})
  IN  IF \E k \in Places(j, {"user_response"}) : q < k /\ k < i THEN 0 ELSE q

\* The exchanges a conversation built from j holds, in the order of its
\* journal: what a call (or a question) led to, by the position of either.
Conversation(j) ==
  [i \in Places(j, {"tool_result", "tool_denied", "user_response"}) |->
     IF j[i].kind = "user_response" THEN QuestionOf(j, i) ELSE j[i].of]

=============================================================================
