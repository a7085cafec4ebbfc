------------------------------ MODULE PlanSteps ------------------------------
(***************************************************************************)
(* A task that works turn by turn with a model, or along a plan the model  *)
(* wrote: planning, one step after another, waves of child tasks,          *)
(* questions and prompts, kills and resumes.  Root is the task;            *)
(* 1..MaxChildren are the children its waves create, in that order.        *)
(*                                                                         *)
(* What a driver knows between two calls of the handlers is only what the  *)
(* journal and the plan store say (module TaskJournal); at[t] holds the    *)
(* locals of the handler that is running.  Every journal append is an      *)
(* action, and a kill fits between any two.  A state transition is one     *)
(* action here; module TaskLifecycle splits it and has the signals.  What  *)
(* follows the last step (Verifying) is module VerifyRepair.               *)
(***************************************************************************)
EXTENDS TaskJournal, PlanRules

CONSTANTS
  Submissions,    \* plans the model may submit
  Decisions,      \* what it may decide within each step, subsets of StepActions
  TurnDecisions,  \* what it may decide in a turn without a plan
  Attended,       \* tasks whose prompts and questions somebody answers
  MaxRepairs,     \* MAX_PLAN_REPAIR_ATTEMPTS
  MaxTurns,       \* MAX_STEP_TURNS
  MaxParallel,    \* MAX_PARALLEL_CHILDREN
  MaxCalls,       \* bound: turns without a plan
  MaxChildren,    \* bound: children created in one behaviour
  MaxReplies,     \* bound: prompts and questions answered
  MaxCrashes      \* bound: kills

Root == 0
Children == 1..MaxChildren
Tasks == {Root} \union Children

NoFile == "none"
ToolCall(f) == [kind |-> "tool", file |-> f]
Finish      == [kind |-> "finish"]
Ask         == [kind |-> "ask"]
StepActions == {ToolCall(f) : f \in Files \union {NoFile}} \union {Finish, Ask}

ASSUME PlanStepsAssumption ==
  /\ Submissions \subseteq ExecutionPlan
  /\ \A p \in Submissions : StepIds(p) \subseteq DOMAIN Decisions \ {None}
  /\ Attended \subseteq Tasks
  /\ \A s \in DOMAIN Decisions : Decisions[s] \subseteq StepActions
  /\ TurnDecisions \subseteq StepActions
  /\ {MaxRepairs, MaxTurns, MaxParallel} \subseteq Nat \ {0}
  /\ {MaxCalls, MaxChildren, MaxReplies, MaxCrashes} \subseteq Nat

VARIABLES
  journal,   \* task_journal, per task
  state,     \* tasks.state, "None" for a task not created yet
  plan,      \* plan_revision: the stored plan per task
  settings,  \* what the process was started with: a manual permission mode, --plan
  pc,        \* where the task's driver (or its wave) is; "off": nobody drives it
  at,        \* its locals
  verdict,   \* what a wave knows of a child: "running", "ok", "bad", "err"
  replies,   \* answers given so far
  crashes    \* kills so far

vars == <<journal, state, plan, settings, pc, at, verdict, replies, crashes>>

Settings == [manual : BOOLEAN, plan : BOOLEAN]

NoPlan == [scope |-> {}, steps |-> <<>>]

\* The plan of a wave's child: one step, its dependencies cleared.
SoloPlan(p, s) == [p EXCEPT !.steps = <<[StepOf(p, s) EXCEPT !.deps = {}]>>]

\* The plans there can be, with what is computed from them once and for all:
\* whether they are valid and in which order their steps run.
Plans == Submissions \union {NoPlan}
         \union UNION {{SoloPlan(p, s) : s \in StepIds(p)} : p \in Submissions}

ErrorsOf == [p \in Plans |-> [m \in BOOLEAN |-> Validate(p, m)]]

OrderOf == [p \in Plans |-> ScheduleOrder(p)]

GroupOf == [p \in Plans |-> [s \in ToSet(OrderOf[p]) |-> GroupFor(p, s)]]

Submitted(p) == [kind |-> "plan", plan |-> p]
NotAPlan     == [kind |-> "nothing"]

Idle == [step |-> None, act |-> Nothing, tries |-> 0, to |-> "None", then |-> "off",
         todo |-> <<>>, kids |-> <<>>]

InWave(t) == verdict[t] = "running"

Write(t, e) == journal' = [journal EXCEPT ![t] = Append(@, e)]

Goto(t, p) == pc' = [pc EXCEPT ![t] = p]

\* TaskManager::transition, then back to the loop head or out of the handler.
MoveTo(t, s, then) ==
  /\ pc' = [pc EXCEPT ![t] = "move"]
  /\ at' = [at EXCEPT ![t] = [Idle EXCEPT !.to = s, !.then = then]]

\* The handler returns: a child of a wave reports, any other driver is gone.
Leave(t, v) ==
  /\ pc' = [pc EXCEPT ![t] = "off"]
  /\ at' = [at EXCEPT ![t] = Idle]
  /\ verdict' = IF InWave(t) THEN [verdict EXCEPT ![t] = v] ELSE verdict

Move(t) ==
  /\ pc[t] = "move"
  /\ state' = [state EXCEPT ![t] = at[t].to]
  /\ IF at[t].then = "off" THEN Leave(t, "bad")
     ELSE /\ Goto(t, at[t].then)
          /\ at' = [at EXCEPT ![t] = Idle]
          /\ UNCHANGED verdict
  /\ UNCHANGED <<journal, plan, settings, replies, crashes>>

-----------------------------------------------------------------------------
(* step_planning, request_plan_from_model                                  *)

AtPlanning(t) == pc[t] = "top" /\ state[t] = "Planning" /\ settings.plan

\* Without --plan there is no planning, whatever an earlier process did.
PassPlanning(t) ==
  /\ pc[t] = "top" /\ state[t] = "Planning" /\ ~settings.plan
  /\ MoveTo(t, "Implementing", "top")
  /\ UNCHANGED <<journal, state, plan, settings, verdict, replies, crashes>>

\* Faulty variant of EnterPlanning: a restart gives a new budget.
EnterPlanningAfresh(t) ==
  /\ AtPlanning(t)
  /\ ~HasAcceptedPlan(journal[t])
  /\ Goto(t, "propose")
  /\ at' = [at EXCEPT ![t] = Idle]
  /\ UNCHANGED <<journal, state, plan, settings, verdict, replies, crashes>>

\* Rejections the journal knows of count against the budget.
EnterPlanning(t) ==
  /\ AtPlanning(t)
  /\ ~HasAcceptedPlan(journal[t])
  /\ PlanRejectionCount(journal[t]) < MaxRepairs
  /\ Goto(t, "propose")
  /\ at' = [at EXCEPT ![t] = [Idle EXCEPT !.tries = PlanRejectionCount(journal[t])]]
  /\ UNCHANGED <<journal, state, plan, settings, verdict, replies, crashes>>

\* A plan was accepted before a kill, or the budget was spent before it.
LeavePlanning(t) ==
  /\ AtPlanning(t)
  /\ \/ /\ HasAcceptedPlan(journal[t])
        /\ MoveTo(t, "Implementing", "top")
        /\ UNCHANGED journal
     \/ /\ ~HasAcceptedPlan(journal[t])
        /\ PlanRejectionCount(journal[t]) >= MaxRepairs
        /\ Write(t, Plain("note"))
        /\ MoveTo(t, "Failed", "off")
  /\ UNCHANGED <<state, plan, settings, verdict, replies, crashes>>

\* A stored submission is judged; otherwise the model is asked.
Propose(t) ==
  /\ pc[t] = "propose"
  /\ LET i == UnprocessedPlanSubmission(journal[t]) IN
     \/ /\ i # 0
        /\ Goto(t, "judge")
        /\ at' = [at EXCEPT ![t].act = journal[t][i].act]
        /\ UNCHANGED journal
     \/ /\ i = 0
        /\ Write(t, Entry("model_call", None, Nothing, CountModelCalls(journal[t]), 0))
        /\ Goto(t, "plan_call")
        /\ UNCHANGED at
  /\ UNCHANGED <<state, plan, settings, verdict, replies, crashes>>

\* The turn index of the call that is running.
CallTurn(t) == journal[t][LastOf(Places(journal[t], ModelCall))].turn

\* The completion is journaled with the submission in it.
PlanAnswered(t) ==
  /\ pc[t] = "plan_call"
  /\ \E sub \in {Submitted(p) : p \in Submissions} \union {NotAPlan} :
       /\ Write(t, Entry("plan_completion", None, sub, CallTurn(t), 0))
       /\ at' = [at EXCEPT ![t].act = sub]
  /\ Goto(t, "judge")
  /\ UNCHANGED <<state, plan, settings, verdict, replies, crashes>>

Acceptable(sub) == sub.kind = "plan" /\ ErrorsOf[sub.plan][settings.manual] = {}

\* save_revision replaces the revision of a judgement a kill cut off.
SavePlan(t) ==
  /\ pc[t] = "judge" /\ Acceptable(at[t].act)
  /\ plan' = [plan EXCEPT ![t] = at[t].act.plan]
  /\ Goto(t, "accept")
  /\ UNCHANGED <<journal, state, settings, at, verdict, replies, crashes>>

AcceptPlan(t) ==
  /\ pc[t] = "accept"
  /\ Write(t, Plain("plan_accepted"))
  /\ MoveTo(t, "Implementing", "top")
  /\ UNCHANGED <<state, plan, settings, verdict, replies, crashes>>

\* record_and_decide: try again, or give up with the last attempt (a kill
\* between the two entries leaves what LeavePlanning starts from).
RejectPlan(t) ==
  /\ pc[t] = "judge" /\ ~Acceptable(at[t].act)
  /\ IF at[t].tries + 1 >= MaxRepairs
       THEN /\ journal' = [journal EXCEPT ![t] = @ \o <<Plain("plan_rejected"), Plain("note")>>]
            /\ MoveTo(t, "Failed", "off")
       ELSE /\ Write(t, Plain("plan_rejected"))
            /\ Goto(t, "propose")
            /\ at' = [at EXCEPT ![t].tries = @ + 1, ![t].act = Nothing]
  /\ UNCHANGED <<state, plan, settings, verdict, replies, crashes>>

-----------------------------------------------------------------------------
(* step_implementing_plan                                                  *)

AtStep(t) == pc[t] = "top" /\ state[t] = "Implementing"

\* A wave first looks whether its child's one step is complete.
WaveChildDone(t) ==
  /\ AtStep(t) /\ InWave(t)
  /\ CompletedPlanSteps(journal[t]) # {}
  /\ state' = [state EXCEPT ![t] = "Completed"]
  /\ Leave(t, "ok")
  /\ UNCHANGED <<journal, plan, settings, replies, crashes>>

MayWork(t) == AtStep(t) /\ (InWave(t) => CompletedPlanSteps(journal[t]) = {})

\* A call with no outcome is issued again, whatever it did before the kill.
ReissueCall(t) ==
  /\ MayWork(t)
  /\ LET i == InterruptedToolCall(journal[t]) IN
       /\ i # 0
       /\ Write(t, Entry("tool", None, journal[t][i].act, 0, 0))
       /\ at' = [at EXCEPT ![t].act = journal[t][i].act]
  /\ Goto(t, "exec")
  /\ UNCHANGED <<state, plan, settings, verdict, replies, crashes>>

\* task_has_plan: a revision is stored, accepted or not.
HasPlan(t) == plan[t] # NoPlan

Undisturbed(t) == MayWork(t) /\ HasPlan(t) /\ InterruptedToolCall(journal[t]) = 0

\* The stored plan is validated again, under the mode of the moment.
PlanSpoiled(t) ==
  /\ Undisturbed(t)
  /\ ErrorsOf[plan[t]][settings.manual] # {}
  /\ Write(t, Plain("note"))
  /\ MoveTo(t, "Failed", "off")
  /\ UNCHANGED <<state, plan, settings, verdict, replies, crashes>>

NextStep(t) == NextIncomplete(OrderOf[plan[t]], CompletedPlanSteps(journal[t]))

StepsDone(t) ==
  /\ Undisturbed(t) /\ ErrorsOf[plan[t]][settings.manual] = {}
  /\ NextStep(t) = None
  /\ MoveTo(t, "Verifying", "off")
  /\ UNCHANGED <<journal, state, plan, settings, verdict, replies, crashes>>

\* Faulty variant of RestOfGroup: the group as it was scheduled.
WholeGroup(t) == GroupOf[plan[t]][NextStep(t)]

\* What is left of the group of the next step.
RestOfGroup(t) ==
  Keep(GroupOf[plan[t]][NextStep(t)], StepIds(plan[t]) \ CompletedPlanSteps(journal[t]))

BeginStep(t) ==
  /\ Undisturbed(t) /\ ErrorsOf[plan[t]][settings.manual] = {}
  /\ NextStep(t) # None
  /\ Len(RestOfGroup(t)) = 1
  /\ Goto(t, "begin")
  /\ at' = [at EXCEPT ![t].step = NextStep(t)]
  /\ UNCHANGED <<journal, state, plan, settings, verdict, replies, crashes>>

BeginWave(t) ==
  /\ Undisturbed(t) /\ ErrorsOf[plan[t]][settings.manual] = {}
  /\ NextStep(t) # None
  /\ \E ids \in {RestOfGroup(t)} :
       /\ Len(ids) > 1
       /\ at' = [at EXCEPT ![t].todo = WaveChunks(ids, plan[t], MaxParallel)]
  /\ Goto(t, "wave")
  /\ UNCHANGED <<journal, state, plan, settings, verdict, replies, crashes>>

NeedsCheckpoint(t, s) == StepOf(plan[t], s).checkpoint /\ ~CheckpointTakenFor(journal[t], s)

TakeCheckpoint(t) ==
  /\ pc[t] = "begin" /\ NeedsCheckpoint(t, at[t].step)
  /\ Write(t, About("plan_checkpoint", at[t].step))
  /\ UNCHANGED <<state, plan, settings, pc, at, verdict, replies, crashes>>

StartStep(t) ==
  /\ pc[t] = "begin" /\ ~NeedsCheckpoint(t, at[t].step)
  /\ ~StepStarted(journal[t], at[t].step)
  /\ Write(t, About("plan_step_started", at[t].step))
  /\ UNCHANGED <<state, plan, settings, pc, at, verdict, replies, crashes>>

Begun(t) == /\ pc[t] = "begin"
            /\ ~NeedsCheckpoint(t, at[t].step)
            /\ StepStarted(journal[t], at[t].step)

\* Out of turns: complete without asking further.
ForceComplete(t) ==
  /\ Begun(t)
  /\ ModelTurnsForStep(journal[t], at[t].step) >= MaxTurns
  /\ Write(t, About("plan_step_completed", at[t].step))
  /\ Goto(t, "top")
  /\ at' = [at EXCEPT ![t] = Idle]
  /\ UNCHANGED <<state, plan, settings, verdict, replies, crashes>>

ReplayAction(t) ==
  /\ Begun(t)
  /\ ModelTurnsForStep(journal[t], at[t].step) < MaxTurns
  /\ LET i == UnprocessedStepAction(journal[t], at[t].step) IN
       /\ i # 0
       /\ at' = [at EXCEPT ![t].act = journal[t][i].act]
  /\ Goto(t, "act")
  /\ UNCHANGED <<journal, state, plan, settings, verdict, replies, crashes>>

RequestAction(t) ==
  /\ Begun(t)
  /\ ModelTurnsForStep(journal[t], at[t].step) < MaxTurns
  /\ UnprocessedStepAction(journal[t], at[t].step) = 0
  /\ Write(t, Entry("model_call", at[t].step, Nothing, CountModelCalls(journal[t]), 0))
  /\ Goto(t, "call")
  /\ UNCHANGED <<state, plan, settings, at, verdict, replies, crashes>>

StepAnswered(t) ==
  /\ pc[t] = "call"
  /\ \E a \in Decisions[at[t].step] :
       /\ Write(t, Entry("step_completion", at[t].step, a, CallTurn(t), 0))
       /\ at' = [at EXCEPT ![t].act = a]
  /\ Goto(t, "act")
  /\ UNCHANGED <<state, plan, settings, verdict, replies, crashes>>

\* A call that names no path, or one inside the scope the plan promised.
Promised(p, f) == IF f = NoFile THEN TRUE ELSE InScope(p, f)

NoteScopeExpansion(t) ==
  /\ pc[t] = "act" /\ at[t].act.kind = "tool"
  /\ ~Promised(plan[t], at[t].act.file)
  /\ Write(t, Plain("plan_scope_expansion"))
  /\ Goto(t, "issue")
  /\ UNCHANGED <<state, plan, settings, at, verdict, replies, crashes>>

IssueCall(t) ==
  /\ \/ pc[t] = "issue"
     \/ pc[t] = "choose" /\ at[t].act.kind = "tool"
     \/ pc[t] = "act" /\ at[t].act.kind = "tool" /\ Promised(plan[t], at[t].act.file)
  /\ Write(t, Entry("tool", None, at[t].act, 0, 0))
  /\ Goto(t, "exec")
  /\ UNCHANGED <<state, plan, settings, at, verdict, replies, crashes>>

FinishStep(t) ==
  /\ pc[t] = "act" /\ at[t].act = Finish
  /\ Write(t, About("plan_step_completed", at[t].step))
  /\ Goto(t, "top")
  /\ at' = [at EXCEPT ![t] = Idle]
  /\ UNCHANGED <<state, plan, settings, verdict, replies, crashes>>

AskUser(t) ==
  /\ pc[t] \in {"act", "choose"} /\ at[t].act = Ask
  /\ MoveTo(t, "WaitingForUser", "off")
  /\ UNCHANGED <<journal, state, plan, settings, verdict, replies, crashes>>

-----------------------------------------------------------------------------
(* step_implementing: a turn without a plan.                               *)

\* Faulty variant of RequestTurn: a call with no outcome is not looked for.
RequestTurnAnyway(t) ==
  /\ AtStep(t) /\ ~HasPlan(t)
  /\ Cardinality(Places(journal[t], {"turn_call"})) < MaxCalls
  /\ Write(t, Entry("turn_call", None, Nothing, CountModelCalls(journal[t]), 0))
  /\ Goto(t, "turn")
  /\ UNCHANGED <<state, plan, settings, at, verdict, replies, crashes>>

\* The model is called with the conversation the journal holds.
RequestTurn(t) ==
  /\ AtStep(t) /\ ~HasPlan(t)
  /\ InterruptedToolCall(journal[t]) = 0
  /\ Cardinality(Places(journal[t], {"turn_call"})) < MaxCalls
  /\ Write(t, Entry("turn_call", None, Nothing, CountModelCalls(journal[t]), 0))
  /\ Goto(t, "turn")
  /\ UNCHANGED <<state, plan, settings, at, verdict, replies, crashes>>

TurnAnswered(t) ==
  /\ pc[t] = "turn"
  /\ \E a \in TurnDecisions :
       /\ Write(t, Entry("turn_completion", None, a, CallTurn(t), 0))
       /\ at' = [at EXCEPT ![t].act = a]
  /\ Goto(t, "choose")
  /\ UNCHANGED <<state, plan, settings, verdict, replies, crashes>>

FinishTurns(t) ==
  /\ pc[t] = "choose" /\ at[t].act = Finish
  /\ MoveTo(t, "Verifying", "off")
  /\ UNCHANGED <<journal, state, plan, settings, verdict, replies, crashes>>

-----------------------------------------------------------------------------
(* What a step and a turn share.                                           *)

\* tools.invoke, then observe_tool_result.  Reading needs no permission; the
\* permission engine decides about the rest.
ToolEnds(t) ==
  /\ pc[t] = "exec"
  /\ LET i == LastToolCall(journal[t]) IN
     \/ /\ Write(t, Outcome("tool_result", i))
        /\ Goto(t, "top")
        /\ at' = [at EXCEPT ![t] = Idle]
     \/ /\ at[t].act.file # NoFile
        /\ Write(t, Outcome("permission_ask", i))
        /\ MoveTo(t, "WaitingForPermission", "off")
     \/ /\ at[t].act.file # NoFile
        /\ Write(t, Outcome("tool_denied", i))
        /\ MoveTo(t, "Failed", "off")
  /\ UNCHANGED <<state, plan, settings, verdict, replies, crashes>>

\* Any `?`: a model that cannot be reached, a malformed completion, an
\* unknown tool.  spawn_driver's error arm fails the task; a wave passes the
\* error on.
Fault(t) ==
  /\ pc[t] \in {"plan_call", "call", "turn", "exec"}
  /\ \/ InWave(t) /\ Leave(t, "err") /\ UNCHANGED journal
     \/ /\ ~InWave(t)
        /\ Write(t, Plain("note"))
        /\ MoveTo(t, "Failed", "off")
        /\ UNCHANGED verdict
  /\ UNCHANGED <<state, plan, settings, replies, crashes>>

-----------------------------------------------------------------------------
(* run_parallel_group, run_parallel_step_child                             *)

Unborn == {c \in Children : state[c] = "None"}

\* create_child, save_revision and the moves to Implementing.  The children
\* of a chunk are created while their siblings already run.
SpawnChild(t) ==
  /\ pc[t] = "wave" /\ at[t].todo # <<>>
  /\ Len(at[t].kids) < Len(Head(at[t].todo))
  /\ Unborn # {}
  /\ LET c == FirstOf(Unborn)
         s == Head(at[t].todo)[Len(at[t].kids) + 1]
     IN  /\ Write(t, About("subtask_started", s))
         /\ state' = [state EXCEPT ![c] = "Implementing"]
         /\ plan' = [plan EXCEPT ![c] = SoloPlan(plan[t], s)]
         /\ pc' = [pc EXCEPT ![c] = "top"]
         /\ verdict' = [verdict EXCEPT ![c] = "running"]
         /\ at' = [at EXCEPT ![t].kids = Append(@, c)]
  /\ UNCHANGED <<settings, replies, crashes>>

\* join_all: nothing is folded before every child of the chunk returned.
JoinChunk(t) ==
  /\ pc[t] = "wave" /\ at[t].todo # <<>>
  /\ Len(at[t].kids) = Len(Head(at[t].todo))
  /\ \A c \in ToSet(at[t].kids) : ~InWave(c)
  /\ Goto(t, "fold")
  /\ UNCHANGED <<journal, state, plan, settings, at, verdict, replies, crashes>>

\* The step and the child whose result is folded next.
Folded(t) == Head(Head(at[t].todo))
FoldedKid(t) == Head(at[t].kids)
Folding(t) == pc[t] = "fold" /\ at[t].kids # <<>>

FoldFailure(t) ==
  /\ Folding(t)
  /\ verdict[FoldedKid(t)] \in {"bad", "err"}
  /\ Write(t, Plain("note"))
  /\ MoveTo(t, "Failed", "off")
  /\ UNCHANGED <<state, plan, settings, verdict, replies, crashes>>

\* The checkpoint and the start are journaled after the child has run.
FoldCheckpoint(t) ==
  /\ Folding(t) /\ verdict[FoldedKid(t)] = "ok"
  /\ \/ /\ NeedsCheckpoint(t, Folded(t))
        /\ Write(t, About("plan_checkpoint", Folded(t)))
     \/ /\ ~NeedsCheckpoint(t, Folded(t))
        /\ ~StepStarted(journal[t], Folded(t))
        /\ Write(t, About("plan_step_started", Folded(t)))
  /\ UNCHANGED <<state, plan, settings, pc, at, verdict, replies, crashes>>

FoldComplete(t) ==
  /\ Folding(t) /\ verdict[FoldedKid(t)] = "ok"
  /\ ~NeedsCheckpoint(t, Folded(t))
  /\ StepStarted(journal[t], Folded(t))
  /\ Write(t, About("plan_step_completed", Folded(t)))
  /\ at' = [at EXCEPT ![t].kids = Tail(@), ![t].todo = <<Tail(Head(@))>> \o Tail(@)]
  /\ UNCHANGED <<state, plan, settings, pc, verdict, replies, crashes>>

NextChunk(t) ==
  /\ pc[t] = "fold" /\ at[t].kids = <<>>
  /\ IF Len(at[t].todo) > 1
       THEN Goto(t, "wave") /\ at' = [at EXCEPT ![t].todo = Tail(@)]
       ELSE Goto(t, "top") /\ at' = [at EXCEPT ![t] = Idle]
  /\ UNCHANGED <<journal, state, plan, settings, verdict, replies, crashes>>

-----------------------------------------------------------------------------
(* The user: resolve_permission, respond_to_user, resume_task.             *)

MayReply(t) == pc[t] = "off" /\ t \in Attended /\ replies < MaxReplies

\* The call runs with its authorization and the task goes on with a driver
\* of its own, also where the wave that created it has given it up.
Approve(t) ==
  /\ MayReply(t) /\ state[t] = "WaitingForPermission"
  /\ PendingToolCall(journal[t]) # 0
  /\ Write(t, Outcome("tool_result", PendingToolCall(journal[t])))
  /\ replies' = replies + 1
  /\ MoveTo(t, "Implementing", "top")
  /\ UNCHANGED <<state, plan, settings, verdict, crashes>>

Deny(t) ==
  /\ MayReply(t) /\ state[t] = "WaitingForPermission"
  /\ PendingToolCall(journal[t]) # 0
  /\ Write(t, Outcome("tool_denied", PendingToolCall(journal[t])))
  /\ replies' = replies + 1
  /\ MoveTo(t, "Failed", "off")
  /\ UNCHANGED <<state, plan, settings, verdict, crashes>>

Respond(t) ==
  /\ MayReply(t) /\ state[t] = "WaitingForUser"
  /\ Write(t, Plain("user_response"))
  /\ replies' = replies + 1
  /\ MoveTo(t, "Implementing", "top")
  /\ UNCHANGED <<state, plan, settings, verdict, crashes>>

\* recover_task_if_active: a note, Paused and back, then a new driver.
Resume ==
  /\ pc[Root] = "off"
  /\ state[Root] \in {"Planning", "Implementing"}
  /\ Write(Root, Plain("note"))
  /\ Goto(Root, "top")
  /\ UNCHANGED <<state, plan, settings, at, verdict, replies, crashes>>

\* Every driver and every wave is gone; rows, journals and plans stay.  The
\* process started next may be configured with another permission mode.
Kill ==
  /\ crashes < MaxCrashes
  /\ \E t \in Tasks : pc[t] # "off"
  /\ crashes' = crashes + 1
  /\ pc' = [t \in Tasks |-> "off"]
  /\ at' = [t \in Tasks |-> Idle]
  /\ verdict' = [t \in Tasks |-> "none"]
  /\ settings' \in Settings
  /\ UNCHANGED <<journal, state, plan, replies>>

-----------------------------------------------------------------------------

Init ==
  /\ journal = [t \in Tasks |-> <<>>]
  /\ state = [t \in Tasks |-> IF t = Root THEN "Planning" ELSE "None"]
  /\ plan = [t \in Tasks |-> NoPlan]
  /\ settings \in {x \in Settings : ~x.manual}
  /\ pc = [t \in Tasks |-> IF t = Root THEN "top" ELSE "off"]
  /\ at = [t \in Tasks |-> Idle]
  /\ verdict = [t \in Tasks |-> "none"]
  /\ replies = 0
  /\ crashes = 0

Planning(t) ==
  \/ PassPlanning(t) \/ EnterPlanning(t) \/ LeavePlanning(t) \/ Propose(t) \/ PlanAnswered(t)
  \/ SavePlan(t) \/ AcceptPlan(t) \/ RejectPlan(t)

Working(t) ==
  \/ WaveChildDone(t) \/ ReissueCall(t) \/ PlanSpoiled(t) \/ StepsDone(t)
  \/ BeginStep(t) \/ BeginWave(t) \/ TakeCheckpoint(t) \/ StartStep(t)
  \/ ForceComplete(t) \/ ReplayAction(t) \/ RequestAction(t) \/ StepAnswered(t)
  \/ NoteScopeExpansion(t) \/ IssueCall(t) \/ FinishStep(t) \/ AskUser(t) \/ ToolEnds(t)

Conversing(t) == RequestTurn(t) \/ TurnAnswered(t) \/ FinishTurns(t)

Waving(t) ==
  \/ SpawnChild(t) \/ JoinChunk(t) \/ FoldFailure(t) \/ FoldCheckpoint(t)
  \/ FoldComplete(t) \/ NextChunk(t)

Driver(t) == Move(t) \/ Planning(t) \/ Working(t) \/ Conversing(t) \/ Waving(t) \/ Fault(t)

User == (\E t \in Tasks : Approve(t) \/ Deny(t) \/ Respond(t)) \/ Resume

Next == (\E t \in Tasks : Driver(t)) \/ User \/ Kill

Spec == Init /\ [][Next]_vars

-----------------------------------------------------------------------------
(* Properties.                                                             *)

StepWork == {"model_call", "plan_checkpoint", "plan_step_started", "subtask_started",
             "plan_step_completed"}

\* The work of a plan is done in order, and once: nothing is done for a step,
\* by the task or by a child, before every step it depends on is complete, or
\* once it is complete itself.  Waves, resumes, parallel children and kills
\* between two entries of a wave that is being folded keep this.
WorkInOrder ==
  LET j == journal[Root]
      CompleteBefore(s, i) == \E k \in PlacesFor(j, {"plan_step_completed"}, s) : k < i
  IN  \A i \in Places(j, StepWork) :
        j[i].step # None => /\ \A d \in StepOf(plan[Root], j[i].step).deps : CompleteBefore(d, i)
                            /\ ~CompleteBefore(j[i].step, i)

\* The model is asked for a plan, and for a step, no more often than the
\* budgets allow; a kill costs at most the call it cut off, or for a wave
\* the children it cut off.
BudgetsSurviveKills ==
  /\ PlanRejectionCount(journal[Root]) <= MaxRepairs
  /\ Cardinality(PlacesFor(journal[Root], {"model_call"}, None)) <= MaxRepairs + crashes
  /\ \A s \in StepIds(plan[Root]) :
       Cardinality(UNION {{t} \X PlacesFor(journal[t], {"model_call"}, s) : t \in Tasks})
         <= MaxTurns * (1 + crashes)

\* The first entry after i that shows the decision at i is behind the task.
Superseded(j, i) ==
  FirstOf({k \in Places(j, ModelCall \union {"plan_step_completed"}) : k > i})

Between(j, i, k, kinds) == {m \in Places(j, kinds) : i < m /\ m < k}

\* A kill cut the driver off right after the entry at i.
CutOffAfter(j, i) == i < Len(j) /\ j[i + 1].kind = "note"

\* The ways a kill really makes the code drop a decision within a step: a
\* journaled scope expansion passes for the call it precedes, and a step out
\* of turns is completed without looking for the last decision.
Excused(j, i, k) ==
  /\ Between(j, i, k, {"note"}) # {}
  /\ \/ Between(j, i, k, {"plan_scope_expansion"}) # {}
     \/ Cardinality({m \in PlacesFor(j, {"model_call"}, j[i].step) : m < i}) >= MaxTurns

\* What the model decided is done before anything else is asked of it, and
\* done once unless a kill left its outcome unknown.  Within a step of a plan
\* this holds across kills; a turn without a plan keeps no decision that a
\* kill cuts off before it is acted on.
DecisionsTakeEffect ==
  \A t \in Tasks : LET j == journal[t] IN
    \A i \in Places(j, {"step_completion", "turn_completion"}) :
      LET k == Superseded(j, i)
          calls == {m \in Between(j, i, k, {"tool"}) : j[m].act = j[i].act}
          inStep == j[i].kind = "step_completion"
          lost == IF inStep THEN Excused(j, i, k) ELSE CutOffAfter(j, i)
      IN  k # 0 =>
            /\ j[i].act.kind = "tool" =>
                 /\ calls # {} \/ lost
                 /\ Cardinality(calls) <= 1 + Cardinality(Between(j, i, k, {"note"}))
            /\ j[i].act = Finish =>
                 IF inStep THEN j[k].kind = "plan_step_completed" ELSE lost
            /\ j[i].act = Ask /\ ~inStep =>
                 Between(j, i, k, {"user_response"}) # {} \/ lost

\* The conversation the model is called with at m leaves nothing out: every
\* call issued before it is told with how it ended, or was issued again with
\* no model call in between, and every question is told with its answer.
\* What a kill can really lose is the prompt a call ended in, cut off before
\* the task waits for it, and a question, cut off in the same way.
NothingUntold ==
  LET j == journal[Root] IN
  \A m \in Places(j, {"turn_call"}) :
    LET told == Conversation(SubSeq(j, 1, m)) IN
    /\ \A i \in Places(j, {"tool"}) : i < m =>
         \/ \E x \in DOMAIN told : told[x] = i
         \/ \E k \in Between(j, i, m, {"tool"}) :
              j[k].act = j[i].act /\ Between(j, i, k, {"turn_call"}) = {}
         \/ \E k \in Between(j, i, m, {"permission_ask"}) : j[k].of = i /\ CutOffAfter(j, k)
    /\ \A i \in Questions(j) : i < m =>
         (\E x \in DOMAIN told : told[x] = i) \/ CutOffAfter(j, i)

\* After the user answered a question the model is asked again before the
\* next question: its next call sees the answer.
AnswerReachesModel ==
  \A t \in Tasks : LET j == journal[t] IN
    \A i \in Places(j, {"user_response"}), k \in Places(j, {"user_response"}) :
      i < k => Between(j, i, k, ModelCall) # {}

=============================================================================
