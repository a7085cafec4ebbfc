------------------------------- MODULE ToolGate -------------------------------
(***************************************************************************)
(* How a tool call of a task gets its permission.  The driver of a task    *)
(* issues one call after the other; the permission engine lets it run,     *)
(* refuses it or has the user asked; any client may answer, with or        *)
(* without naming the prompt it answers, and two clients may answer at     *)
(* once.  Grants and per-task modes live in the process, prompts and calls *)
(* in the journal.                                                         *)
(***************************************************************************)
EXTENDS Permissions, FiniteSetsExt

CONSTANTS
  Tasks,
  Clients,
  Calls,        \* the requests the model's tool calls come to
  CreateModes,  \* modes a task may be created with, NoMode: none is named
  ProcessModes, \* modes a process may be configured with
  MaxCalls,     \* bound: calls issued in all
  MaxAnswers,   \* bound: answers begun
  MaxCrashes    \* bound: kills

NoMode == "none"
NoCall == [tool |-> "none"]
NoPrompt == [id |-> 0, call |-> NoCall]
NoAnswer == [stage |-> "idle"]

ASSUME ToolGateAssumption ==
  /\ CreateModes \subseteq Modes \union {NoMode}
  /\ ProcessModes \subseteq Modes
  /\ {MaxCalls, MaxAnswers, MaxCrashes} \subseteq Nat

VARIABLES
  mode,      \* PermissionEngine.mode, of this process
  taskMode,  \* PermissionEngine.task_modes
  grants,    \* GrantStore
  state,     \* tasks.state
  driver,    \* "off", "ready", "ran": the call ran, its outcome is not journaled
  issued,    \* the journaled call without an outcome
  prompt,    \* the journaled prompt that is open
  count,     \* calls issued so far, per task
  answer,    \* what each client is doing
  answers,   \* answers begun so far
  crashes,   \* kills so far
  born,      \* history: mode and process a task was created with
  allowed,   \* history: answers "for the rest of the task"
  runs,      \* history: what ran, and why
  raced      \* history: tasks two clients answered at once, or a kill cut off

gateVars == <<mode, taskMode, grants, state, driver, issued, prompt, count, answer, answers,
              crashes, born, allowed, runs, raced>>

history == <<born, allowed, raced>>

Terminal == {"Completed", "Failed"}

\* Faulty variant of EffectiveMode: overrides are not looked up.
EffectiveModeOfProcess(t) == mode

EffectiveMode(t) == IF taskMode[t] = NoMode THEN mode ELSE taskMode[t]

Answering(t) == {c \in Clients : answer[c].stage # "idle" /\ answer[c].task = t}

-----------------------------------------------------------------------------
(* Tasks and their drivers.                                                *)

\* create_and_start_task_with_mode
CreateTask(t) ==
  /\ state[t] = "none"
  /\ \E m \in CreateModes :
       /\ taskMode' = [taskMode EXCEPT ![t] = m]
       /\ born' = [born EXCEPT ![t] = [mode |-> IF m = NoMode THEN mode ELSE m, by |-> crashes]]
  /\ state' = [state EXCEPT ![t] = "Implementing"]
  /\ driver' = [driver EXCEPT ![t] = "ready"]
  /\ UNCHANGED <<mode, grants, issued, prompt, count, answer, answers, crashes, allowed, runs,
                 raced>>

\* create_child: a wave or a role of p works under an id of its own, to
\* which p's mode is not carried over.
CreateChild(p, t) ==
  /\ driver[p] = "ready" /\ state[t] = "none"
  /\ born' = [born EXCEPT ![t] = [mode |-> mode, by |-> crashes]]
  /\ state' = [state EXCEPT ![t] = "Implementing"]
  /\ driver' = [driver EXCEPT ![t] = "ready"]
  /\ UNCHANGED <<mode, taskMode, grants, issued, prompt, count, answer, answers, crashes, allowed,
                 runs, raced>>

IssuedCalls == MapThenSumSet(LAMBDA u : count[u], Tasks)

\* issue_and_execute_tool_call journals the call first.
Issue(t) ==
  /\ driver[t] = "ready" /\ state[t] = "Implementing"
  /\ issued[t] = NoCall /\ IssuedCalls < MaxCalls
  /\ \E call \in Calls : issued' = [issued EXCEPT ![t] = call]
  /\ count' = [count EXCEPT ![t] = @ + 1]
  /\ prompt' = [prompt EXCEPT ![t] = NoPrompt]
  /\ UNCHANGED <<mode, taskMode, grants, state, driver, answer, answers, crashes, runs, history>>

\* ToolRuntime::invoke of a call that is allowed.
RunAllowed(t) ==
  /\ driver[t] = "ready" /\ issued[t] # NoCall
  /\ LET verdict == Evaluate(EffectiveMode(t), grants, t, issued[t])
     IN  /\ issued[t].wellFormed /\ verdict.decision = "allow"
         /\ runs' = Append(runs, [task |-> t, call |-> issued[t], id |-> count[t],
                                  why |-> verdict.why, by |-> crashes, meant |-> count[t]])
  /\ driver' = [driver EXCEPT ![t] = "ran"]
  /\ UNCHANGED <<mode, taskMode, grants, state, issued, prompt, count, answer, answers, crashes,
                 history>>

JournalResult(t) ==
  /\ driver[t] = "ran"
  /\ issued' = [issued EXCEPT ![t] = NoCall]
  /\ driver' = [driver EXCEPT ![t] = "ready"]
  /\ UNCHANGED <<mode, taskMode, grants, state, prompt, count, answer, answers, crashes, runs,
                 history>>

\* A call no preflight can read is denied, and a denied call fails the task.
RunDenied(t) ==
  /\ driver[t] = "ready" /\ issued[t] # NoCall
  /\ \/ ~issued[t].wellFormed
     \/ Evaluate(EffectiveMode(t), grants, t, issued[t]).decision = "deny"
  /\ issued' = [issued EXCEPT ![t] = NoCall]
  /\ state' = [state EXCEPT ![t] = "Failed"]
  /\ UNCHANGED <<mode, taskMode, grants, driver, prompt, count, answer, answers, crashes, runs,
                 history>>

\* PERMISSION_ASK names the call; the driver returns and the task waits.
RunAsks(t) ==
  /\ driver[t] = "ready" /\ issued[t] # NoCall /\ issued[t].wellFormed
  /\ Evaluate(EffectiveMode(t), grants, t, issued[t]).decision = "ask"
  /\ prompt' = [prompt EXCEPT ![t] = [id |-> count[t], call |-> issued[t]]]
  /\ issued' = [issued EXCEPT ![t] = NoCall]
  /\ state' = [state EXCEPT ![t] = "WaitingForPermission"]
  /\ driver' = [driver EXCEPT ![t] = "off"]
  /\ UNCHANGED <<mode, taskMode, grants, count, answer, answers, crashes, runs, history>>

\* The driver finishes the task, or finds it failed: the end of spawn_driver
\* drops the task's mode.
EndDriver(t) ==
  /\ driver[t] = "ready" /\ issued[t] = NoCall
  /\ state' = [state EXCEPT ![t] = IF @ = "Failed" THEN @ ELSE "Completed"]
  /\ driver' = [driver EXCEPT ![t] = "off"]
  /\ taskMode' = [taskMode EXCEPT ![t] = NoMode]
  /\ UNCHANGED <<mode, grants, issued, prompt, count, answer, answers, crashes, runs, history>>

-----------------------------------------------------------------------------
(* Clients: resolve_permission_scoped.                                     *)

\* A client shows the user the prompt it knows of, and sends the answer with
\* or without the prompt's id.
BeginAnswer(c, t) ==
  /\ answer[c] = NoAnswer /\ answers < MaxAnswers
  /\ prompt[t] # NoPrompt /\ state[t] = "WaitingForPermission"
  /\ \E decision \in {"Once", "Task", "Deny"}, named \in BOOLEAN :
       answer' = [answer EXCEPT ![c] = [stage |-> "sent", task |-> t, shown |-> prompt[t].id,
                                        named |-> named, decision |-> decision, of |-> NoPrompt]]
  /\ answers' = answers + 1
  /\ raced' = IF Answering(t) # {} THEN raced \union {t} ELSE raced
  /\ UNCHANGED <<mode, taskMode, grants, state, driver, issued, prompt, count, crashes, born,
                 allowed, runs>>

\* Faulty variant of NamesPrompt: the id is not compared.
NamesAny(c) == TRUE

\* A named prompt must still be the one that is open.
NamesPrompt(c) == answer[c].named => answer[c].shown = prompt[answer[c].task].id

\* NotWaitingForPermission, NoPendingToolCall or ApprovalSuperseded.
RefuseAnswer(c) ==
  /\ answer[c].stage = "sent"
  /\ \/ state[answer[c].task] # "WaitingForPermission"
     \/ prompt[answer[c].task] = NoPrompt
     \/ ~NamesPrompt(c)
  /\ answer' = [answer EXCEPT ![c] = NoAnswer]
  /\ UNCHANGED <<mode, taskMode, grants, state, driver, issued, prompt, count, answers, crashes,
                 runs, history>>

AcceptAnswer(c) ==
  /\ answer[c].stage = "sent"
  /\ state[answer[c].task] = "WaitingForPermission"
  /\ prompt[answer[c].task] # NoPrompt
  /\ NamesPrompt(c)

DenyCall(c) ==
  /\ AcceptAnswer(c) /\ answer[c].decision = "Deny"
  /\ prompt' = [prompt EXCEPT ![answer[c].task] = NoPrompt]
  /\ state' = [state EXCEPT ![answer[c].task] = "Failed"]
  /\ answer' = [answer EXCEPT ![c] = NoAnswer]
  /\ UNCHANGED <<mode, taskMode, grants, driver, issued, count, answers, crashes, runs, history>>

\* What an answer comes to: it is of the prompt found open, then its call ran.
Approval(a, p) == [a EXCEPT !.stage = "approved", !.of = p]
Executed(a) == [a EXCEPT !.stage = "ran"]

\* PermissionEngine::approve remembers the grant and mints the authorization.
ApproveCall(c) ==
  /\ AcceptAnswer(c) /\ answer[c].decision # "Deny"
  /\ LET t == answer[c].task IN
     /\ answer' = [answer EXCEPT ![c] = Approval(answer[c], prompt[t])]
     /\ IF answer[c].decision = "Task"
          THEN /\ grants' = grants \union {GrantTo(t, prompt[t].call)}
               /\ allowed' = allowed \union {[grant |-> GrantTo(t, prompt[t].call), by |-> crashes]}
          ELSE UNCHANGED <<grants, allowed>>
  /\ UNCHANGED <<mode, taskMode, state, driver, issued, prompt, count, answers, crashes, born, runs,
                 raced>>

\* invoke_with_authorization: executes without asking again.
RunApproved(c) ==
  /\ answer[c].stage = "approved"
  /\ runs' = Append(runs, [task |-> answer[c].task, call |-> answer[c].of.call,
                           id |-> answer[c].of.id, why |-> "answer", by |-> crashes,
                           meant |-> IF answer[c].named THEN answer[c].shown ELSE answer[c].of.id])
  /\ answer' = [answer EXCEPT ![c] = Executed(answer[c])]
  /\ UNCHANGED <<mode, taskMode, grants, state, driver, issued, prompt, count, answers, crashes,
                 history>>

\* TOOL_RESULT, the move out of WaitingForPermission and a new driver, unless
\* another answer has moved the task meanwhile.
EndAnswer(c) ==
  /\ answer[c].stage = "ran"
  /\ LET t == answer[c].task IN
     /\ prompt' = [prompt EXCEPT ![t] = IF @ = answer[c].of THEN NoPrompt ELSE @]
     /\ IF state[t] = "WaitingForPermission"
          THEN /\ state' = [state EXCEPT ![t] = "Implementing"]
               /\ driver' = [driver EXCEPT ![t] = "ready"]
          ELSE UNCHANGED <<state, driver>>
  /\ answer' = [answer EXCEPT ![c] = NoAnswer]
  /\ UNCHANGED <<mode, taskMode, grants, issued, count, answers, crashes, runs, history>>

-----------------------------------------------------------------------------

\* The process ends and another one, perhaps configured otherwise, starts.
ProcessEnds ==
  /\ crashes < MaxCrashes
  /\ crashes' = crashes + 1
  /\ mode' \in ProcessModes
  /\ taskMode' = [t \in Tasks |-> NoMode]
  /\ grants' = {}
  /\ driver' = [t \in Tasks |-> "off"]
  /\ raced' = raced \union {t \in Tasks : Answering(t) # {} \/ driver[t] = "ran"}
  /\ answer' = [c \in Clients |-> NoAnswer]
  /\ UNCHANGED <<state, issued, prompt, count, answers, born, allowed, runs>>

\* resume_task: a driver again, which re-issues a call without an outcome.
Resume(t) ==
  /\ driver[t] = "off" /\ state[t] = "Implementing"
  /\ driver' = [driver EXCEPT ![t] = "ready"]
  /\ UNCHANGED <<mode, taskMode, grants, state, issued, prompt, count, answer, answers, crashes,
                 runs, history>>

GateInit ==
  /\ mode \in ProcessModes
  /\ taskMode = [t \in Tasks |-> NoMode]
  /\ grants = {}
  /\ state = [t \in Tasks |-> "none"]
  /\ driver = [t \in Tasks |-> "off"]
  /\ issued = [t \in Tasks |-> NoCall]
  /\ prompt = [t \in Tasks |-> NoPrompt]
  /\ count = [t \in Tasks |-> 0]
  /\ answer = [c \in Clients |-> NoAnswer]
  /\ answers = 0
  /\ crashes = 0
  /\ born = [t \in Tasks |-> [mode |-> NoMode, by |-> 0]]
  /\ allowed = {}
  /\ runs = <<>>
  /\ raced = {}

DriverNext(t) ==
  \/ CreateTask(t) \/ (\E p \in Tasks : CreateChild(p, t)) \/ Issue(t) \/ RunAllowed(t)
  \/ JournalResult(t) \/ RunDenied(t) \/ RunAsks(t) \/ EndDriver(t) \/ Resume(t)

ClientNext(c) ==
  \/ (\E t \in Tasks : BeginAnswer(c, t)) \/ RefuseAnswer(c) \/ DenyCall(c) \/ ApproveCall(c)
  \/ RunApproved(c) \/ EndAnswer(c)

GateNext == (\E t \in Tasks : DriverNext(t)) \/ (\E c \in Clients : ClientNext(c)) \/ ProcessEnds

GateSpec == GateInit /\ [][GateNext]_gateVars

-----------------------------------------------------------------------------
(* Properties.                                                             *)

Ran == {runs[i] : i \in DOMAIN runs}

\* Whatever ran unasked was allowed by the mode the task was created with, or
\* by a grant the user gave this task in this process.  (After a restart the
\* task's own mode is gone and the process's mode is in force.)
UnaskedByRight ==
  \A r \in Ran :
    /\ r.why = "table" /\ born[r.task].by = r.by => DefaultDecision(born[r.task].mode, r.call) = "allow"
    /\ r.why = "grant" => \E a \in allowed : a.by = r.by /\ a.grant = GrantTo(r.task, r.call)

\* An answer that names a prompt runs the call of that prompt and no later
\* one, and a prompt's call runs once unless two clients answered it at the
\* same time or a kill hid that it had run.
AnswersFitPrompts ==
  \A i \in DOMAIN runs :
    /\ runs[i].id = runs[i].meant
    /\ runs[i].task \notin raced =>
         \A k \in DOMAIN runs :
           runs[k].task = runs[i].task /\ runs[k].id = runs[i].id => k = i

=============================================================================
