------------------------------ MODULE Permissions ------------------------------
(***************************************************************************)
(* What the permission engine decides about one call, given the mode in    *)
(* force and the grants it holds.  A call is the request a tool's          *)
(* preflight makes of its input: the tool, the category, the action, the   *)
(* risk classify_command gives a command, and the input it is bound to.    *)
(***************************************************************************)
EXTENDS Naturals, Sequences, FiniteSets

Modes == {"Manual", "Assisted", "Autonomous"}

Request(tool, category, action, risk, input) ==
  [tool |-> tool, category |-> category, action |-> action, risk |-> risk, input |-> input,
   wellFormed |-> TRUE]

\* Input preflight rejects, e.g. a path that is not a string.
Malformed(tool) ==
  [Request(tool, "Filesystem", "Write", "Safe", "malformed") EXCEPT !.wellFormed = FALSE]

AutoAllowable(risk) == risk \in {"Safe", "Controlled"}

\* Every tool declares its target to be in the plan's scope.
FilesystemDecision(mode, req) ==
  IF req.action # "Read" /\ mode = "Manual" THEN "ask" ELSE "allow"

ShellDecision(mode, req) ==
  CASE mode = "Manual"     -> "ask"
    [] mode = "Assisted"   -> IF req.risk = "Safe" THEN "allow" ELSE "ask"
    [] mode = "Autonomous" -> IF AutoAllowable(req.risk) THEN "allow" ELSE "ask"

\* The default decision table.
DefaultDecision(mode, req) ==
  CASE req.category = "GitHistoryModification" -> "deny"
    [] req.category = "Filesystem" -> FilesystemDecision(mode, req)
    [] req.category = "Shell"      -> ShellDecision(mode, req)
    [] OTHER                       -> "ask"

\* A grant covers a kind of call, whatever its input and its risk.
SameKind(a, b) == a.tool = b.tool /\ a.category = b.category /\ a.action = b.action

GrantTo(task, req) ==
  [task |-> task, tool |-> req.tool, category |-> req.category, action |-> req.action]

Covers(grant, task, req) == SameKind(grant, req) /\ grant.task = task

\* PermissionEngine::evaluate: grants first, then the table.
Evaluate(mode, grants, task, req) ==
  IF \E g \in grants : Covers(g, task, req) THEN [decision |-> "allow", why |-> "grant"]
  ELSE [decision |-> DefaultDecision(mode, req), why |-> "table"]

=============================================================================
