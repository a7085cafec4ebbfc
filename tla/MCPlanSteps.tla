----------------------------- MODULE MCPlanSteps -----------------------------
(* An instance of PlanSteps: four plans over two files in two directories.  *)
EXTENDS PlanSteps

MCFiles == {"a", "b"}
MCDirs  == {"src", "doc"}
MCDirOf == [f \in MCFiles |-> IF f = "a" THEN "src" ELSE "doc"]

Step(id, targets, deps, parallel, checkpoint) ==
  [id |-> id, targets |-> targets, deps |-> deps, parallel |-> parallel,
   checkpoint |-> checkpoint, verified |-> TRUE, boundary |-> checkpoint]

\* One step after the other, inside a scope the model may leave.
Chain == [scope |-> {"src"},
          steps |-> <<Step("s2", {}, {"s1"}, FALSE, FALSE), Step("s1", {"a"}, {}, FALSE, TRUE)>>]

\* Two steps at a time, on different files.
Wave == [scope |-> {},
         steps |-> <<Step("w1", {"a"}, {}, TRUE, TRUE), Step("w2", {"b"}, {}, TRUE, FALSE)>>]

\* Two steps on one file, never at a time.
Clash == [scope |-> {},
          steps |-> <<Step("c1", {"a"}, {}, TRUE, FALSE), Step("c2", {"a"}, {}, TRUE, FALSE)>>]

\* A cycle.
Loop == [scope |-> {},
         steps |-> <<Step("s1", {}, {"s2"}, FALSE, FALSE), Step("s2", {}, {"s1"}, FALSE, FALSE)>>]

\* Every decision occurs, on a path inside and outside the promised scope,
\* in a step that runs alone and in one that runs beside another.
MCDecisions ==
  [s1 |-> {ToolCall("b"), Finish, Ask}, s2 |-> {ToolCall("a"), Finish},
   w1 |-> {ToolCall("b"), Finish},      w2 |-> {Finish, Ask},
   c1 |-> {Finish},                     c2 |-> {ToolCall(NoFile), Finish}]

\* A turn without a plan may read, write, finish or ask.
MCTurnDecisions == {ToolCall(NoFile), ToolCall("a"), Finish, Ask}

MCSubmissions == {Chain, Wave, Clash, Loop}
=============================================================================
