----------------------------- MODULE AgentStates -----------------------------
(***************************************************************************)
(* The agent state machine of crates/valyria-types/src/state.rs: the       *)
(* fourteen states and the pure legality test every write of tasks.state   *)
(* goes through.  The test knows nothing of the task's row: that a resume  *)
(* returns to the state the task was paused from is the task manager's     *)
(* half (module TaskLifecycle).                                            *)
(***************************************************************************)

States == {"Idle", "Understanding", "Discovery", "Planning", "Implementing",
           "Verifying", "Diagnosing", "Repairing", "WaitingForPermission",
           "WaitingForUser", "Paused", "Completed", "Failed", "Cancelled"}

Terminal == {"Completed", "Failed", "Cancelled"}

\* Progress edges only; the universal interrupts are added by CanTransitionTo.
DomainEdges(s) ==
  CASE s = "Idle"                 -> {"Understanding"}
    [] s = "Understanding"        -> {"Discovery", "WaitingForUser"}
    [] s = "Discovery"            -> {"Planning", "Understanding", "WaitingForUser"}
    [] s = "Planning"             -> {"Implementing", "WaitingForPermission"}
    [] s = "Implementing"         -> {"Verifying", "WaitingForPermission", "WaitingForUser"}
    [] s = "Verifying"            -> {"Completed", "Diagnosing"}
    [] s = "Diagnosing"           -> {"Repairing", "WaitingForUser", "Failed"}
    [] s = "Repairing"            -> {"Verifying", "WaitingForUser"}
    [] s = "WaitingForPermission" -> {"Implementing", "Planning", "Failed"}
    [] s = "WaitingForUser"       -> {"Understanding", "Implementing", "Diagnosing", "Repairing"}
    [] s = "Paused"               -> States \ (Terminal \union {"Paused"})
    [] OTHER                      -> {}

CanTransitionTo(from, to) ==
  /\ from \notin Terminal
  /\ \/ to \in DomainEdges(from)
     \/ to # from /\ to \in {"Paused", "Cancelled"}
     \/ to = "Failed" /\ from # "Paused"

\* States in which a task may rest with no driver running, by design.
StableWithoutDriver == Terminal \union {"Paused", "WaitingForPermission", "WaitingForUser"}

=============================================================================
