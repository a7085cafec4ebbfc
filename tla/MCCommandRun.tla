----------------------------- MODULE MCCommandRun -----------------------------
(* An instance of CommandRun: commands that fill one pipe or the other, that *)
(* end or hang, and one process forked; bytes beyond the cap.               *)
EXTENDS CommandRun

CONSTANTS sh, bg

Run(todo, hangs, timeout, idle) ==
  [command |-> [todo |-> todo, hangs |-> hangs], limits |-> [timeout |-> timeout, idle |-> idle]]

MCRuns ==
  {Run(<<"stdout", "stdout", "stdout">>, TRUE, 1, Never),
   Run(<<"stdout">>, TRUE, Never, 1),
   Run(<<"stderr", "stderr", "stderr", "stdout">>, FALSE, Never, Never)}
=============================================================================
