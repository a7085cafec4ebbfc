--------------------------- MODULE MCTaskLifecycle ---------------------------
(***************************************************************************)
(* An instance of TaskLifecycle: the daemon, with every driver and client  *)
(* in one process.                                                         *)
(***************************************************************************)
EXTENDS TaskLifecycle

CONSTANTS d1, c1, c2, p1

OneProcess   == [t \in {d1, c1, c2} |-> p1]
=============================================================================
