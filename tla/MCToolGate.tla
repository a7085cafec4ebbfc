------------------------------ MODULE MCToolGate ------------------------------
(* An instance of ToolGate: a read, a write, two commands and a bad call.   *)
EXTENDS ToolGate, TLC

CONSTANTS t1, t2, c1, c2

MCCalls ==
  {Request("read_file", "Filesystem", "Read", "Safe", "a"),
   Request("write_file", "Filesystem", "Write", "Safe", "a"),
   Request("run_command", "Shell", "Execute", "Controlled", "a"),
   Malformed("write_file")}


\* Neither tasks nor clients are told apart.
Symmetry == Permutations({t1, t2}) \union Permutations({c1, c2})
=============================================================================
