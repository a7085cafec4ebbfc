--------------------------- MODULE MCChangeLedger ---------------------------
(***************************************************************************)
(* Instances of ChangeLedger: two files, two contents, a task and two     *)
(* children, whose calls overlap.                                          *)
(***************************************************************************)
EXTENDS ChangeLedger, TLC

CONSTANTS f, g, x, y

\* Files are told apart by nothing but their contents, contents and children
\* by nothing.
Names == Permutations(Paths) \union Permutations(Contents) \union Permutations(Children)
=============================================================================
