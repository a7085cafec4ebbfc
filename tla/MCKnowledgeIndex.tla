--------------------------- MODULE MCKnowledgeIndex ---------------------------
(* Two pipelines, two files and what they may hold.                         *)
EXTENDS KnowledgeIndex, TLC

CONSTANTS i1, i2, p1, p2, c1, c2

Load(a, b, edits, prunes, retrievals) ==
  [jobs |-> [i \in Indexers |-> IF i = i1 THEN a ELSE b],
   edits |-> edits, prunes |-> prunes, retrievals |-> retrievals]

MCWorkloads ==
  {\* Two pipelines publish over each other.
   Load(<<"resync", "reindex">>, <<"reindex">>, 1, 0, 0),
   \* A staged bootstrap, killed or not, beside changed paths and a sync.
   Load(<<"staged", "resync">>, <<"paths">>, 1, 0, 0),
   \* What is derived from a generation, and a retrieval, beside a prune.
   Load(<<"open">>, <<"resync">>, 1, 1, 1)}

Symmetry == Permutations({p1, p2}) \union Permutations({c1, c2})
=============================================================================
