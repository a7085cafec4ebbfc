------------------------------ MODULE IndexStore ------------------------------
(***************************************************************************)
(* The tables of the repository index.  A file and the facts extracted     *)
(* from it (symbols, imports, calls, tests) are rows with the generation   *)
(* that wrote them and the one that retired them, so that a reader keeps   *)
(* the snapshot of the generation it began with while later generations    *)
(* are published, each in one transaction.                                 *)
(***************************************************************************)
EXTENDS Integers, FiniteSets

CONSTANTS
  Paths,
  Contents,  \* what a file may hold; facts are a function of the content
  MaxGen     \* bound: generations published

ASSUME MaxGenAssumption == MaxGen \in Nat \ {0}

NotRetired == 0  \* valid_to IS NULL

Rows == [path : Paths, content : Contents, from : 1..MaxGen, to : 0..MaxGen]
Stages == {"files_only", "complete"}

VARIABLES
  fileRows,  \* index_file
  factRows,  \* index_symbol, index_import, index_call, index_test
  stages     \* index_generation: the published generations, each with its stage

store == <<fileRows, factRows, stages>>

Generations == DOMAIN stages
IsCurrent(g) == g \in Generations /\ \A h \in Generations : h <= g
Current == IF Generations = {} THEN 0 ELSE CHOOSE g \in Generations : IsCurrent(g)

Live(rows) == {r \in rows : r.to = NotRetired}
ValidAt(r, g) == r.from <= g /\ (r.to = NotRetired \/ g < r.to)

\* What a query at g answers from a table.
At(rows, g) == {[path |-> r.path, content |-> r.content] : r \in {x \in rows : ValidAt(x, g)}}
PathsAt(g) == {r.path : r \in At(fileRows, g)}

StoreInit == fileRows = {} /\ factRows = {} /\ stages = <<>>

-----------------------------------------------------------------------------
(* apply_generation.  A scan is a partial function from paths to contents. *)

LivePaths == {r.path : r \in Live(fileRows)}
LiveHash(p) == (CHOOSE r \in Live(fileRows) : r.path = p).content

Added(scan) == DOMAIN scan \ LivePaths
Modified(scan, opts) ==
  {p \in DOMAIN scan \intersect LivePaths : opts.force \/ LiveHash(p) # scan[p]}

\* Faulty variant of Gone: what a full scan did not see stays.
GoneNamed(scan, removed, opts) == removed \intersect LivePaths

Gone(scan, removed, opts) ==
  (removed \intersect LivePaths) \union (IF opts.full THEN LivePaths \ DOMAIN scan ELSE {})

Changes(scan, removed, opts) == Added(scan) \union Modified(scan, opts) \union Gone(scan, removed, opts)

\* Publishing nothing is not a generation, the first one excepted.
Generation(scan, removed, opts) ==
  IF Changes(scan, removed, opts) = {} /\ Generations # {} THEN Current ELSE Current + 1

\* Faulty variant of Retired: the path is rewritten in place.
Erased(rows, paths, g) == {r \in rows : r.path \notin paths \/ r.to # NotRetired}

Retired(rows, paths, g) ==
  {IF r.path \in paths /\ r.to = NotRetired THEN [r EXCEPT !.to = g] ELSE r : r \in rows}
NewRows(scan, paths, g) ==
  {[path |-> p, content |-> scan[p], from |-> g, to |-> NotRetired] : p \in paths}

\* The facts are written unless the stage is the one of files only.
Publish(scan, removed, opts) ==
  IF Generation(scan, removed, opts) \in Generations
    THEN UNCHANGED store
    ELSE LET g == Generation(scan, removed, opts)
             retiring == Modified(scan, opts) \union Gone(scan, removed, opts)
             inserted == Added(scan) \union Modified(scan, opts)
         IN /\ g <= MaxGen
            /\ fileRows' = Retired(fileRows, retiring, g) \union NewRows(scan, inserted, g)
            /\ factRows' = Retired(factRows, retiring, g) \union
                             (IF opts.stage = "complete" THEN NewRows(scan, inserted, g) ELSE {})
            /\ stages' = [h \in Generations \union {g} |-> IF h = g THEN opts.stage ELSE stages[h]]

\* prune_before's transaction; keep is the smaller of what was asked for and
\* the current generation when it looked.
Kept(rows, keep) == {r \in rows : r.to = NotRetired \/ keep < r.to}
Prune(keep) ==
  /\ fileRows' = Kept(fileRows, keep)
  /\ factRows' = Kept(factRows, keep)
  /\ stages' = [h \in {h \in Generations : keep <= h} |-> stages[h]]

=============================================================================
