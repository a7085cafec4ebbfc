---------------------------- MODULE KnowledgeIndex ----------------------------
(***************************************************************************)
(* The pipelines that keep the index of a workspace, what is derived from  *)
(* a generation of it (the graph, the vectors), and a retrieval that reads *)
(* it for the agent, over a tree the agent and the user keep editing.  A   *)
(* scan reads the files one at a time, every store call is a transaction   *)
(* of its own, and a kill may come between any two.                        *)
(***************************************************************************)
EXTENDS IndexStore, Sequences

CONSTANTS
  Indexers,
  NoFile,
  Workloads  \* bounds: the jobs each pipeline is given, in order, and how many
             \* edits, prunes and retrievals happen beside them

ASSUME NoFileAssumption == NoFile \notin Contents

Full       == [full |-> TRUE, force |-> FALSE, stage |-> "complete"]
Staged     == [full |-> TRUE, force |-> FALSE, stage |-> "files_only"]
Forced     == [full |-> TRUE, force |-> TRUE, stage |-> "complete"]
Incremental == [full |-> FALSE, force |-> FALSE, stage |-> "complete"]

\* open and reindex: bootstrap_unstaged, then what is derived; resync and
\* bootstrap_unstaged alone stop after the publish; staged: bootstrap; paths:
\* apply_paths.
Jobs == {"open", "reindex", "resync", "staged", "paths"}

Entry == [path : Paths, content : Contents]
EmptyScan == [p \in {} |-> NoFile]
Idle == [pc |-> "idle", job |-> "resync", asked |-> {}, unread |-> {}, scan |-> EmptyScan,
         gen |-> 0, files |-> {}, facts |-> {}]
NoRetrieval == [pc |-> "idle", gen |-> 0, path |-> NoFile, bytes |-> NoFile, facts |-> {}]

VARIABLES
  disk,     \* what each path holds
  graphs,   \* graph_build: generation -> the files and facts the graph was built from
  vectors,  \* embed_build: generation -> the files and contents that were embedded
  ix,       \* each pipeline
  prune,    \* prune_before: the generation to keep from, 0 when none is under way
  ret,      \* SearchRetriever::retrieve
  work      \* what is still to come of the workload

vars == <<store, disk, graphs, vectors, ix, prune, ret, work>>

Less(what) == work[what] > 0 /\ work' = [work EXCEPT ![what] = @ - 1]

Goto(i, pc) == ix' = [ix EXCEPT ![i].pc = pc]
Finish(i) == ix' = [ix EXCEPT ![i] = Idle]

\* query_at answers for a published generation only.
Known(g) == g \in Generations

-----------------------------------------------------------------------------
(* The tree.                                                               *)

Edit(p, c) ==
  /\ disk[p] # c
  /\ Less("edits")
  /\ disk' = [disk EXCEPT ![p] = c]
  /\ UNCHANGED <<store, graphs, vectors, ix, prune, ret>>

-----------------------------------------------------------------------------
(* IndexPipeline.                                                          *)

Begin(i, job, asked) ==
  /\ ix[i].pc = "idle" /\ work.jobs[i] # <<>> /\ job = Head(work.jobs[i])
  /\ job # "paths" => asked = Paths
  /\ work' = [work EXCEPT !.jobs[i] = Tail(@)]
  /\ ix' = [ix EXCEPT ![i] = [Idle EXCEPT !.pc = "scan", !.job = job, !.asked = asked, !.unread = asked]]
  /\ UNCHANGED <<store, disk, graphs, vectors, prune, ret>>

\* A path that is gone, or cannot be read, is left out of the scan.
ScanOne(i, p) ==
  /\ ix[i].pc = "scan" /\ p \in ix[i].unread
  /\ \E seen \in {disk[p], NoFile} :
       ix' = [ix EXCEPT ![i].unread = @ \ {p},
                        ![i].scan = IF seen = NoFile THEN @
                                    ELSE [q \in DOMAIN @ \union {p} |-> IF q = p THEN seen ELSE @[q]]]
  /\ UNCHANGED <<store, disk, graphs, vectors, prune, ret, work>>

Removed(i) == IF ix[i].job = "paths" THEN ix[i].asked \ DOMAIN ix[i].scan ELSE {}
Options(i) ==
  CASE ix[i].job = "paths"  -> Incremental
    [] ix[i].job = "staged" -> IF ix[i].pc = "scan" THEN Staged ELSE Forced
    [] OTHER                -> Full

\* write_generation; bootstrap publishes its one scan twice.
PublishScan(i) ==
  /\ ix[i].pc \in {"scan", "complete"} /\ ix[i].unread = {}
  /\ Publish(ix[i].scan, Removed(i), Options(i))
  /\ IF ix[i].job \in {"open", "reindex"}
       THEN ix' = [ix EXCEPT ![i] = [Idle EXCEPT !.pc = "graph_files", !.job = ix[i].job,
                                                 !.gen = Generation(ix[i].scan, Removed(i), Options(i))]]
       ELSE IF ix[i].job = "staged" /\ ix[i].pc = "scan" THEN Goto(i, "complete") ELSE Finish(i)
  /\ UNCHANGED <<disk, graphs, vectors, prune, ret, work>>

-----------------------------------------------------------------------------
(* GraphStore::build_for: the tables of the generation, read call by call. *)

ReadFiles(i) ==
  /\ ix[i].pc \in {"graph_files", "embed_files"}
  /\ IF Known(ix[i].gen)
       THEN ix' = [ix EXCEPT ![i].files = At(fileRows, ix[i].gen),
                             ![i].pc = IF @ = "graph_files" THEN "graph_facts" ELSE "embed_read",
                             ![i].unread = IF ix[i].pc = "embed_files" THEN PathsAt(ix[i].gen) ELSE {}]
       ELSE Finish(i)
  /\ UNCHANGED <<store, disk, graphs, vectors, prune, ret, work>>

ReadFacts(i) ==
  /\ ix[i].pc = "graph_facts"
  /\ IF Known(ix[i].gen)
       THEN ix' = [ix EXCEPT ![i].facts = At(factRows, ix[i].gen), ![i].pc = "graph_write"]
       ELSE Finish(i)
  /\ UNCHANGED <<store, disk, graphs, vectors, prune, ret, work>>

Put(build, g, value) == [h \in DOMAIN build \union {g} |-> IF h = g THEN value ELSE build[h]]

\* A build of a generation replaces the one before it, all or nothing.
WriteGraph(i) ==
  /\ ix[i].pc = "graph_write"
  /\ graphs' = Put(graphs, ix[i].gen, [files |-> ix[i].files, facts |-> ix[i].facts])
  /\ ix' = [ix EXCEPT ![i] = IF ix[i].job = "reindex" THEN Idle
                             ELSE [Idle EXCEPT !.pc = "embed_files", !.job = "open", !.gen = ix[i].gen]]
  /\ UNCHANGED <<store, disk, vectors, prune, ret, work>>

-----------------------------------------------------------------------------
(* EmbedPipeline::bootstrap: the file list is the generation's, the bytes  *)
(* are those on disk by now; a file that cannot be read is skipped.        *)

EmbedOne(i, p) ==
  /\ ix[i].pc = "embed_read" /\ p \in ix[i].unread
  /\ ix' = [ix EXCEPT ![i].unread = @ \ {p},
                      ![i].facts = @ \union {e \in Entry : e.path = p /\ e.content = disk[p]}]
  /\ UNCHANGED <<store, disk, graphs, vectors, prune, ret, work>>

WriteVectors(i) ==
  /\ ix[i].pc = "embed_read" /\ ix[i].unread = {}
  /\ vectors' = Put(vectors, ix[i].gen, ix[i].facts)
  /\ Finish(i)
  /\ UNCHANGED <<store, disk, graphs, prune, ret, work>>

-----------------------------------------------------------------------------
(* prune_before of the index looks at the current generation in one call   *)
(* and deletes in the next; the builds of pruned generations go with them. *)

BeginPrune(keep) ==
  /\ prune = 0 /\ Generations # {} /\ Less("prunes")
  /\ prune' = IF keep < Current THEN keep ELSE Current
  /\ UNCHANGED <<store, disk, graphs, vectors, ix, ret>>

EndPrune ==
  /\ prune # 0
  /\ Prune(prune)
  /\ graphs' = [g \in {g \in DOMAIN graphs : prune <= g} |-> graphs[g]]
  /\ vectors' = [g \in {g \in DOMAIN vectors : prune <= g} |-> vectors[g]]
  /\ prune' = 0
  /\ UNCHANGED <<disk, ix, ret, work>>

-----------------------------------------------------------------------------
(* SearchRetriever::retrieve: a generation, a search that looks up the     *)
(* current one again, and for each hit the file's bytes on disk and its    *)
(* symbols in the first generation.                                        *)

BeginRetrieve ==
  /\ ret.pc \in {"idle", "done"} /\ Generations # {} /\ Less("retrievals")
  /\ ret' = [NoRetrieval EXCEPT !.pc = "search", !.gen = Current]
  /\ UNCHANGED <<store, disk, graphs, vectors, ix, prune>>

\* SearchEngine::search; whatever the modes found, only indexed paths pass.
SearchHit(p) ==
  /\ ret.pc = "search" /\ p \in PathsAt(Current)
  /\ ret' = [ret EXCEPT !.pc = "hit", !.path = p]
  /\ UNCHANGED <<store, disk, graphs, vectors, ix, prune, work>>

ReadBytes ==
  /\ ret.pc = "hit"
  /\ ret' = [ret EXCEPT !.pc = "bytes", !.bytes = disk[ret.path]]
  /\ UNCHANGED <<store, disk, graphs, vectors, ix, prune, work>>

FactsOf(p, g) == {r.content : r \in {x \in At(factRows, g) : x.path = p}}

\* Faulty variant of ReadSymbols: the symbols of the newest generation.
ReadSymbolsNewest ==
  /\ ret.pc = "bytes"
  /\ ret' = [ret EXCEPT !.pc = "done", !.facts = FactsOf(ret.path, Current)]
  /\ UNCHANGED <<store, disk, graphs, vectors, ix, prune, work>>

\* Symbol bodies are the slices of the bytes at the offsets of the facts.
ReadSymbols ==
  /\ ret.pc = "bytes"
  /\ ret' = IF Known(ret.gen)
              THEN [ret EXCEPT !.pc = "done", !.facts = FactsOf(ret.path, ret.gen)]
              ELSE NoRetrieval
  /\ UNCHANGED <<store, disk, graphs, vectors, ix, prune, work>>

-----------------------------------------------------------------------------
\* The process of a pipeline is killed: its scan is lost, the tables are not.
Kill(i) ==
  /\ ix[i].pc # "idle"
  /\ Finish(i)
  /\ UNCHANGED <<store, disk, graphs, vectors, prune, ret, work>>

Init ==
  /\ StoreInit
  /\ disk \in [Paths -> Contents \union {NoFile}]
  /\ graphs = <<>> /\ vectors = <<>>
  /\ ix = [i \in Indexers |-> Idle]
  /\ prune = 0 /\ ret = NoRetrieval
  /\ work \in Workloads

Pipeline(i) ==
  \/ \E job \in Jobs, asked \in SUBSET Paths \ {{}} : Begin(i, job, asked)
  \/ \E p \in Paths : ScanOne(i, p)
  \/ PublishScan(i)
  \/ ReadFiles(i) \/ ReadFacts(i) \/ WriteGraph(i)
  \/ \E p \in Paths : EmbedOne(i, p)
  \/ WriteVectors(i)
  \/ Kill(i)

Retrieve == BeginRetrieve \/ (\E p \in Paths : SearchHit(p)) \/ ReadBytes \/ ReadSymbols

Next ==
  \/ \E p \in Paths, c \in Contents \union {NoFile} : Edit(p, c)
  \/ \E i \in Indexers : Pipeline(i)
  \/ \E keep \in 1..MaxGen : BeginPrune(keep)
  \/ EndPrune
  \/ Retrieve

Spec == Init /\ [][Next]_vars

-----------------------------------------------------------------------------
(* Properties.                                                             *)

\* A generation answers the same for as long as it is known: publishing and
\* pruning leave every snapshot a reader may hold as it was.
SnapshotStable ==
  [][\A g \in Generations \intersect Generations' :
       /\ At(fileRows, g)' = At(fileRows, g)
       /\ At(factRows, g)' = At(factRows, g)]_vars

\* What is built: the graph of a generation is the one of its own tables, however many
\* calls read them and whatever was published, pruned or killed meanwhile.
GraphOfItsGeneration ==
  \A g \in DOMAIN graphs \intersect Generations :
    graphs[g] = [files |-> At(fileRows, g), facts |-> At(factRows, g)]

Scanned(scan) == {[path |-> p, content |-> scan[p]] : p \in DOMAIN scan}

\* Files whose facts an interrupted bootstrap did not come to write.
FilesOnly(g) ==
  {r.path : r \in {x \in fileRows : ValidAt(x, g) /\ (x.from \in Generations => stages[x.from] = "files_only")}}

\* A full sync leaves the index equal to what it scanned, over whatever another
\* pipeline published since: the same files and contents, and the facts of
\* each, except those of files that only the first stage of a bootstrap wrote.
SyncMatchesScan ==
  [][\A i \in Indexers :
       (ix[i].job # "paths" /\ PublishScan(i))
       => /\ At(fileRows, Current)' = Scanned(ix[i].scan)
          /\ At(factRows, Current)' \subseteq Scanned(ix[i].scan)
          /\ \A e \in Scanned(ix[i].scan) \ At(factRows, Current)' : e.path \in FilesOnly(Current)']_vars

\* What is shown: a symbol body a retrieval offers is exact as long as the file on disk is the
\* one of the generation the retrieval began with.
FreshBodiesExact ==
  (ret.pc = "done" /\ [path |-> ret.path, content |-> ret.bytes] \in At(fileRows, ret.gen)
   /\ Known(ret.gen))
  => ret.facts \subseteq {ret.bytes}

\* Reads that take several calls do not mix generations, whatever is published,
\* pruned, edited or killed between them.
ReadsAreExact == GraphOfItsGeneration /\ FreshBodiesExact

=============================================================================
