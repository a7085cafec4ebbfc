----------------------------- MODULE ModelInstall -----------------------------
(***************************************************************************)
(* The directory of a model and those who install it.  Any process of the  *)
(* user may install into it; within one process the map of installs in     *)
(* flight lets in one per model, so an installer stands for a process.     *)
(* Each call of the file system is a step: names and the files they name   *)
(* are told apart, because a file stays open while its name moves on.      *)
(***************************************************************************)
EXTENDS ModelCatalog, Naturals, Sequences, FiniteSets

CONSTANTS
  SelfFetched, \* models whose engine fetches them itself (MLX)
  Installers,  \* processes that may install
  Killable,    \* the ones that may be killed on their own
  Size,        \* chunks of a model's weights
  Lengths      \* chunks a server may say its object has

ASSUME InstallAssumption ==
  /\ SelfFetched \subseteq Models /\ Killable \subseteq Installers
  /\ Size \in Nat \ {0} /\ Lengths \subseteq Nat

NoFile == [there |-> FALSE, content |-> <<>>]
File(chunks) == [there |-> TRUE, content |-> chunks]
Resting == [pc |-> "idle"]

VARIABLES
  dirs,     \* per model: the directory and the files of those names
  inst,     \* what each installer is doing
  installs, \* installs still to come
  contested, \* history: models two operations on files worked on at once
  cut       \* history: models whose last removal broke off half-way

storeVars == <<dirs, inst, installs>>

NoDir == [exists |-> FALSE, part |-> NoFile, weights |-> NoFile, manifest |-> FALSE]

\* ModelStore::is_installed, installed
Installed == {m \in Models : dirs[m].manifest}

Whole(file) == file = File([k \in 1 .. Size |-> "good"])

\* Faulty variant of Verified: a length is compared, no contents.
VerifiedByLength(file) == Len(file.content) = Size

\* The hash of the file is the one of the card.
Verified(file) == Whole(file)

\* A write at a place beyond the end leaves a hole.
WriteAt(chunks, place, chunk) ==
  [k \in 1 .. (IF place > Len(chunks) THEN place ELSE Len(chunks)) |->
     CASE k = place -> chunk
       [] k # place /\ k <= Len(chunks) -> chunks[k]
       [] OTHER -> "hole"]

Working(i) == inst[i] # Resting
Installing(m) == {i \in Installers : Working(i) /\ inst[i].model = m}

Dir(i) == dirs[inst[i].model]
At(i, pc) == inst[i].pc = pc
Proceed(i, pc) == inst' = [inst EXCEPT ![i].pc = pc]
Finish(i) == inst' = [inst EXCEPT ![i] = Resting]

\* The files of m move: who has one open follows it to its new name.
Moved(m, name) ==
  [i \in Installers |->
     IF i \in Installing(m) /\ "open" \in DOMAIN inst[i]
       THEN [inst[i] EXCEPT !.open = name[@]]
       ELSE inst[i]]

PartGone      == [part |-> "gone", weights |-> "weights", gone |-> "gone"]
WeightsGone   == [part |-> "part", weights |-> "gone", gone |-> "gone"]
NothingMoves  == [part |-> "part", weights |-> "weights", gone |-> "gone"]
PartIsWeights == [part |-> "weights", weights |-> "gone", gone |-> "gone"]

-----------------------------------------------------------------------------

\* model_install_with: not installed, not in flight in this process.
BeginInstall(i, m) ==
  /\ ~Working(i) /\ installs > 0 /\ m \notin Installed
  /\ installs' = installs - 1
  /\ inst' = [inst EXCEPT ![i] = [pc |-> "create", model |-> m]]
  /\ UNCHANGED dirs

\* install_with_progress asks again whether the model is installed.
CreateDir(i) ==
  /\ At(i, "create")
  /\ IF Dir(i).manifest THEN Finish(i) /\ UNCHANGED dirs
     ELSE /\ dirs' = [dirs EXCEPT ![inst[i].model].exists = TRUE]
          /\ Proceed(i, "head")
  /\ UNCHANGED installs

\* There is nothing to download: the engine does it when it is probed.
SkipDownload(i) ==
  /\ At(i, "head") /\ inst[i].model \in SelfFetched
  /\ Proceed(i, "probe")
  /\ UNCHANGED <<dirs, installs>>

AskServer(i) ==
  /\ At(i, "head") /\ inst[i].model \notin SelfFetched
  /\ \E len \in Lengths, ranges \in BOOLEAN :
       inst' = [inst EXCEPT ![i] = [pc |-> "stat", model |-> @.model, len |-> len,
                                    ranges |-> ranges]]
  /\ UNCHANGED <<dirs, installs>>

Resumable(i) == inst[i].ranges /\ Len(Dir(i).part.content) <= inst[i].len

ResumeAt(i) == Len(Dir(i).part.content)

\* A part that cannot be taken up is removed.
StatPart(i) ==
  /\ At(i, "stat")
  /\ LET m     == inst[i].model
         found == Dir(i).part # NoFile
         taken == found /\ Resumable(i)
         next  == [pc |-> "open", model |-> m, len |-> inst[i].len,
                   offset |-> IF taken THEN ResumeAt(i) ELSE 0]
     IN  IF found /\ ~taken
           THEN /\ dirs' = [dirs EXCEPT ![m].part = NoFile]
                /\ inst' = [Moved(m, PartGone) EXCEPT ![i] = next]
           ELSE inst' = [inst EXCEPT ![i] = next] /\ UNCHANGED dirs
  /\ UNCHANGED installs

Truncates(i) == inst[i].offset = 0

\* create, and truncate a part that is not taken up.
OpenPart(i) ==
  /\ At(i, "open") /\ Dir(i).exists
  /\ dirs' = IF Dir(i).part = NoFile \/ Truncates(i)
               THEN [dirs EXCEPT ![inst[i].model].part = File(<<>>)] ELSE dirs
  /\ inst' = [inst EXCEPT ![i] = [pc |-> "fetch", model |-> @.model, len |-> @.len,
                                  offset |-> @.offset, open |-> "part"]]
  /\ UNCHANGED installs

Unfinished(i) == At(i, "fetch") /\ inst[i].offset < inst[i].len
Complete(i)   == At(i, "fetch") /\ inst[i].offset >= inst[i].len

\* A chunk arrives, perhaps not the right one, and goes to its place.
Fetch(i) ==
  /\ Unfinished(i)
  /\ \E chunk \in {"good", "corrupt"} :
       dirs' = CASE inst[i].open = "part" ->
                      [dirs EXCEPT ![inst[i].model].part.content =
                                     WriteAt(@, inst[i].offset + 1, chunk)]
                 [] inst[i].open = "weights" ->
                      [dirs EXCEPT ![inst[i].model].weights.content =
                                     WriteAt(@, inst[i].offset + 1, chunk)]
                 [] OTHER -> dirs
  /\ inst' = [inst EXCEPT ![i].offset = @ + 1]
  /\ UNCHANGED installs

\* Cancelled, or the server stops answering: the part is left for later.
StopFetch(i) ==
  /\ At(i, "head") \/ Unfinished(i)
  /\ Finish(i)
  /\ UNCHANGED <<dirs, installs>>

\* The file of that name is hashed, whoever wrote it.
HashPart(i) ==
  /\ Complete(i) /\ Dir(i).part # NoFile
  /\ inst' = [inst EXCEPT ![i] = [model |-> @.model,
                                  pc |-> IF Verified(Dir(i).part) THEN "rename" ELSE "discard"]]
  /\ UNCHANGED <<dirs, installs>>

DiscardPart(i) ==
  /\ At(i, "discard")
  /\ dirs' = [dirs EXCEPT ![inst[i].model].part = NoFile]
  /\ inst' = [Moved(inst[i].model, PartGone) EXCEPT ![i] = Resting]
  /\ UNCHANGED installs

RenamePart(i) ==
  /\ At(i, "rename") /\ Dir(i).part # NoFile
  /\ dirs' = [dirs EXCEPT ![inst[i].model].weights = Dir(i).part, ![inst[i].model].part = NoFile]
  /\ inst' = [Moved(inst[i].model, PartIsWeights) EXCEPT ![i].pc = "probe"]
  /\ UNCHANGED installs

\* A name or the directory is gone when it is needed.
NotFound(i) ==
  /\ \/ At(i, "open") /\ ~Dir(i).exists
     \/ (Complete(i) \/ At(i, "rename")) /\ Dir(i).part = NoFile
     \/ At(i, "manifest") /\ ~Dir(i).exists
  /\ Finish(i)
  /\ UNCHANGED <<dirs, installs>>

\* The probe loads the model (or has no engine to load it with), fails, which
\* leaves the weights without a manifest, or says that the model does not
\* load, as a Prober may though ServerProber does not.
Probe(i) ==
  /\ At(i, "probe")
  /\ Proceed(i, "manifest") \/ Proceed(i, "unload") \/ Finish(i)
  /\ UNCHANGED <<dirs, installs>>

\* remove_dir_all takes away the names of a directory one by one, in whatever
\* order the directory lists them, ...
UnlinkFile(m) ==
  \/ /\ dirs[m].part # NoFile
     /\ dirs' = [dirs EXCEPT ![m].part = NoFile] /\ inst' = Moved(m, PartGone)
  \/ /\ dirs[m].weights # NoFile
     /\ dirs' = [dirs EXCEPT ![m].weights = NoFile] /\ inst' = Moved(m, WeightsGone)
  \/ /\ dirs[m].manifest
     /\ dirs' = [dirs EXCEPT ![m].manifest = FALSE] /\ inst' = Moved(m, NothingMoves)

\* ... and then the directory, if nobody has put anything into it meanwhile.
RemoveDir(m) ==
  /\ dirs[m] = [NoDir EXCEPT !.exists = TRUE]
  /\ dirs' = [dirs EXCEPT ![m] = NoDir]

\* A model that does not load is removed, whoever installed it; ...
Unload(i) ==
  /\ At(i, "unload")
  /\ \/ UnlinkFile(inst[i].model)
     \/ RemoveDir(inst[i].model) /\ Finish(i)
  /\ UNCHANGED installs

\* ... an error on the way is ignored.
UnloadFails(i) ==
  /\ At(i, "unload") /\ Finish(i)
  /\ UNCHANGED <<dirs, installs>>

WriteManifest(i) ==
  /\ At(i, "manifest") /\ Dir(i).exists
  /\ dirs' = [dirs EXCEPT ![inst[i].model].manifest = TRUE]
  /\ Finish(i)
  /\ UNCHANGED installs

\* The files stay as they are.
KillInstaller(i) ==
  /\ i \in Killable /\ Working(i)
  /\ Finish(i)
  /\ UNCHANGED <<dirs, installs>>

InstallStep(i) ==
  \/ CreateDir(i) \/ SkipDownload(i) \/ AskServer(i) \/ StatPart(i) \/ OpenPart(i) \/ Fetch(i)
  \/ StopFetch(i) \/ HashPart(i) \/ DiscardPart(i) \/ RenamePart(i) \/ NotFound(i) \/ Probe(i)
  \/ Unload(i) \/ UnloadFails(i) \/ WriteManifest(i) \/ KillInstaller(i)

=============================================================================
