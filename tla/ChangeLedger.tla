---------------------------- MODULE ChangeLedger ----------------------------
(***************************************************************************)
(* The change ledger (crates/valyria-ledger/src/ledger.rs), the checkpoints*)
(* that mark positions in it (crates/valyria-plan/src/checkpoint.rs) and   *)
(* the file tools that feed it (crates/valyria-tools/src/tools/fs.rs).     *)
(*                                                                         *)
(* The ledger is the memory of one process and nothing fills it again      *)
(* after a restart; the files, the blob store and the checkpoints are on   *)
(* disk and survive.  Content hashes are represented by the contents.      *)
(*                                                                         *)
(* A tool reads its file, writes it and records the change; a rollback     *)
(* reads a file and then restores it.  The user, other tasks and a kill    *)
(* may come between any two of these.                                      *)
(***************************************************************************)
EXTENDS Integers, Sequences, Functions

CONSTANTS
  Paths,
  Contents,
  Absent,        \* the path does not exist
  Unknown,       \* a path without baseline; a file not read yet
  Root,          \* the task whose plan takes the checkpoints
  Children,      \* child tasks that run steps of that plan in parallel
  MaxCalls,      \* bound: file tools called
  MaxCheckpoints,
  MaxRollbacks,  \* bound: rollbacks the user asks for
  MaxUserEdits,
  MaxFailures,   \* bound: records the blob store fails to keep
  MaxCrashes

Tasks == {Root} \union Children
Texts == Contents \union {Absent}

ASSUME LedgerAssumption ==
  /\ Absent \notin Contents
  /\ Unknown \notin Texts
  /\ Root \notin Children
  /\ {MaxCalls, MaxCheckpoints, MaxRollbacks, MaxUserEdits, MaxFailures, MaxCrashes}
       \subseteq Nat

VARIABLES
  disk,         \* contents of every path
  blobs,        \* contents the blob store holds
  baselines,    \* FileBaseline of every path, or Unknown
  entries,      \* entries_for_task of every task
  checkpoints,  \* checkpoints of Root, in the plan store
  call,         \* the file tool every task is running
  rollback,     \* the rollback being carried out
  answer,       \* what the last rollback reported
  older,        \* history: checkpoints taken before the last restart
  given,        \* history, per checkpoint: the tree at the checkpoint with
                \* everything since that is not a recorded change of Root
  own,          \* history: the user's own contents of every path
  last,         \* history: contents the agent last left or found in a path
  loose,        \* history: paths changed between somebody's read and write
  unrecorded,   \* history: paths changed by a call that was never recorded
  again,        \* history: paths set back by others to what Root had made of
                \* them, which no hash can tell from Root's own work
  left          \* history: what is left of every bound

tree == <<disk, blobs>>
ledger == <<baselines, entries>>
history == <<older, given, own, last, loose, unrecorded, again>>
vars == <<disk, blobs, baselines, entries, checkpoints, call, rollback, answer,
          older, given, own, last, loose, unrecorded, again, left>>

Bounds == {"calls", "checkpoints", "rollbacks", "edits", "failures", "crashes"}

Spend(kind) ==
  /\ left[kind] > 0
  /\ left' = [left EXCEPT ![kind] = @ - 1]

NoCall == [stage |-> "idle"]
NoRollback == [cp |-> 0, todo |-> <<>>, seen |-> Unknown, reverted |-> {}, late |-> {}]
RollingBack == rollback.cp # 0

-----------------------------------------------------------------------------
(* The ledger's own operations, on values                                  *)

\* First touch wins: a path that has a baseline keeps it.
RecordBaseline(bs, p, hash) ==
  IF bs[p] = Unknown
    THEN [bs EXCEPT ![p] =
            [start |-> hash, agent |-> "untouched", wrote |-> Absent]]
    ELSE bs

\* agent is "wrote" with the contents written, or with Absent for a deletion.
SetAgentState(bs, p, start, text) ==
  [bs EXCEPT ![p] = [start |-> IF bs[p] = Unknown THEN start ELSE bs[p].start,
                     agent |-> "wrote", wrote |-> text]]

Entry(p, before, after, retained) ==
  [path |-> p, before |-> before, after |-> after, retained |-> retained]

\* What a successful write or deletion pushes: before-contents are kept
\* whenever there were any.
Change(p, before, after) == Entry(p, before, after, before # Absent)

\* A reverting entry keeps no contents.
Reverting(e) == Entry(e.path, e.after, e.before, FALSE)

Classify(p, observed) ==
  LET b == baselines[p] IN
  CASE b = Unknown -> "unknown"
    [] b # Unknown /\ b.agent = "wrote" /\ b.wrote = observed -> "agent_authored"
    [] b # Unknown /\ b.agent = "untouched" /\ b.start = observed -> "pre_existing"
    [] OTHER -> "concurrent_user_modification"

-----------------------------------------------------------------------------
(* What a tool call does to the tree, and what it records                  *)

\* The paths a call changes.
Touches(c) == IF c.stage = "idle" THEN {} ELSE {c.path, c.to}

\* A write replaces the file, a deletion removes it, and a move carries over
\* whatever the file contains by then.
Effect(c) ==
  IF c.to = c.path
    THEN [disk EXCEPT ![c.path] = c.text]
    ELSE [disk EXCEPT ![c.path] = Absent, ![c.to] = disk[c.path]]

\* The entries of a call rest on the contents it read.
Changes(c) ==
  IF c.to = c.path
    THEN <<Change(c.path, c.read, c.text)>>
    ELSE <<Change(c.path, c.read, Absent), Change(c.to, Absent, c.read)>>

StatesAfter(c) ==
  IF c.to = c.path
    THEN SetAgentState(baselines, c.path, c.read, c.text)
    ELSE SetAgentState(SetAgentState(baselines, c.path, c.read, Absent),
                       c.to, Absent, c.read)

-----------------------------------------------------------------------------
(* Histories                                                               *)

\* Everything Root has made of p, with what its call c has not recorded yet.
MadeByRoot(c, p) ==
  {e.after : e \in {f \in Range(entries[Root]) \union
                         (IF c.stage = "written" THEN Range(Changes(c)) ELSE {}) :
                    f.path = p}}

\* The new contents of W are to stay, whatever is rolled back.
Keeps(W) ==
  given' = [k \in DOMAIN given |->
              [p \in Paths |-> IF p \in W THEN disk'[p] ELSE given[k][p]]]

\* W changed to its new contents on disk by others than Root.
Given(W) ==
  /\ Keeps(W)
  /\ again' = again \union {p \in W : disk'[p] \in MadeByRoot(call'[Root], p)}

\* The calls and the rollback that go by contents of p read before.
Readers(p) == {t \in Tasks : call[t].stage = "read" /\ p \in Touches(call[t])}
SeenByRollback(p) ==
  rollback.seen # Unknown /\ entries[Root][Head(rollback.todo)].path = p
Disturbed(p) == {q \in Paths : \/ q = p /\ SeenByRollback(p)
                               \/ \E t \in Readers(p) : q \in Touches(call[t])}
Callers(p) == {t \in Tasks : p \in Touches(call[t])}
Written(p) == \E t \in Callers(p) : call[t].stage = "written"

\* The paths of the calls that one of the paths S belongs to.
Shared(S) == UNION {Touches(call[t]) : t \in UNION {Callers(p) : p \in S}}

-----------------------------------------------------------------------------
(* File tools                                                              *)

\* The root task waits while its children run a wave of steps.
MayCall(t) ==
  \A u \in Tasks : (u = t \/ Root \in {t, u}) => call[u] = NoCall

\* A call whose input names a path records its baseline before the tool is
\* invoked; last keeps what a first touch found, unless a call has yet to
\* record what it left there.
FirstTouch(p) ==
  /\ baselines' = RecordBaseline(baselines, p, disk[p])
  /\ last' = IF baselines[p] = Unknown /\ ~Written(p)
               THEN [last EXCEPT ![p] = disk[p]] ELSE last

\* write_file, edit_file (some text) and delete_file (Absent) up to the write.
\* Writing what is there, and deleting what is not, is refused.
StartCall(t, p, text) ==
  /\ MayCall(t) /\ Spend("calls")
  /\ text # disk[p]
  /\ FirstTouch(p)
  /\ call' = [call EXCEPT ![t] =
       [stage |-> "read", path |-> p, to |-> p, read |-> disk[p], text |-> text]]
  /\ UNCHANGED <<tree, entries, checkpoints, rollback, answer, older, given,
                 own, loose, unrecorded, again>>

\* A call refused by its precondition or strategy leaves its baseline.
RefusedCall(t, p) ==
  /\ MayCall(t) /\ Spend("calls")
  /\ FirstTouch(p)
  /\ UNCHANGED <<tree, entries, checkpoints, call, rollback, answer, older, given,
                 own, loose, unrecorded, again>>

\* move_file names no `path`: no baseline.
StartMove(t, p, to) ==
  /\ MayCall(t) /\ Spend("calls")
  /\ disk[p] # Absent /\ disk[to] = Absent /\ to # p
  /\ call' = [call EXCEPT ![t] =
       [stage |-> "read", path |-> p, to |-> to, read |-> disk[p], text |-> Absent]]
  /\ UNCHANGED <<tree, ledger, checkpoints, rollback, answer, history>>

\* write_atomic, remove_file or rename.
Apply(t) ==
  LET c == call[t] IN
  /\ c.stage = "read"
  /\ c.text = Absent => disk[c.path] # Absent
  /\ disk' = Effect(c)
  /\ call' = [call EXCEPT ![t].stage = "written"]
  /\ last' = [p \in Paths |-> IF p \in Touches(c) THEN disk'[p] ELSE last[p]]
  /\ loose' = IF \E p \in Touches(c) : Callers(p) # {t} \/ SeenByRollback(p)
                THEN loose \union Shared(Touches(c)) ELSE loose
  /\ IF t = Root
       THEN /\ rollback' = IF RollingBack
                             THEN [rollback EXCEPT !.late = @ \union Touches(c)]
                             ELSE rollback
            /\ UNCHANGED <<given, again>>
       ELSE Given(Touches(c)) /\ UNCHANGED rollback
  /\ UNCHANGED <<blobs, ledger, checkpoints, answer, older, own, unrecorded,
                 left>>

\* The file has gone since it was read: the tool fails, nothing is recorded.
ApplyFails(t) ==
  LET c == call[t] IN
  /\ c.stage = "read" /\ c.text = Absent /\ disk[c.path] = Absent
  /\ call' = [call EXCEPT ![t] = NoCall]
  /\ UNCHANGED <<tree, ledger, checkpoints, rollback, answer, history,
                 left>>

\* Faulty variant of KeptContents: only deletions keep what they remove.
KeptContentsOfDeletion(c) == {t \in {c.read} : t # Absent /\ c.text = Absent}

\* Contents a call hands to the blob store.
KeptContents(c) == {c.read} \ {Absent}

\* record_write, record_delete: the contents replaced go to the blob store,
\* then the entry is pushed and the baseline takes the agent's state.
Record(t) ==
  LET c == call[t] IN
  /\ c.stage = "written"
  /\ call' = [call EXCEPT ![t] = NoCall]
  /\ blobs' = blobs \union KeptContents(c)
  /\ entries' = [entries EXCEPT ![t] = @ \o Changes(c)]
  /\ baselines' = StatesAfter(c)
  /\ rollback' = IF RollingBack /\ t = Root
                    THEN [rollback EXCEPT !.late = @ \union Touches(c)] ELSE rollback
  /\ UNCHANGED <<disk, checkpoints, answer, history, left>>

\* The blob store fails: the tool reports a failure, the file stays changed.
RecordFails(t) ==
  LET c == call[t] IN
  /\ c.stage = "written" /\ c.read # Absent /\ Spend("failures")
  /\ call' = [call EXCEPT ![t] = NoCall]
  /\ unrecorded' = unrecorded \union Touches(c)
  /\ UNCHANGED disk
  /\ IF t = Root THEN Given(Touches(c)) ELSE UNCHANGED <<given, again>>
  /\ UNCHANGED <<blobs, ledger, checkpoints, rollback, answer,
                 older, own, last, loose>>

-----------------------------------------------------------------------------
(* Checkpoints                                                             *)

\* The paths the ledger has changes of for the task and its children.
TaskChangedFiles == {e.path : e \in UNION {Range(entries[t]) : t \in Tasks}}

Watermark == Len(entries[Root])

\* Taken by the plan executor between tool calls.
TakeCheckpoint ==
  /\ \A t \in Tasks : call[t] = NoCall
  /\ Spend("checkpoints")
  /\ checkpoints' = Append(checkpoints,
       [files |-> [p \in TaskChangedFiles |-> disk[p]],
        watermark |-> Watermark])
  /\ given' = Append(given, disk)
  /\ UNCHANGED <<tree, ledger, call, rollback, answer, older, own, last, loose,
                 unrecorded, again>>

-----------------------------------------------------------------------------
(* Rollback, asked for by a client whatever the task is doing               *)

\* Faulty variant of Since: the first entry after the watermark is skipped.
SinceShort(w) ==
  LET n == Len(entries[Root])
  IN [i \in 1..(IF w + 1 < n THEN n - w - 1 ELSE 0) |-> n + 1 - i]

\* Positions of the entries after watermark w, newest first.
Since(w) ==
  LET n == Len(entries[Root])
  IN [i \in 1..(IF w < n THEN n - w ELSE 0) |-> n + 1 - i]

StartRollback(k) ==
  /\ ~RollingBack /\ Spend("rollbacks")
  /\ rollback' = [cp |-> k, todo |-> Since(checkpoints[k].watermark), seen |-> Unknown,
                  reverted |-> {},
                  late |-> {p \in Touches(call[Root]) : call[Root].stage = "written"}]
  /\ UNCHANGED <<tree, ledger, checkpoints, call, answer, history>>

Reverted == entries[Root][Head(rollback.todo)]

ReadCurrent ==
  /\ RollingBack /\ rollback.todo # <<>> /\ rollback.seen = Unknown
  /\ rollback' = [rollback EXCEPT !.seen = disk[Reverted.path]]
  /\ UNCHANGED <<tree, ledger, checkpoints, call, answer, history, left>>

\* Faulty variant of CanRevert: the file is not compared with the entry.
CanRevertUnchecked == Reverted.before # Absent => Reverted.retained

\* The file is as the entry left it and what it replaced can be restored.
CanRevert == rollback.seen = Reverted.after
             /\ (Reverted.before # Absent => Reverted.retained)

\* Faulty variant of RestoredState: the baseline keeps what the agent wrote.
RestoredStateForgotten(p, text) == baselines

RestoredState(p, text) ==
  IF baselines[p] = Unknown THEN baselines ELSE SetAgentState(baselines, p, text, text)

\* rollback_entry: restore or remove the file, push a reverting entry, and
\* give the baseline the restored state.
RevertEntry ==
  LET p == Reverted.path IN
  /\ rollback.seen # Unknown /\ CanRevert
  /\ disk' = [disk EXCEPT ![p] = Reverted.before]
  /\ entries' = [entries EXCEPT ![Root] = Append(@, Reverting(Reverted))]
  /\ baselines' = RestoredState(p, Reverted.before)
  /\ rollback' = [rollback EXCEPT !.todo = Tail(@), !.seen = Unknown,
                                     !.reverted = @ \union {p}]
  /\ last' = [last EXCEPT ![p] = Reverted.before]
  /\ loose' = loose \union Shared({p})
  /\ UNCHANGED <<blobs, checkpoints, call, answer, older, given, own, unrecorded,
                 again, left>>

\* UserModified or ContentNotRetained.
RefuseRollback ==
  /\ rollback.seen # Unknown /\ ~CanRevert
  /\ rollback' = NoRollback
  /\ answer' = "refused"
  /\ UNCHANGED <<tree, ledger, checkpoints, call, history, left>>

\* Every checkpointed file is compared with the checkpoint.
FinishRollback ==
  LET files == checkpoints[rollback.cp].files IN
  /\ RollingBack /\ rollback.todo = <<>>
  /\ rollback' = NoRollback
  /\ answer' = IF \A p \in DOMAIN files : disk[p] = files[p]
                 THEN "restored" ELSE "mismatch"
  /\ UNCHANGED <<tree, ledger, checkpoints, call, history, left>>

-----------------------------------------------------------------------------
(* The user, and restarts                                                  *)

UserEdit(p, text) ==
  /\ text # disk[p] /\ Spend("edits")
  /\ disk' = [disk EXCEPT ![p] = text]
  /\ UNCHANGED <<blobs, ledger, checkpoints, call, rollback, answer, older, last, unrecorded>>
  /\ Given({p})
  /\ own' = [own EXCEPT ![p] = IF text \in MadeByRoot(call[Root], p) THEN Absent ELSE text]
  /\ loose' = loose \union Disturbed(p)

\* The process is killed and started again: its ledger is empty, the watermarks
\* of its checkpoints still count the entries it had.
Restart ==
  /\ Spend("crashes")
  /\ baselines' = [p \in Paths |-> Unknown]
  /\ entries' = [t \in Tasks |-> <<>>]
  /\ call' = [t \in Tasks |-> NoCall]
  /\ rollback' = NoRollback
  /\ answer' = "none"
  /\ older' = Len(checkpoints)
  /\ UNCHANGED <<tree, checkpoints, own, last, loose, again>>
  /\ Keeps(IF call[Root].stage = "written" THEN Touches(call[Root]) ELSE {})
  /\ unrecorded' = unrecorded \union
       UNION {Touches(call[t]) : t \in {u \in Tasks : call[u].stage = "written"}}

-----------------------------------------------------------------------------
Init ==
  /\ disk \in [Paths -> Texts]
  /\ blobs = {}
  /\ baselines = [p \in Paths |-> Unknown]
  /\ entries = [t \in Tasks |-> <<>>]
  /\ checkpoints = <<>>
  /\ call = [t \in Tasks |-> NoCall]
  /\ rollback = NoRollback
  /\ answer = "none"
  /\ older = 0
  /\ given = <<>>
  /\ own = disk
  /\ last = disk
  /\ loose = {}
  /\ unrecorded = {}
  /\ again = {}
  /\ left = [calls |-> MaxCalls, checkpoints |-> MaxCheckpoints,
             rollbacks |-> MaxRollbacks, edits |-> MaxUserEdits,
             failures |-> MaxFailures, crashes |-> MaxCrashes]

ToolStep(t) ==
  \/ \E p \in Paths : \/ \E text \in Texts : StartCall(t, p, text)
                      \/ RefusedCall(t, p)
                      \/ \E to \in Paths : StartMove(t, p, to)
  \/ Apply(t)
  \/ ApplyFails(t)
  \/ Record(t)
  \/ RecordFails(t)

RollbackStep ==
  \/ \E k \in DOMAIN checkpoints : StartRollback(k)
  \/ ReadCurrent
  \/ RevertEntry
  \/ RefuseRollback
  \/ FinishRollback

Next ==
  \/ \E t \in Tasks : ToolStep(t)
  \/ TakeCheckpoint
  \/ RollbackStep
  \/ \E p \in Paths, text \in Texts : UserEdit(p, text)
  \/ Restart

Spec == Init /\ [][Next]_vars

-----------------------------------------------------------------------------
(* Properties                                                              *)

Call == {NoCall} \union
  [stage : {"read", "written"}, path : Paths, to : Paths, read : Texts, text : Texts]

Entries == [path : Paths, before : Texts, after : Texts, retained : BOOLEAN]

Baseline == {Unknown} \union
  [start : Texts, agent : {"untouched", "wrote"}, wrote : Texts]

Trees == [Paths -> Texts]

Checkpoints == [files : UNION {[S -> Texts] : S \in SUBSET Paths}, watermark : Nat]

\* Every variable keeps its shape; a watermark is a position in the ledger, and
\* a rollback in progress names an existing checkpoint and existing entries
\* (Checkpoint::ledger_watermark, Ledger::entry).
TypeOK ==
  /\ disk \in Trees /\ blobs \subseteq Contents
  /\ baselines \in [Paths -> Baseline]
  /\ entries \in [Tasks -> Seq(Entries)]
  /\ checkpoints \in Seq(Checkpoints)
  /\ call \in [Tasks -> Call]
  /\ rollback \in [cp : Nat, todo : Seq(Nat), seen : Texts \union {Unknown},
                   reverted : SUBSET Paths, late : SUBSET Paths]
  /\ RollingBack => rollback.cp \in DOMAIN checkpoints
  /\ rollback.seen # Unknown => rollback.todo # <<>>
  /\ \A i \in DOMAIN rollback.todo : rollback.todo[i] \in DOMAIN entries[Root]
  /\ answer \in {"none", "restored", "refused", "mismatch"}
  /\ older \in Nat
  /\ given \in Seq(Trees) /\ Len(given) = Len(checkpoints)
  /\ own \in Trees /\ last \in Trees
  /\ loose \subseteq Paths /\ unrecorded \subseteq Paths /\ again \subseteq Paths
  /\ left \in [Bounds -> Nat]

Ends(outcome) == RollingBack /\ answer' = outcome /\ rollback' = NoRollback
                 /\ UNCHANGED call

\* "Rollback to a checkpoint restores the tree exactly" (checkpoint.rs): one that
\* reports success leaves the tree as if Root had recorded nothing since the
\* checkpoint.  Edits of the user and of other tasks made in between are still
\* there, also those made between two changes of Root to the same file.
RestoresTree ==
  \A p \in Paths \ (loose \union again \union rollback.late) :
    disk[p] = given[rollback.cp][p]

RestoredExactly == [][Ends("restored") => RestoresTree]_vars

\* It does so for the checkpoints of the process that rolls back: the ledger
\* their watermarks count in is the one it still has (rollback).
RestoredInProcess == [][Ends("restored") /\ rollback.cp > older => RestoresTree]_vars

\* "The first such refusal aborts the whole rollback with the offending path and
\* leaves the tree exactly as it was" (checkpoint.rs).
RefusalLeavesTree == [][Ends("refused") => rollback.reverted = {}]_vars

\* A rollback replaces only contents the agent itself left in the file
\* (Ledger::rollback_entry: "never blindly overwrite work that happened
\* after the point it's reverting to").
RevertsOwnWork ==
  [][\A p \in Paths \ (loose \union again) :
       RevertEntry /\ Reverted.path = p => disk[p] = last[p]]_vars

\* What the user last put into a file is in the file, in the blob store or in
\* the hands of the call replacing it, whatever calls, rollbacks and restarts
\* follow (Ledger::record_write keeps before_content).
UserWorkSurvives ==
  \A p \in Paths \ (loose \union unrecorded) :
    own[p] \in blobs \union {Absent, disk[p]} \union
      {call[t].read : t \in {u \in Tasks : p \in Touches(call[u])}}

\* With no call between its write and its record, a file with a baseline is
\* reported as changed by somebody else exactly when its contents are not
\* what the agent last left or found there (Ledger::classify).
ClassifiesTruly ==
  \A p \in Paths \ (loose \union unrecorded) :
    baselines[p] # Unknown /\ ~Written(p) =>
      (Classify(p, disk[p]) = "concurrent_user_modification" <=> disk[p] # last[p])

=============================================================================
