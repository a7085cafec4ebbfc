------------------------- MODULE ChangeLedger_proofs -------------------------
(***************************************************************************)
(* Theorems about ChangeLedger, for any number of files, contents, tasks,  *)
(* calls, checkpoints, edits, rollbacks and restarts: its types; a rollback*)
(* restores only over contents the agent itself left, and when it reports  *)
(* success it has restored everything; what the user put into a file is    *)
(* not lost; and the ledger knows whose contents a file has.               *)
(***************************************************************************)
EXTENDS ChangeLedger, TLAPS

-----------------------------------------------------------------------------
(* Types                                                                   *)

\* A call that is not idle has all its fields.
LEMMA CallTyped ==
  ASSUME NEW c \in Call, c.stage # "idle"
  PROVE  c \in [stage : {"read", "written"}, path : Paths, to : Paths,
                read : Texts, text : Texts]
BY DEF Call, NoCall

LEMMA ChangesTyped ==
  ASSUME NEW c \in Call, c.stage # "idle"
  PROVE  Changes(c) \in Seq(Entries)
<1>1. c \in [stage : {"read", "written"}, path : Paths, to : Paths,
             read : Texts, text : Texts]
  BY CallTyped
<1>2. \A p \in Paths, a, b \in Texts : Change(p, a, b) \in Entries
  BY DEF Change, Entry, Entries
<1>3. Absent \in Texts
  BY DEF Texts
<1>4. QED
  BY <1>1, <1>2, <1>3 DEF Changes

\* Rewriting every element of a sequence keeps its length.
LEMMA Rewritten ==
  ASSUME NEW S, NEW T, NEW s \in Seq(S), NEW t, t = [k \in DOMAIN s |-> t[k]],
         \A k \in DOMAIN s : t[k] \in T
  PROVE  t \in Seq(T) /\ Len(t) = Len(s)
<1>1. DOMAIN s = 1..Len(s) /\ Len(s) \in Nat
  OBVIOUS
<1>2. t \in [1..Len(s) -> T]
  BY <1>1
<1>3. QED
  BY <1>1, <1>2

\* The histories keep a tree for every checkpoint.
LEMMA KeepsTyped ==
  ASSUME TypeOK, NEW W \in SUBSET Paths, disk' \in Trees, Keeps(W)
  PROVE  given' \in Seq(Trees) /\ Len(given') = Len(checkpoints)
<1>1. \A k \in DOMAIN given : given[k] \in Trees
  BY DEF TypeOK
<1>2. given' = [k \in DOMAIN given |-> given'[k]]
  BY DEF Keeps
<1>3. ASSUME NEW k \in DOMAIN given PROVE given'[k] \in Trees
  BY <1>1, <1>3 DEF Keeps, Trees
<1>4. given' \in Seq(Trees) /\ Len(given') = Len(given)
  BY <1>2, <1>3, Rewritten, given \in Seq(Trees) DEF TypeOK
<1>5. QED
  BY <1>4 DEF TypeOK

LEMMA GivenTyped ==
  ASSUME TypeOK, NEW W \in SUBSET Paths, disk' \in Trees, Given(W)
  PROVE  given' \in Seq(Trees) /\ Len(given') = Len(checkpoints) /\ again' \subseteq Paths
<1>1. given' \in Seq(Trees) /\ Len(given') = Len(checkpoints)
  BY KeepsTyped DEF Given
<1>2. QED
  BY <1>1 DEF Given, TypeOK

LEMMA BaselineTyped ==
  ASSUME NEW bs \in [Paths -> Baseline], NEW p \in Paths, NEW h \in Texts, NEW u \in Texts
  PROVE  /\ RecordBaseline(bs, p, h) \in [Paths -> Baseline]
         /\ SetAgentState(bs, p, h, u) \in [Paths -> Baseline]
<1>1. Absent \in Texts
  BY DEF Texts
<1>2. bs[p] # Unknown => bs[p].start \in Texts
  BY DEF Baseline
<1>3. RecordBaseline(bs, p, h) \in [Paths -> Baseline]
  BY <1>1 DEF RecordBaseline, Baseline
<1>4. SetAgentState(bs, p, h, u) \in [Paths -> Baseline]
  BY <1>2 DEF SetAgentState, Baseline
<1>5. QED
  BY <1>3, <1>4

LEMMA SpendTyped ==
  ASSUME left \in [Bounds -> Nat], NEW kind \in Bounds, Spend(kind)
  PROVE  left' \in [Bounds -> Nat]
BY DEF Spend

LEMMA TouchesTyped ==
  ASSUME NEW c \in Call
  PROVE  Touches(c) \subseteq Paths
BY CallTyped DEF Touches

LEMMA SharedTyped ==
  ASSUME TypeOK, NEW S \in SUBSET Paths
  PROVE  Shared(S) \subseteq Paths
BY TouchesTyped DEF Shared, Callers, TypeOK

\* A call shares its own paths.
LEMMA SharesOwn ==
  ASSUME NEW t \in Tasks
  PROVE  Touches(call[t]) \subseteq Shared(Touches(call[t]))
BY DEF Shared, Callers

\* What the rollback is about to revert.
LEMMA RevertedTyped ==
  ASSUME TypeOK, rollback.todo # <<>>
  PROVE  /\ Head(rollback.todo) \in DOMAIN entries[Root]
         /\ Reverted \in Entries
<1>1. Root \in Tasks
  BY DEF Tasks
<1>2. Head(rollback.todo) = rollback.todo[1] /\ 1 \in DOMAIN rollback.todo
  BY DEF TypeOK
<1>3. Head(rollback.todo) \in DOMAIN entries[Root]
  BY <1>2 DEF TypeOK
<1>4. entries[Root] \in Seq(Entries)
  BY <1>1 DEF TypeOK
<1>5. QED
  BY <1>3, <1>4 DEF Reverted

LEMMA ToolTyped ==
  ASSUME TypeOK, NEW t \in Tasks, ToolStep(t)
  PROVE  TypeOK'
<1>0. Absent \in Texts /\ NoCall \in Call /\ Root \in Tasks
  BY DEF Texts, Call, Tasks
<1> USE <1>0
<1>1. ASSUME NEW p \in Paths, NEW text \in Texts, StartCall(t, p, text)
      PROVE TypeOK'
  <2>1. baselines' \in [Paths -> Baseline] /\ last' \in Trees
    BY <1>1, BaselineTyped DEF StartCall, FirstTouch, TypeOK, Trees
  <2>2. call' \in [Tasks -> Call]
    BY <1>1 DEF StartCall, TypeOK, Call, Trees
  <2>3. left' \in [Bounds -> Nat]
    BY <1>1, SpendTyped DEF StartCall, TypeOK, Bounds
  <2>4. QED
    BY <1>1, <2>1, <2>2, <2>3 DEF StartCall, TypeOK, tree, RollingBack
<1>2. ASSUME NEW p \in Paths, RefusedCall(t, p)
      PROVE TypeOK'
  <2>1. baselines' \in [Paths -> Baseline] /\ last' \in Trees
    BY <1>2, BaselineTyped DEF RefusedCall, FirstTouch, TypeOK, Trees
  <2>2. left' \in [Bounds -> Nat]
    BY <1>2, SpendTyped DEF RefusedCall, TypeOK, Bounds
  <2>3. QED
    BY <1>2, <2>1, <2>2 DEF RefusedCall, TypeOK, tree, RollingBack
<1>3. ASSUME NEW p \in Paths, NEW to \in Paths, StartMove(t, p, to)
      PROVE TypeOK'
  <2>1. call' \in [Tasks -> Call]
    BY <1>3 DEF StartMove, TypeOK, Call, Trees
  <2>2. left' \in [Bounds -> Nat]
    BY <1>3, SpendTyped DEF StartMove, TypeOK, Bounds
  <2>3. QED
    BY <1>3, <2>1, <2>2 DEF StartMove, TypeOK, tree, ledger, history, RollingBack
<1>4. ASSUME Apply(t) PROVE TypeOK'
  <2> DEFINE c == call[t]
  <2>1. c \in [stage : {"read", "written"}, path : Paths, to : Paths,
               read : Texts, text : Texts]
    BY <1>4, CallTyped DEF Apply, TypeOK
  <2>2. disk' \in Trees
    BY <1>4, <2>1 DEF Apply, Effect, TypeOK, Trees
  <2>3. call' \in [Tasks -> Call]
    BY <1>4, <2>1 DEF Apply, TypeOK, Call
  <2>4. last' \in Trees
    BY <1>4, <2>2 DEF Apply, TypeOK, Trees
  <2>5. Touches(c) \subseteq Paths
    BY TouchesTyped DEF TypeOK
  <2>6. loose' \subseteq Paths
    BY <1>4, <2>5, SharedTyped DEF Apply, TypeOK
  <2>7. given' \in Seq(Trees) /\ Len(given') = Len(checkpoints) /\ again' \subseteq Paths
    BY <1>4, <2>2, <2>5, GivenTyped DEF Apply, TypeOK
  <2>8. /\ rollback' \in [cp : Nat, todo : Seq(Nat), seen : Texts \union {Unknown},
                         reverted : SUBSET Paths, late : SUBSET Paths]
        /\ rollback'.cp = rollback.cp /\ rollback'.todo = rollback.todo
        /\ rollback'.seen = rollback.seen
    <3>1. rollback' \in {rollback, [rollback EXCEPT !.late = @ \union Touches(c)]}
      BY <1>4 DEF Apply
    <3>2. QED
      BY <3>1, <2>5 DEF TypeOK
  <2>9. QED
    BY <1>4, <2>2, <2>3, <2>4, <2>6, <2>7, <2>8 DEF Apply, TypeOK, ledger, RollingBack
<1>5. ASSUME ApplyFails(t) PROVE TypeOK'
  <2>1. call' \in [Tasks -> Call]
    BY <1>5 DEF ApplyFails, TypeOK
  <2>2. QED
    BY <1>5, <2>1 DEF ApplyFails, TypeOK, tree, ledger, history, RollingBack
<1>6. ASSUME Record(t) PROVE TypeOK'
  <2> DEFINE c == call[t]
  <2>1. c \in [stage : {"read", "written"}, path : Paths, to : Paths,
               read : Texts, text : Texts]
    BY <1>6, CallTyped DEF Record, TypeOK
  <2>2. Changes(c) \in Seq(Entries)
    BY <2>1, <1>6, ChangesTyped DEF Record, TypeOK
  <2>3. call' \in [Tasks -> Call] /\ blobs' \subseteq Contents
    BY <1>6, <2>1 DEF Record, TypeOK, KeptContents, Texts
  <2>4. entries' \in [Tasks -> Seq(Entries)]
    BY <1>6, <2>2 DEF Record, TypeOK
  <2>5. DOMAIN entries[Root] \subseteq DOMAIN entries'[Root]
    <3>1. /\ entries[Root] \in Seq(Entries)
          /\ entries'[Root] = IF t = Root THEN entries[Root] \o Changes(c) ELSE entries[Root]
      BY <1>6 DEF Record, TypeOK
    <3>2. ASSUME NEW a \in Seq(Entries), NEW b \in Seq(Entries)
          PROVE  DOMAIN a \subseteq DOMAIN (a \o b)
      OBVIOUS
    <3>3. QED
      BY <2>2, <3>1, <3>2
  <2>6. baselines' \in [Paths -> Baseline]
    BY <1>6, <2>1, BaselineTyped DEF Record, StatesAfter, TypeOK
  <2>8. Touches(c) \subseteq Paths
    BY TouchesTyped DEF TypeOK
  <2>9. /\ rollback' \in [cp : Nat, todo : Seq(Nat), seen : Texts \union {Unknown},
                         reverted : SUBSET Paths, late : SUBSET Paths]
        /\ rollback'.cp = rollback.cp /\ rollback'.todo = rollback.todo
        /\ rollback'.seen = rollback.seen
    <3>1. rollback' \in {rollback, [rollback EXCEPT !.late = @ \union Touches(c)]}
      BY <1>6 DEF Record
    <3>2. QED
      BY <3>1, <2>8 DEF TypeOK
  <2>10. UNCHANGED <<disk, checkpoints, answer, history, left>>
    BY <1>6 DEF Record
  <2>11. QED
    BY <2>3, <2>4, <2>5, <2>6, <2>9, <2>10 DEF TypeOK, RollingBack, history
<1>7. ASSUME RecordFails(t) PROVE TypeOK'
  <2>1. Touches(call[t]) \subseteq Paths
    BY TouchesTyped DEF TypeOK
  <2>2. given' \in Seq(Trees) /\ Len(given') = Len(checkpoints) /\ again' \subseteq Paths
    BY <1>7, <2>1, GivenTyped DEF RecordFails, TypeOK
  <2>3. call' \in [Tasks -> Call] /\ unrecorded' \subseteq Paths
    BY <1>7, <2>1 DEF RecordFails, TypeOK
  <2>4. left' \in [Bounds -> Nat]
    BY <1>7, SpendTyped DEF RecordFails, TypeOK, Bounds
  <2>5. QED
    BY <1>7, <2>2, <2>3, <2>4 DEF RecordFails, TypeOK, ledger, RollingBack
<1>8. QED
  BY <1>1, <1>2, <1>3, <1>4, <1>5, <1>6, <1>7 DEF ToolStep

LEMMA CheckpointTyped ==
  ASSUME TypeOK, TakeCheckpoint
  PROVE  TypeOK'
<1>1. entries[Root] \in Seq(Entries) /\ Watermark \in Nat
  BY DEF TypeOK, Watermark, Tasks
<1>2. TaskChangedFiles \subseteq Paths
  <2>1. ASSUME NEW t \in Tasks, NEW e \in Range(entries[t]) PROVE e.path \in Paths
    <3>1. entries[t] \in Seq(Entries)
      BY DEF TypeOK
    <3>2. e \in Entries
      BY <2>1, <3>1 DEF Range
    <3>3. QED
      BY <3>2 DEF Entries
  <2>2. QED
    BY <2>1 DEF TaskChangedFiles
<1>3. [p \in TaskChangedFiles |-> disk[p]] \in [TaskChangedFiles -> Texts]
  BY <1>2 DEF TypeOK, Trees
<1>4. /\ checkpoints' \in Seq(Checkpoints) /\ Len(checkpoints') = Len(checkpoints) + 1
      /\ DOMAIN checkpoints \subseteq DOMAIN checkpoints'
  <2> DEFINE cp == [files |-> [p \in TaskChangedFiles |-> disk[p]], watermark |-> Watermark]
  <2>1. cp \in Checkpoints
    BY <1>1, <1>2, <1>3 DEF Checkpoints
  <2>2. checkpoints' = Append(checkpoints, cp)
    BY DEF TakeCheckpoint
  <2> HIDE DEF cp
  <2>3. QED
    BY <2>1, <2>2 DEF TypeOK
<1>5. given' \in Seq(Trees) /\ Len(given') = Len(given) + 1
  BY DEF TakeCheckpoint, TypeOK
<1>6. left' \in [Bounds -> Nat]
  BY SpendTyped DEF TakeCheckpoint, TypeOK, Bounds
<1>7. QED
  BY <1>4, <1>5, <1>6 DEF TakeCheckpoint, TypeOK, tree, ledger, RollingBack

\* The positions a rollback will go through exist.
LEMMA SinceTyped ==
  ASSUME TypeOK, NEW w \in Nat
  PROVE  /\ Since(w) \in Seq(Nat)
         /\ \A i \in DOMAIN Since(w) : Since(w)[i] \in DOMAIN entries[Root]
<1> DEFINE n == Len(entries[Root])
<1>1. entries[Root] \in Seq(Entries) /\ n \in Nat /\ DOMAIN entries[Root] = 1..n
  BY DEF TypeOK, Tasks
<1> DEFINE m == IF w < n THEN n - w ELSE 0
<1>2. m \in Nat /\ m <= n
  BY <1>1
<1>3. Since(w) = [i \in 1..m |-> n + 1 - i]
  BY DEF Since
<1> HIDE DEF m, n
<1>4. \A i \in 1..m : n + 1 - i \in 1..n
  BY <1>1, <1>2
<1>5. Since(w) \in [1..m -> Nat]
  BY <1>3, <1>4
<1>6. QED
  BY <1>1, <1>2, <1>3, <1>4, <1>5

LEMMA RollbackTyped ==
  ASSUME TypeOK, RollbackStep
  PROVE  TypeOK'
<1>0. Root \in Tasks
  BY DEF Tasks
<1>1. ASSUME NEW k \in DOMAIN checkpoints, StartRollback(k) PROVE TypeOK'
  <2>1. k \in Nat /\ checkpoints[k].watermark \in Nat
    <3>1. k \in Nat /\ checkpoints[k] \in Checkpoints
      BY <1>1 DEF TypeOK
    <3>2. QED
      BY <3>1 DEF Checkpoints
  <2>2. Touches(call[Root]) \subseteq Paths
    BY <1>0, TouchesTyped DEF TypeOK
  <2> DEFINE todo == Since(checkpoints[k].watermark)
  <2>3. todo \in Seq(Nat) /\ \A i \in DOMAIN todo : todo[i] \in DOMAIN entries[Root]
    BY <2>1, SinceTyped
  <2> HIDE DEF todo
  <2>4. /\ rollback' \in [cp : Nat, todo : Seq(Nat), seen : Texts \union {Unknown},
                         reverted : SUBSET Paths, late : SUBSET Paths]
        /\ rollback'.cp = k /\ rollback'.todo = todo /\ rollback'.seen = Unknown
    BY <1>1, <2>1, <2>2, <2>3 DEF StartRollback, todo
  <2>5. left' \in [Bounds -> Nat]
    BY <1>1, SpendTyped DEF StartRollback, TypeOK, Bounds
  <2>6. QED
    BY <1>1, <2>3, <2>4, <2>5 DEF StartRollback, TypeOK, tree, ledger, history
<1>2. ASSUME ReadCurrent PROVE TypeOK'
  <2>1. Reverted \in Entries
    BY <1>2, RevertedTyped DEF ReadCurrent
  <2>2. rollback' = [rollback EXCEPT !.seen = disk[Reverted.path]]
        /\ disk[Reverted.path] \in Texts
    BY <1>2, <2>1 DEF ReadCurrent, Entries, TypeOK, Trees
  <2>3. QED
    BY <1>2, <2>2 DEF ReadCurrent, TypeOK, tree, ledger, history, RollingBack
<1>3. ASSUME RevertEntry PROVE TypeOK'
  <2>0. rollback.todo # <<>>
    BY <1>3 DEF RevertEntry, TypeOK
  <2>1. Reverted \in Entries /\ Reverted.path \in Paths /\ Reverted.before \in Texts
        /\ Reverting(Reverted) \in Entries
    BY <2>0, RevertedTyped DEF Entries, Reverting, Entry
  <2>2. disk' \in Trees /\ last' \in Trees
    BY <1>3, <2>1 DEF RevertEntry, TypeOK, Trees
  <2>3. /\ entries' \in [Tasks -> Seq(Entries)]
        /\ DOMAIN entries[Root] \subseteq DOMAIN entries'[Root]
    BY <1>0, <1>3, <2>1 DEF RevertEntry, TypeOK
  <2>4. baselines' \in [Paths -> Baseline]
    BY <1>3, <2>1, BaselineTyped DEF RevertEntry, RestoredState, TypeOK
  <2>5. loose' \subseteq Paths
    BY <1>3, <2>1, SharedTyped DEF RevertEntry, TypeOK
  <2>6. /\ rollback' \in [cp : Nat, todo : Seq(Nat), seen : Texts \union {Unknown},
                         reverted : SUBSET Paths, late : SUBSET Paths]
        /\ rollback'.cp = rollback.cp /\ rollback'.todo = Tail(rollback.todo)
        /\ rollback'.seen = Unknown
    <3>1. rollback' = [rollback EXCEPT !.todo = Tail(@), !.seen = Unknown,
                                       !.reverted = @ \union {Reverted.path}]
      BY <1>3 DEF RevertEntry
    <3>2. rollback.todo \in Seq(Nat) /\ Tail(rollback.todo) \in Seq(Nat)
      BY <2>0 DEF TypeOK
    <3>3. QED
      BY <2>1, <3>1, <3>2 DEF TypeOK
  <2>7. \A i \in DOMAIN rollback'.todo : rollback'.todo[i] \in DOMAIN entries[Root]
    <3>1. ASSUME NEW q \in Seq(Nat), q # <<>>, NEW i \in DOMAIN Tail(q)
          PROVE  \E j \in DOMAIN q : Tail(q)[i] = q[j]
      <4>1. Len(q) \in Nat /\ Len(Tail(q)) = Len(q) - 1 /\ Tail(q) \in Seq(Nat)
        BY <3>1
      <4>2. i \in 1..(Len(q) - 1)
        BY <3>1, <4>1
      <4>3. Tail(q)[i] = q[i + 1] /\ i + 1 \in DOMAIN q
        BY <3>1, <4>1, <4>2
      <4>4. QED
        BY <4>3
    <3>2. ASSUME NEW i \in DOMAIN rollback'.todo
          PROVE  rollback'.todo[i] \in DOMAIN entries[Root]
      <4>1. PICK j \in DOMAIN rollback.todo : Tail(rollback.todo)[i] = rollback.todo[j]
        BY <2>0, <2>6, <3>1, <3>2 DEF TypeOK
      <4>2. QED
        BY <2>6, <4>1 DEF TypeOK
    <3>3. QED
      BY <3>2
  <2> QED
    BY <1>3, <2>2, <2>3, <2>4, <2>5, <2>6, <2>7 DEF RevertEntry, TypeOK, RollingBack
<1>4. ASSUME RefuseRollback PROVE TypeOK'
  BY <1>4 DEF RefuseRollback, TypeOK, NoRollback, tree, ledger, history, RollingBack
<1>5. ASSUME FinishRollback PROVE TypeOK'
  <2>1. answer' \in {"none", "restored", "refused", "mismatch"}
    BY <1>5 DEF FinishRollback
  <2>2. rollback' = NoRollback
        /\ UNCHANGED <<disk, blobs, baselines, entries, checkpoints, call, older, given,
                       own, last, loose, unrecorded, again, left>>
    BY <1>5 DEF FinishRollback, tree, ledger, history
  <2>3. QED
    BY <2>1, <2>2 DEF TypeOK, NoRollback, RollingBack
<1>6. QED
  BY <1>1, <1>2, <1>3, <1>4, <1>5 DEF RollbackStep

\* Every variable keeps its shape: watermarks are positions, a rollback works
\* on existing entries of an existing checkpoint (Ledger::entry).
THEOREM TypeCorrect == Spec => []TypeOK
<1>1. Init => TypeOK
  <2> SUFFICES ASSUME Init PROVE TypeOK
    OBVIOUS
  <2>1. Absent \in Texts /\ NoCall \in Call /\ Unknown \in Baseline
    BY DEF Texts, Call, Baseline
  <2>2. left \in [Bounds -> Nat]
    BY LedgerAssumption DEF Init, Bounds
  <2>3. QED
    BY <2>1, <2>2 DEF Init, TypeOK, Trees, NoRollback, RollingBack
<1>2. TypeOK /\ [Next]_vars => TypeOK'
  <2> SUFFICES ASSUME TypeOK, [Next]_vars PROVE TypeOK'
    OBVIOUS
  <2>1. CASE \E t \in Tasks : ToolStep(t)
    BY <2>1, ToolTyped
  <2>2. CASE TakeCheckpoint
    BY <2>2, CheckpointTyped
  <2>3. CASE RollbackStep
    BY <2>3, RollbackTyped
  <2>4. ASSUME NEW p \in Paths, NEW text \in Texts, UserEdit(p, text) PROVE TypeOK'
    <3>1. disk' \in Trees /\ own' \in Trees
      BY <2>4 DEF UserEdit, TypeOK, Trees, Texts
    <3>2. given' \in Seq(Trees) /\ Len(given') = Len(checkpoints) /\ again' \subseteq Paths
      BY <2>4, <3>1, GivenTyped DEF UserEdit
    <3>4. loose' \subseteq Paths
      <4>2. Disturbed(p) \subseteq Paths
        BY DEF Disturbed
      <4>3. loose' = loose \union Disturbed(p)
        BY <2>4 DEF UserEdit
      <4>4. loose \subseteq Paths
        BY DEF TypeOK
      <4>5. QED
        BY <4>2, <4>3, <4>4
    <3>5. left' \in [Bounds -> Nat]
      BY <2>4, SpendTyped DEF UserEdit, TypeOK, Bounds
    <3>6. UNCHANGED <<blobs, baselines, entries, checkpoints, call, rollback, answer,
                      older, last, unrecorded>>
      BY <2>4 DEF UserEdit, ledger
    <3>7. QED
      BY <3>1, <3>2, <3>4, <3>5, <3>6 DEF TypeOK, RollingBack
  <2>5. CASE Restart
    <3>1. given' \in Seq(Trees) /\ Len(given') = Len(checkpoints)
      <4>1. Touches(call[Root]) \subseteq Paths /\ disk' \in Trees
        BY <2>5, TouchesTyped DEF Restart, tree, TypeOK, Tasks
      <4>2. PICK W \in SUBSET Paths : Keeps(W)
        BY <2>5, <4>1 DEF Restart
      <4>3. QED
        BY <4>1, <4>2, KeepsTyped
    <3>2. unrecorded' \subseteq Paths
      BY <2>5, TouchesTyped DEF Restart, TypeOK
    <3>3. left' \in [Bounds -> Nat]
      BY <2>5, SpendTyped DEF Restart, TypeOK, Bounds
    <3>4. /\ baselines' \in [Paths -> Baseline] /\ entries' \in [Tasks -> Seq(Entries)]
          /\ call' \in [Tasks -> Call] /\ rollback' = NoRollback /\ answer' = "none"
      BY <2>5 DEF Restart, Baseline, Call
    <3>5. UNCHANGED <<disk, blobs, checkpoints, own, last, loose, again>> /\ older' \in Nat
      BY <2>5 DEF Restart, tree, TypeOK
    <3>6. QED
      BY <3>1, <3>2, <3>3, <3>4, <3>5 DEF TypeOK, NoRollback, RollingBack
  <2>6. CASE UNCHANGED vars
    BY <2>6 DEF TypeOK, vars, RollingBack
  <2>7. QED
    BY <2>1, <2>2, <2>3, <2>4, <2>5, <2>6 DEF Next
<1>3. QED
  BY <1>1, <1>2, PTL DEF Spec

-----------------------------------------------------------------------------
(* A rollback restores only over the agent's own contents                  *)

\* A file whose contents are not what the agent last left there does not
\* contain anything Root has made of it either: this is what makes comparing
\* one hash enough.
OwnWork ==
  \A p \in Paths \ (loose \union again) :
    disk[p] \in MadeByRoot(call[Root], p) => disk[p] = last[p]

\* What the rollback read is still there unless somebody changed it in between.
SeenIsCurrent ==
  rollback.seen # Unknown =>
    Reverted.path \in loose \/ disk[Reverted.path] = rollback.seen

Inv == TypeOK /\ OwnWork /\ SeenIsCurrent

\* x is among what the entries q made of p.
MadeIn(q, p, x) == \E i \in DOMAIN q : q[i].path = p /\ q[i].after = x

LEMMA MadeIs ==
  ASSUME NEW c, NEW p, NEW x
  PROVE  x \in MadeByRoot(c, p) <=>
           \/ MadeIn(entries[Root], p, x)
           \/ c.stage = "written" /\ MadeIn(Changes(c), p, x)
BY DEF MadeByRoot, MadeIn, Range

LEMMA MadeInBoth ==
  ASSUME NEW a \in Seq(Entries), NEW b \in Seq(Entries), NEW p, NEW x
  PROVE  MadeIn(a \o b, p, x) <=> MadeIn(a, p, x) \/ MadeIn(b, p, x)
<1>1. /\ DOMAIN a = 1..Len(a) /\ DOMAIN b = 1..Len(b) /\ Len(a) \in Nat /\ Len(b) \in Nat
      /\ DOMAIN (a \o b) = 1..(Len(a) + Len(b))
  OBVIOUS
<1>2. \A i \in DOMAIN a : i \in DOMAIN (a \o b) /\ (a \o b)[i] = a[i]
  BY <1>1
<1>3. \A i \in DOMAIN b : i + Len(a) \in DOMAIN (a \o b) /\ (a \o b)[i + Len(a)] = b[i]
  BY <1>1
<1>4. ASSUME NEW i \in DOMAIN (a \o b)
      PROVE  \/ i \in DOMAIN a /\ (a \o b)[i] = a[i]
             \/ i - Len(a) \in DOMAIN b /\ (a \o b)[i] = b[i - Len(a)]
  BY <1>1
<1>5. ASSUME MadeIn(a \o b, p, x) PROVE MadeIn(a, p, x) \/ MadeIn(b, p, x)
  <2>1. PICK i \in DOMAIN (a \o b) : (a \o b)[i].path = p /\ (a \o b)[i].after = x
    BY <1>5 DEF MadeIn
  <2>2. CASE i \in DOMAIN a /\ (a \o b)[i] = a[i]
    BY <2>1, <2>2 DEF MadeIn
  <2>3. CASE i - Len(a) \in DOMAIN b /\ (a \o b)[i] = b[i - Len(a)]
    BY <2>1, <2>3 DEF MadeIn
  <2>4. QED
    BY <1>4, <2>2, <2>3
<1>6. ASSUME MadeIn(a, p, x) PROVE MadeIn(a \o b, p, x)
  <2>1. PICK i \in DOMAIN a : a[i].path = p /\ a[i].after = x
    BY <1>6 DEF MadeIn
  <2>2. QED
    BY <1>2, <2>1 DEF MadeIn
<1>7. ASSUME MadeIn(b, p, x) PROVE MadeIn(a \o b, p, x)
  <2>1. PICK i \in DOMAIN b : b[i].path = p /\ b[i].after = x
    BY <1>7 DEF MadeIn
  <2>2. QED
    BY <1>3, <2>1 DEF MadeIn
<1>8. QED
  BY <1>5, <1>6, <1>7

\* A call makes something only of the paths it touches.
LEMMA MadeInCall ==
  ASSUME NEW c \in Call, c.stage # "idle", NEW p, NEW x, MadeIn(Changes(c), p, x)
  PROVE  p \in Touches(c)
BY DEF MadeIn, Changes, Change, Entry, Touches

\* How a step keeps OwnWork: a file is what the agent last left there, or it
\* contains nothing Root has made, or it and what Root has made are as before.
LEMMA OwnWorkKept ==
  ASSUME OwnWork, loose \subseteq loose', again \subseteq again',
         \A p \in Paths \ (loose' \union again') :
           \/ disk'[p] = last'[p]
           \/ disk'[p] \notin MadeByRoot(call[Root], p)'
           \/ /\ disk'[p] = disk[p] /\ last'[p] = last[p]
              /\ MadeByRoot(call[Root], p)' \subseteq MadeByRoot(call[Root], p)
  PROVE  OwnWork'
BY DEF OwnWork

\* Nothing new is made when no entry is added and no call has written.
LEMMA NothingMade ==
  ASSUME entries'[Root] = entries[Root],
         call'[Root] = call[Root] \/ call'[Root].stage # "written",
         NEW p \in Paths
  PROVE  MadeByRoot(call[Root], p)' \subseteq MadeByRoot(call[Root], p)
BY DEF MadeByRoot

\* A call that writes makes something only of the paths it touches.
LEMMA ApplyMakes ==
  ASSUME TypeOK, NEW t \in Tasks, Apply(t), NEW p \in Paths \ Touches(call[t])
  PROVE  MadeByRoot(call[Root], p)' \subseteq MadeByRoot(call[Root], p)
<1> DEFINE c == call[t]
<1>1. c \in [stage : {"read", "written"}, path : Paths, to : Paths,
             read : Texts, text : Texts]
  BY CallTyped DEF Apply, TypeOK
<1>2. entries' = entries /\ Root \in Tasks
  BY DEF Apply, ledger, Tasks
<1>3. CASE t # Root
  BY <1>2, <1>3, NothingMade DEF Apply, TypeOK
<1>4. CASE t = Root
  <2>1. call'[Root] = [c EXCEPT !.stage = "written"]
    BY <1>2, <1>4 DEF Apply, TypeOK
  <2>2. call'[Root] \in Call /\ call'[Root].stage # "idle"
        /\ Touches(call'[Root]) = Touches(c)
    BY <1>1, <2>1 DEF Call, Touches
  <2>3. \A x : ~MadeIn(Changes(call'[Root]), p, x)
    BY <2>2, MadeInCall
  <2>4. \A x \in MadeByRoot(call'[Root], p) : x \in MadeByRoot(call[Root], p)
    BY <2>3, MadeIs
  <2>5. MadeByRoot(call[Root], p)' = MadeByRoot(call'[Root], p)
    BY <1>2 DEF MadeByRoot
  <2> QED
    BY <2>4, <2>5
<1> QED
  BY <1>3, <1>4

\* A record enters what its call has made, and no more.
LEMMA RecordMakes ==
  ASSUME TypeOK, NEW t \in Tasks, Record(t), NEW p \in Paths
  PROVE  MadeByRoot(call[Root], p)' \subseteq MadeByRoot(call[Root], p)
<1> DEFINE c == call[t]
<1>1. c \in Call /\ c.stage = "written" /\ Changes(c) \in Seq(Entries)
  BY ChangesTyped DEF Record, TypeOK
<1>2. /\ entries' = [entries EXCEPT ![t] = @ \o Changes(c)]
      /\ call' = [call EXCEPT ![t] = NoCall]
      /\ Root \in Tasks /\ entries[Root] \in Seq(Entries)
  BY DEF Record, Tasks, TypeOK
<1>3. CASE t # Root
  BY <1>2, <1>3, NothingMade DEF TypeOK
<1>4. CASE t = Root
  <2>1. entries'[Root] = entries[Root] \o Changes(c) /\ call'[Root] = NoCall
    BY <1>2, <1>4 DEF TypeOK
  <2>2. ASSUME NEW x \in MadeByRoot(call[Root], p)'
        PROVE  x \in MadeByRoot(call[Root], p)
    <3>1. PICK f \in Range(entries'[Root]) : f.path = p /\ f.after = x
      BY <2>1, <2>2 DEF MadeByRoot, NoCall
    <3>2. MadeIn(entries[Root] \o Changes(c), p, x)
      BY <2>1, <3>1 DEF MadeIn, Range
    <3>3. MadeIn(entries[Root], p, x) \/ MadeIn(Changes(c), p, x)
      BY <3>2, <1>1, <1>2, MadeInBoth
    <3> QED
      BY <3>3, <1>1, <1>4, MadeIs
  <2> QED
    BY <2>2
<1> QED
  BY <1>3, <1>4

\* A reverting entry is about its path alone.
LEMMA RevertMakes ==
  ASSUME TypeOK, RevertEntry, NEW q \in Paths \ {Reverted.path}
  PROVE  MadeByRoot(call[Root], q)' \subseteq MadeByRoot(call[Root], q)
<1>1. entries[Root] \in Seq(Entries) /\ Root \in Tasks
  BY DEF TypeOK, Tasks
<1>2. Reverting(Reverted) \in Entries /\ Reverting(Reverted).path = Reverted.path
  BY RevertedTyped DEF RevertEntry, TypeOK, Entries, Reverting, Entry
<1>3. /\ call' = call
      /\ entries'[Root] = Append(entries[Root], Reverting(Reverted))
  BY <1>1 DEF RevertEntry, TypeOK
<1>4. ASSUME NEW f \in Range(entries'[Root]), f.path = q
      PROVE  f \in Range(entries[Root])
  BY <1>1, <1>2, <1>3, <1>4 DEF Range
<1> QED
  BY <1>3, <1>4 DEF MadeByRoot

LEMMA SeenKept ==
  ASSUME TypeOK, SeenIsCurrent, rollback'.todo = rollback.todo,
         rollback'.seen = rollback.seen,
         loose \subseteq loose',
         \A i \in DOMAIN entries[Root] : entries'[Root][i] = entries[Root][i],
         \A p \in Paths : disk'[p] = disk[p] \/ p \in loose' \/ ~SeenByRollback(p)
  PROVE  SeenIsCurrent'
<1> SUFFICES ASSUME rollback'.seen # Unknown
             PROVE  Reverted'.path \in loose' \/ disk'[Reverted'.path] = rollback'.seen
  BY DEF SeenIsCurrent
<1>1. rollback.todo # <<>>
  BY DEF TypeOK
<1>2. Reverted' = Reverted /\ Reverted.path \in Paths
  BY <1>1, RevertedTyped DEF Reverted, Entries
<1>3. SeenByRollback(Reverted.path)
  BY DEF SeenByRollback, Reverted
<1>4. QED
  BY <1>2, <1>3 DEF SeenIsCurrent

LEMMA ToolKeepsInv ==
  ASSUME Inv, NEW t \in Tasks, ToolStep(t)
  PROVE  OwnWork' /\ SeenIsCurrent'
<1>0. TypeOK /\ OwnWork /\ SeenIsCurrent /\ Root \in Tasks
  BY DEF Inv, Tasks
<1> DEFINE Calm == /\ UNCHANGED <<disk, entries, rollback, loose, again>>
                   /\ call'[Root] = call[Root] \/ call'[Root].stage # "written"
                   /\ \A p \in Paths : last'[p] = last[p] \/ last'[p] = disk[p]
\* A step that changes no file and records nothing.
<1>1. ASSUME Calm PROVE OwnWork' /\ SeenIsCurrent'
  <2>1. \A p \in Paths : MadeByRoot(call[Root], p)' \subseteq MadeByRoot(call[Root], p)
    BY <1>1, NothingMade
  <2>2. OwnWork'
    BY <1>0, <1>1, <2>1, OwnWorkKept
  <2>3. SeenIsCurrent'
    BY <1>0, <1>1, SeenKept
  <2>4. QED
    BY <2>2, <2>3
<1>2. ASSUME NEW p \in Paths, NEW text \in Texts, StartCall(t, p, text) PROVE Calm
  BY <1>0, <1>2 DEF StartCall, FirstTouch, tree, TypeOK, Trees
<1>3. ASSUME NEW p \in Paths, RefusedCall(t, p) PROVE Calm
  BY <1>0, <1>3 DEF RefusedCall, FirstTouch, tree, TypeOK, Trees
<1>4. ASSUME NEW p \in Paths, NEW to \in Paths, StartMove(t, p, to) PROVE Calm
  BY <1>0, <1>4 DEF StartMove, tree, ledger, history, TypeOK, Trees
<1>5. ASSUME ApplyFails(t) PROVE Calm
  BY <1>0, <1>5 DEF ApplyFails, tree, ledger, history, TypeOK, NoCall
<1>6. ASSUME Apply(t) PROVE OwnWork' /\ SeenIsCurrent'
  <2> DEFINE c == call[t]
  <2>1. c \in [stage : {"read", "written"}, path : Paths, to : Paths,
               read : Texts, text : Texts]
    BY <1>0, <1>6, CallTyped DEF Apply, TypeOK
  <2>2. /\ Touches(c) = {c.path, c.to} /\ disk' = Effect(c)
        /\ UNCHANGED <<entries, own>>
        /\ loose \subseteq loose' /\ again \subseteq again'
        /\ rollback'.todo = rollback.todo /\ rollback'.seen = rollback.seen
    BY <1>0, <1>6, <2>1 DEF Apply, Touches, Given, ledger, TypeOK
  <2>3. \A p \in Paths \ Touches(c) : disk'[p] = disk[p] /\ last'[p] = last[p]
    BY <1>0, <1>6, <2>2 DEF Apply, Effect, TypeOK, Trees
  <2>4. \A p \in Touches(c) : p \in Paths /\ last'[p] = disk'[p]
    BY <1>6, <2>1, <2>2 DEF Apply
  <2>5. \A p \in Paths \ Touches(c) :
          MadeByRoot(call[Root], p)' \subseteq MadeByRoot(call[Root], p)
    BY <1>0, <1>6, ApplyMakes
  <2>6. OwnWork'
    BY <1>0, <2>2, <2>3, <2>4, <2>5, OwnWorkKept
  <2>7. \A p \in Touches(c) : SeenByRollback(p) => p \in loose'
    BY <1>6, SharesOwn DEF Apply
  <2>8. SeenIsCurrent'
    BY <1>0, <2>2, <2>3, <2>7, SeenKept
  <2>9. QED
    BY <2>6, <2>8
<1>7. ASSUME Record(t) PROVE OwnWork' /\ SeenIsCurrent'
  <2> DEFINE c == call[t]
  <2>1. c \in Call /\ c.stage = "written" /\ Changes(c) \in Seq(Entries)
    BY <1>0, <1>7, ChangesTyped DEF Record, TypeOK
  <2>2. /\ UNCHANGED <<disk, last, loose, again>>
        /\ entries' = [entries EXCEPT ![t] = @ \o Changes(c)]
        /\ call' = [call EXCEPT ![t] = NoCall]
        /\ rollback'.todo = rollback.todo /\ rollback'.seen = rollback.seen
    BY <1>0, <1>7 DEF Record, history, TypeOK
  <2>3. entries[Root] \in Seq(Entries)
    BY <1>0 DEF TypeOK
  <2>4. \A p \in Paths : MadeByRoot(call[Root], p)' \subseteq MadeByRoot(call[Root], p)
    BY <1>0, <1>7, RecordMakes
  <2>5. OwnWork'
    BY <1>0, <2>2, <2>4, OwnWorkKept
  <2>6. \A i \in DOMAIN entries[Root] : entries'[Root][i] = entries[Root][i]
    <3>1. entries'[Root] \in {entries[Root], entries[Root] \o Changes(c)}
      BY <1>0, <2>2 DEF TypeOK
    <3>2. ASSUME NEW a \in Seq(Entries), NEW b \in Seq(Entries)
          PROVE  \A i \in DOMAIN a : (a \o b)[i] = a[i]
      OBVIOUS
    <3>3. QED
      BY <2>1, <2>3, <3>1, <3>2
  <2>7. SeenIsCurrent'
    BY <1>0, <2>2, <2>6, SeenKept
  <2>8. QED
    BY <2>5, <2>7
<1>8. ASSUME RecordFails(t) PROVE OwnWork' /\ SeenIsCurrent'
  <2>1. /\ UNCHANGED <<disk, entries, rollback, last, loose>> /\ again \subseteq again'
        /\ call'[Root] = call[Root] \/ call'[Root].stage # "written"
    BY <1>0, <1>8 DEF RecordFails, Given, ledger, TypeOK, NoCall
  <2>2. OwnWork'
    BY <1>0, <2>1, NothingMade, OwnWorkKept
  <2>3. SeenIsCurrent'
    BY <1>0, <2>1, SeenKept
  <2>4. QED
    BY <2>2, <2>3
<1> HIDE DEF Calm
<1>9. QED
  BY <1>1, <1>2, <1>3, <1>4, <1>5, <1>6, <1>7, <1>8 DEF ToolStep

LEMMA RollbackKeepsInv ==
  ASSUME Inv, RollbackStep
  PROVE  OwnWork' /\ SeenIsCurrent'
<1>0. TypeOK /\ OwnWork /\ SeenIsCurrent /\ Root \in Tasks
  BY DEF Inv, Tasks
<1> DEFINE Calm == UNCHANGED <<disk, entries, call, last, loose, again>>
<1>1. ASSUME Calm PROVE OwnWork'
  BY <1>0, <1>1, NothingMade, OwnWorkKept
<1>2. ASSUME NEW k \in DOMAIN checkpoints, StartRollback(k) PROVE Calm /\ SeenIsCurrent'
  BY <1>2 DEF StartRollback, tree, ledger, history, SeenIsCurrent
<1>3. ASSUME ReadCurrent PROVE Calm /\ SeenIsCurrent'
  <2>1. Calm /\ rollback' = [rollback EXCEPT !.seen = disk[Reverted.path]]
    BY <1>3 DEF ReadCurrent, tree, ledger, history
  <2>2. rollback'.todo = rollback.todo /\ rollback'.seen = disk[Reverted.path]
    BY <1>0, <2>1 DEF TypeOK
  <2>3. Reverted' = Reverted
    BY <2>1, <2>2 DEF Reverted
  <2>4. QED
    BY <2>1, <2>2, <2>3 DEF SeenIsCurrent
<1>4. ASSUME RevertEntry PROVE OwnWork' /\ SeenIsCurrent'
  <2>0. rollback.todo # <<>>
    BY <1>0, <1>4 DEF RevertEntry, TypeOK
  <2>1. Reverted \in Entries /\ Reverted.path \in Paths
        /\ Reverting(Reverted) \in Entries /\ Reverting(Reverted).path = Reverted.path
    BY <1>0, <2>0, RevertedTyped DEF Entries, Reverting, Entry
  <2> DEFINE p == Reverted.path
  <2>2. /\ \A q \in Paths \ {p} : disk'[q] = disk[q] /\ last'[q] = last[q]
        /\ disk'[p] = last'[p]
        /\ loose \subseteq loose' /\ UNCHANGED <<call, again>>
        /\ rollback'.seen = Unknown
        /\ entries'[Root] = Append(entries[Root], Reverting(Reverted))
    BY <1>0, <1>4, <2>1 DEF RevertEntry, TypeOK, Trees
  <2>3. \A q \in Paths \ {p} :
          MadeByRoot(call[Root], q)' \subseteq MadeByRoot(call[Root], q)
    BY <1>0, <1>4, RevertMakes
  <2>4. OwnWork'
    BY <1>0, <2>2, <2>3, OwnWorkKept
  <2>5. QED
    BY <2>2, <2>4 DEF SeenIsCurrent
<1>5. ASSUME RefuseRollback PROVE Calm /\ SeenIsCurrent'
  BY <1>5 DEF RefuseRollback, tree, ledger, history, NoRollback, SeenIsCurrent
<1>6. ASSUME FinishRollback PROVE Calm /\ SeenIsCurrent'
  BY <1>6 DEF FinishRollback, tree, ledger, history, NoRollback, SeenIsCurrent
<1> HIDE DEF Calm
<1>7. QED
  BY <1>1, <1>2, <1>3, <1>4, <1>5, <1>6 DEF RollbackStep

LEMMA InvHolds == Spec => []Inv
<1>1. Init => OwnWork /\ SeenIsCurrent
  BY DEF Init, OwnWork, SeenIsCurrent, NoRollback
<1>2. TypeOK /\ TypeOK' /\ OwnWork /\ SeenIsCurrent /\ [Next]_vars
        => OwnWork' /\ SeenIsCurrent'
  <2> SUFFICES ASSUME TypeOK, OwnWork, SeenIsCurrent, [Next]_vars
               PROVE  OwnWork' /\ SeenIsCurrent'
    OBVIOUS
  <2>0. Inv /\ Root \in Tasks
    BY DEF Inv, Tasks
  <2>1. CASE \E t \in Tasks : ToolStep(t)
    BY <2>0, <2>1, ToolKeepsInv
  <2>2. CASE RollbackStep
    BY <2>0, <2>2, RollbackKeepsInv
  <2>3. CASE TakeCheckpoint
    <3>1. UNCHANGED <<disk, entries, call, rollback, last, loose, again>>
      BY <2>3 DEF TakeCheckpoint, tree, ledger
    <3>2. OwnWork'
      BY <3>1, NothingMade, OwnWorkKept
    <3>3. QED
      BY <3>1, <3>2, SeenKept
  <2>4. ASSUME NEW p \in Paths, NEW text \in Texts, UserEdit(p, text)
        PROVE  OwnWork' /\ SeenIsCurrent'
    <3>1. /\ \A q \in Paths \ {p} : disk'[q] = disk[q]
          /\ UNCHANGED <<entries, call, rollback, last>>
          /\ loose' = loose \union Disturbed(p)
          /\ again' = again \union {q \in {p} : disk'[q] \in MadeByRoot(call'[Root], q)}
      BY <2>4 DEF UserEdit, ledger, Given, TypeOK, Trees
    <3>2. MadeByRoot(call[Root], p)' = MadeByRoot(call'[Root], p)
      BY <3>1 DEF MadeByRoot
    <3>3. p \notin again' => disk'[p] \notin MadeByRoot(call[Root], p)'
      BY <3>1, <3>2
    <3>4. OwnWork'
      BY <3>1, <3>3, NothingMade, OwnWorkKept
    <3>5. SeenByRollback(p) => p \in loose'
      BY <3>1 DEF Disturbed
    <3>6. SeenIsCurrent'
      BY <3>1, <3>5, SeenKept
    <3>7. QED
      BY <3>4, <3>6
  <2>5. CASE Restart
    <3>1. /\ UNCHANGED <<disk, last, loose, again>> /\ rollback' = NoRollback
          /\ entries'[Root] = <<>> /\ call'[Root] = NoCall
      BY <2>0, <2>5 DEF Restart, tree
    <3>2. \A p \in Paths : MadeByRoot(call[Root], p)' = {}
      BY <3>1 DEF MadeByRoot, Range, NoCall
    <3>3. OwnWork'
      BY <3>2 DEF OwnWork
    <3>4. QED
      BY <3>1, <3>3 DEF SeenIsCurrent, NoRollback
  <2>6. CASE UNCHANGED vars
    <3>1. UNCHANGED <<disk, entries, call, rollback, last, loose, again>>
      BY <2>6 DEF vars
    <3>2. OwnWork'
      BY <3>1, NothingMade, OwnWorkKept
    <3>3. QED
      BY <3>1, <3>2, SeenKept
  <2>7. QED
    BY <2>1, <2>2, <2>3, <2>4, <2>5, <2>6 DEF Next
<1>3. QED
  BY <1>1, <1>2, TypeCorrect, PTL DEF Spec, Inv

\* Whatever the user, other tasks, failures and kills do in between, a rollback
\* puts contents back only in place of those the agent itself last left in the
\* file; excepted are files changed between the rollback's read and its write
\* or between another's, and files set back to what the task had made of them
\* (Ledger::rollback_entry).
THEOREM RollbackSparesOthers == Spec => RevertsOwnWork
<1>1. Inv /\ [Next]_vars =>
        [\A p \in Paths \ (loose \union again) :
           RevertEntry /\ Reverted.path = p => disk[p] = last[p]]_vars
  <2> SUFFICES ASSUME Inv, NEW p \in Paths \ (loose \union again), RevertEntry,
                      Reverted.path = p
               PROVE  disk[p] = last[p]
    OBVIOUS
  <2>1. rollback.todo # <<>> /\ rollback.seen # Unknown
    BY DEF Inv, TypeOK, RevertEntry
  <2>2. disk[p] = Reverted.after
    BY <2>1 DEF Inv, SeenIsCurrent, RevertEntry, CanRevert
  <2>3. MadeIn(entries[Root], p, disk[p])
    BY <2>1, <2>2, RevertedTyped DEF Inv, MadeIn, Reverted
  <2>4. disk[p] \in MadeByRoot(call[Root], p)
    BY <2>3, MadeIs
  <2>5. QED
    BY <2>4 DEF Inv, OwnWork
<1>2. QED
  BY <1>1, InvHolds, PTL DEF Spec, RevertsOwnWork

-----------------------------------------------------------------------------
(* What the user put into a file is not lost                               *)

\* What a call read is there until it writes, or its paths are loose.
ReadIsCurrent ==
  \A t \in Tasks :
    call[t].stage = "read" /\ ~ Touches(call[t]) \subseteq loose =>
      /\ disk[call[t].path] = call[t].read
      /\ call[t].to # call[t].path => disk[call[t].to] = Absent

\* The user's contents of p are kept, or in the hands of the call that replaces
\* them ...
InHands(t, p) == call[t].stage # "idle" /\ call[t].path = p /\ call[t].read = own[p]

Kept(p) == own[p] \in blobs \union {Absent} \/ \E t \in Tasks : InHands(t, p)

\* ... or still in the file, and nothing a rollback would take for Root's own.
Untouched(p) == own[p] = disk[p] /\ own[p] \notin MadeByRoot(call[Root], p)

Survives(p) == Kept(p) \/ Untouched(p)

AllSurvive == \A p \in Paths \ (loose \union unrecorded) : Survives(p)

\* A call that has not written yet still finds what it read.
LEMMA ReadKept ==
  ASSUME TypeOK, ReadIsCurrent, loose \subseteq loose',
         \A t \in Tasks : call'[t].stage = "read" =>
           \/ call'[t] = call[t] /\ (\A p \in Touches(call[t]) : disk'[p] = disk[p])
           \/ Touches(call'[t]) \subseteq loose'
           \/ /\ disk'[call'[t].path] = call'[t].read
              /\ call'[t].to # call'[t].path => disk'[call'[t].to] = Absent
  PROVE  ReadIsCurrent'
<1> SUFFICES ASSUME NEW t \in Tasks, call'[t].stage = "read",
                    ~ Touches(call'[t]) \subseteq loose',
                    call'[t] = call[t], \A p \in Touches(call[t]) : disk'[p] = disk[p]
             PROVE  /\ disk'[call'[t].path] = call'[t].read
                    /\ call'[t].to # call'[t].path => disk'[call'[t].to] = Absent
  BY DEF ReadIsCurrent
<1>1. call[t].path \in Touches(call[t]) /\ call[t].to \in Touches(call[t])
  BY DEF Touches
<1> QED
  BY <1>1 DEF ReadIsCurrent

LEMMA ToolKeepsRead ==
  ASSUME TypeOK, ReadIsCurrent, NEW t \in Tasks, ToolStep(t)
  PROVE  ReadIsCurrent'
<1>1. ASSUME NEW p \in Paths, NEW text \in Texts, StartCall(t, p, text)
      PROVE  ReadIsCurrent'
  BY <1>1, ReadKept DEF StartCall, tree, TypeOK
<1>2. ASSUME NEW p \in Paths, RefusedCall(t, p) PROVE ReadIsCurrent'
  BY <1>2, ReadKept DEF RefusedCall, tree
<1>3. ASSUME NEW p \in Paths, NEW to \in Paths, StartMove(t, p, to) PROVE ReadIsCurrent'
  BY <1>3, ReadKept DEF StartMove, tree, history, TypeOK
<1>4. ASSUME Apply(t) PROVE ReadIsCurrent'
  <2>1. /\ call' = [call EXCEPT ![t].stage = "written"] /\ loose \subseteq loose'
        /\ call[t].stage = "read"
    BY <1>4 DEF Apply
  <2>2. \A p \in Paths \ Touches(call[t]) : disk'[p] = disk[p]
    BY <1>4 DEF Apply, Effect, Touches, TypeOK, Trees
  <2>3. ASSUME NEW u \in Tasks, call'[u].stage = "read",
               NEW q \in Touches(call[u]), q \in Touches(call[t])
        PROVE  Touches(call[u]) \subseteq loose'
    <3>1. u # t
      BY <2>1, <2>3 DEF TypeOK
    <3>2. u \in Callers(q) /\ q \in Touches(call[t]) /\ Callers(q) # {t}
      BY <2>3, <3>1 DEF Callers
    <3>3. Touches(call[u]) \subseteq Shared(Touches(call[t]))
      BY <2>3, <3>2 DEF Shared
    <3> QED
      BY <1>4, <3>2, <3>3 DEF Apply
  <2>4. \A u \in Tasks \ {t} : call'[u] = call[u] /\ Touches(call[u]) \subseteq Paths
    BY <2>1, TouchesTyped DEF TypeOK
  <2>5. call'[t].stage = "written"
    BY <2>1, CallTyped DEF TypeOK
  <2> QED
    BY <2>1, <2>2, <2>3, <2>4, <2>5, ReadKept
<1>5. ASSUME ApplyFails(t) PROVE ReadIsCurrent'
  BY <1>5, ReadKept DEF ApplyFails, tree, history, TypeOK, NoCall
<1>6. ASSUME Record(t) PROVE ReadIsCurrent'
  BY <1>6, ReadKept DEF Record, history, TypeOK, NoCall
<1>7. ASSUME RecordFails(t) PROVE ReadIsCurrent'
  BY <1>7, ReadKept DEF RecordFails, TypeOK, NoCall
<1> QED
  BY <1>1, <1>2, <1>3, <1>4, <1>5, <1>6, <1>7 DEF ToolStep

LEMMA NextKeepsRead == TypeOK /\ ReadIsCurrent /\ [Next]_vars => ReadIsCurrent'
<1> SUFFICES ASSUME TypeOK, ReadIsCurrent, [Next]_vars PROVE ReadIsCurrent'
  OBVIOUS
<1>1. CASE \E t \in Tasks : ToolStep(t)
  BY <1>1, ToolKeepsRead
<1>2. CASE UNCHANGED <<disk, call, loose>>
  BY <1>2, ReadKept
<1>3. CASE RevertEntry
  <2>1. call' = call /\ loose' = loose \union Shared({Reverted.path})
        /\ disk' = [disk EXCEPT ![Reverted.path] = Reverted.before]
    BY <1>3 DEF RevertEntry
  <2>2. \A t \in Tasks : Touches(call[t]) \subseteq Paths
    BY TouchesTyped DEF TypeOK
  <2>3. ASSUME NEW t \in Tasks, Reverted.path \in Touches(call[t])
        PROVE  Touches(call[t]) \subseteq loose'
    BY <2>1, <2>3 DEF Shared, Callers
  <2> QED
    BY <2>1, <2>2, <2>3, ReadKept DEF TypeOK, Trees
<1>4. ASSUME NEW p \in Paths, NEW text \in Texts, UserEdit(p, text) PROVE ReadIsCurrent'
  <2>1. /\ call' = call /\ loose' = loose \union Disturbed(p)
        /\ disk' = [disk EXCEPT ![p] = text]
    BY <1>4 DEF UserEdit
  <2>2. \A t \in Tasks : Touches(call[t]) \subseteq Paths
    BY TouchesTyped DEF TypeOK
  <2>3. ASSUME NEW t \in Tasks, call[t].stage = "read", p \in Touches(call[t])
        PROVE  Touches(call[t]) \subseteq loose'
    BY <2>1, <2>2, <2>3 DEF Disturbed, Readers
  <2> QED
    BY <2>1, <2>2, <2>3, ReadKept DEF TypeOK, Trees
<1>5. CASE Restart
  BY <1>5 DEF Restart, ReadIsCurrent, NoCall
<1>6. CASE RollbackStep
  BY <1>2, <1>3, <1>6 DEF RollbackStep, StartRollback, ReadCurrent, RefuseRollback,
     FinishRollback, tree, history
<1>7. CASE TakeCheckpoint \/ UNCHANGED vars
  BY <1>2, <1>7 DEF TakeCheckpoint, tree, vars
<1> QED
  BY <1>1, <1>4, <1>5, <1>6, <1>7 DEF Next

\* A call keeps in hand what it has read until it ends, and ends with a record.
LEMMA KeptKept ==
  ASSUME NEW p \in Paths, own'[p] = own[p], blobs \subseteq blobs', Kept(p),
         \A t \in Tasks : InHands(t, p) => InHands(t, p)' \/ own[p] \in blobs' \union {Absent}
  PROVE  Kept(p)'
BY DEF Kept

\* A file nothing is done to.
LEMMA UntouchedKept ==
  ASSUME NEW p \in Paths, own'[p] = own[p], disk'[p] = disk[p], Untouched(p),
         MadeByRoot(call[Root], p)' \subseteq MadeByRoot(call[Root], p)
  PROVE  Untouched(p)'
BY DEF Untouched

LEMMA ToolKeepsSurvival ==
  ASSUME TypeOK, ReadIsCurrent, NEW t \in Tasks, ToolStep(t),
         NEW p \in Paths \ (loose' \union unrecorded'), Survives(p)
  PROVE  Survives(p)'
<1> DEFINE Calm == /\ UNCHANGED <<disk, blobs, entries, own>>
                   /\ \A u \in Tasks \ {t} : call'[u] = call[u]
                   /\ call[t].stage = "idle" /\ call'[t].stage # "written"
<1>1. ASSUME Calm PROVE Survives(p)'
  <2>1. Kept(p) => Kept(p)'
    BY <1>1, KeptKept DEF InHands
  <2>2. Untouched(p) => Untouched(p)'
    <3>1. call'[Root] = call[Root] \/ call'[Root].stage # "written"
      BY <1>1 DEF Tasks
    <3> QED
      BY <1>1, <3>1, NothingMade, UntouchedKept
  <2> QED
    BY <2>1, <2>2 DEF Survives
<1>2. ASSUME NEW q \in Paths, NEW text \in Texts, StartCall(t, q, text) PROVE Calm
  BY <1>2 DEF StartCall, MayCall, NoCall, tree, TypeOK
<1>3. ASSUME NEW q \in Paths, RefusedCall(t, q) PROVE Calm
  BY <1>3 DEF RefusedCall, MayCall, NoCall, tree
<1>4. ASSUME NEW q \in Paths, NEW to \in Paths, StartMove(t, q, to) PROVE Calm
  BY <1>4 DEF StartMove, MayCall, NoCall, tree, ledger, history, TypeOK
<1>5. ASSUME Apply(t) PROVE Survives(p)'
  <2> DEFINE c == call[t]
  <2>1. c \in [stage : {"read", "written"}, path : Paths, to : Paths,
               read : Texts, text : Texts]
    BY <1>5, CallTyped DEF Apply, TypeOK
  <2>2. /\ own' = own /\ blobs' = blobs /\ disk' = Effect(c)
        /\ c.stage = "read" /\ loose \subseteq loose'
        /\ call' = [call EXCEPT ![t].stage = "written"]
    BY <1>5 DEF Apply
  <2>3. call'[t] = [c EXCEPT !.stage = "written"]
        /\ \A u \in Tasks \ {t} : call'[u] = call[u]
    BY <2>2 DEF TypeOK
  <2>4. \A u \in Tasks : InHands(u, p) => InHands(u, p)'
    BY <2>1, <2>2, <2>3 DEF InHands
  <2>5. Kept(p) => Kept(p)'
    BY <2>2, <2>4, KeptKept
  <2>6. CASE Untouched(p) /\ p \notin Touches(c)
    <3>1. disk'[p] = disk[p]
      BY <2>1, <2>2, <2>6 DEF Effect, Touches, TypeOK, Trees
    <3>2. Untouched(p)'
      BY <1>5, <2>2, <2>6, <3>1, ApplyMakes, UntouchedKept
    <3> QED
      BY <3>2 DEF Survives
  <2>7. CASE Untouched(p) /\ p \in Touches(c)
    <3>1. disk[c.path] = c.read /\ (c.to # c.path => disk[c.to] = Absent)
      BY <2>2, <2>7 DEF ReadIsCurrent
    <3>2. own[p] = Absent \/ InHands(t, p)
      BY <2>1, <2>2, <2>7, <3>1 DEF Untouched, Touches, InHands
    <3>3. Kept(p)'
      BY <2>2, <2>4, <3>2 DEF Kept
    <3> QED
      BY <3>3 DEF Survives
  <2> QED
    BY <2>5, <2>6, <2>7 DEF Survives
<1>6. ASSUME ApplyFails(t) PROVE Survives(p)'
  <2>1. /\ UNCHANGED <<disk, blobs, entries, own, loose>>
        /\ call' = [call EXCEPT ![t] = NoCall]
        /\ call[t].stage = "read" /\ disk[call[t].path] = Absent
    BY <1>6 DEF ApplyFails, tree, ledger, history
  <2>2. InHands(t, p) => own[p] = Absent
    BY <2>1 DEF InHands, ReadIsCurrent, Touches
  <2>3. \A u \in Tasks \ {t} : InHands(u, p) => InHands(u, p)'
    BY <2>1 DEF InHands, TypeOK
  <2>4. Kept(p) => Kept(p)'
    BY <2>1, <2>2, <2>3, KeptKept
  <2>5. Untouched(p) => Untouched(p)'
    <3>1. call'[Root] = call[Root] \/ call'[Root].stage # "written"
      BY <2>1 DEF TypeOK, NoCall, Tasks
    <3> QED
      BY <2>1, <3>1, NothingMade, UntouchedKept
  <2> QED
    BY <2>4, <2>5 DEF Survives
<1>7. ASSUME Record(t) PROVE Survives(p)'
  <2>1. /\ own' = own /\ disk' = disk /\ blobs' = blobs \union KeptContents(call[t])
        /\ call' = [call EXCEPT ![t] = NoCall]
    BY <1>7 DEF Record, history
  <2>2. InHands(t, p) => own[p] \in blobs' \union {Absent}
    BY <2>1 DEF InHands, KeptContents
  <2>3. \A u \in Tasks \ {t} : InHands(u, p) => InHands(u, p)'
    BY <2>1 DEF InHands, TypeOK
  <2>4. Kept(p) => Kept(p)'
    BY <2>1, <2>2, <2>3, KeptKept
  <2>5. Untouched(p) => Untouched(p)'
    BY <1>7, <2>1, RecordMakes, UntouchedKept
  <2> QED
    BY <2>4, <2>5 DEF Survives
<1>8. ASSUME RecordFails(t) PROVE Survives(p)'
  <2>1. /\ UNCHANGED <<disk, blobs, entries, own>>
        /\ call' = [call EXCEPT ![t] = NoCall] /\ p \notin Touches(call[t])
    BY <1>8 DEF RecordFails, ledger
  <2>2. \A u \in Tasks : InHands(u, p) => u # t /\ InHands(u, p)'
    BY <2>1 DEF InHands, Touches, TypeOK
  <2>3. Kept(p) => Kept(p)'
    BY <2>1, <2>2, KeptKept
  <2>4. Untouched(p) => Untouched(p)'
    <3>1. call'[Root] = call[Root] \/ call'[Root].stage # "written"
      BY <2>1 DEF TypeOK, NoCall, Tasks
    <3> QED
      BY <2>1, <3>1, NothingMade, UntouchedKept
  <2> QED
    BY <2>3, <2>4 DEF Survives
<1> HIDE DEF Calm
<1> QED
  BY <1>1, <1>2, <1>3, <1>4, <1>5, <1>6, <1>7, <1>8 DEF ToolStep

LEMMA NextKeepsSurvival ==
  ASSUME Inv, ReadIsCurrent, AllSurvive, [Next]_vars
  PROVE  AllSurvive'
<1> SUFFICES ASSUME NEW p \in Paths \ (loose' \union unrecorded')
             PROVE  Survives(p)'
  BY DEF AllSurvive
<1>0. TypeOK /\ Root \in Tasks
  BY DEF Inv, Tasks
<1> DEFINE Calm == UNCHANGED <<disk, blobs, entries, own, call, loose, unrecorded>>
<1>1. ASSUME Calm PROVE Survives(p)'
  BY <1>1 DEF AllSurvive, Survives, Kept, InHands, Untouched, MadeByRoot
<1>2. CASE \E t \in Tasks : ToolStep(t)
  <2>1. loose \subseteq loose' /\ unrecorded \subseteq unrecorded'
    BY <1>2 DEF ToolStep, StartCall, RefusedCall, StartMove, Apply, ApplyFails, Record,
       RecordFails, history
  <2>2. Survives(p)
    BY <2>1 DEF AllSurvive
  <2> QED
    BY <1>0, <1>2, <2>2, ToolKeepsSurvival
<1>3. CASE RevertEntry
  <2>1. /\ UNCHANGED <<own, blobs, call, unrecorded>> /\ loose \subseteq loose'
        /\ disk' = [disk EXCEPT ![Reverted.path] = Reverted.before]
        /\ rollback.seen # Unknown /\ rollback.seen = Reverted.after
    BY <1>3 DEF RevertEntry, CanRevert
  <2>2. Survives(p) /\ (Kept(p) => Kept(p)')
    BY <2>1 DEF AllSurvive, Kept, InHands
  <2>3. CASE p # Reverted.path
    <3>1. Untouched(p) => Untouched(p)'
      BY <1>0, <1>3, <2>1, <2>3, RevertMakes, UntouchedKept DEF TypeOK, Trees
    <3> QED
      BY <2>2, <3>1 DEF Survives
  <2>4. CASE p = Reverted.path
    <3>1. rollback.todo # <<>> /\ disk[p] = Reverted.after
      BY <1>0, <2>1, <2>4 DEF Inv, SeenIsCurrent, TypeOK
    <3>2. MadeIn(entries[Root], p, disk[p])
      BY <1>0, <2>4, <3>1, RevertedTyped DEF MadeIn, Reverted
    <3>3. ~ Untouched(p)
      BY <3>2, MadeIs DEF Untouched
    <3> QED
      BY <2>2, <3>3 DEF Survives
  <2> QED
    BY <2>3, <2>4
<1>4. ASSUME NEW q \in Paths, NEW text \in Texts, UserEdit(q, text) PROVE Survives(p)'
  <2>1. /\ UNCHANGED <<blobs, call, entries, unrecorded>> /\ loose \subseteq loose'
        /\ disk' = [disk EXCEPT ![q] = text]
        /\ own' = [own EXCEPT ![q] = IF text \in MadeByRoot(call[Root], q) THEN Absent ELSE text]
    BY <1>4 DEF UserEdit, ledger
  <2>2. MadeByRoot(call[Root], p)' = MadeByRoot(call[Root], p)
    BY <2>1 DEF MadeByRoot
  <2>3. CASE p = q
    <3>1. disk'[p] = text
          /\ own'[p] = IF text \in MadeByRoot(call[Root], p) THEN Absent ELSE text
      BY <1>0, <2>1, <2>3 DEF TypeOK, Trees
    <3> QED
      BY <2>2, <3>1 DEF Survives, Kept, Untouched
  <2>4. CASE p # q
    <3>1. own'[p] = own[p] /\ disk'[p] = disk[p]
      BY <1>0, <2>1, <2>4 DEF TypeOK, Trees
    <3>2. Survives(p)
      BY <2>1 DEF AllSurvive
    <3> QED
      BY <2>1, <2>2, <3>1, <3>2 DEF Survives, Kept, InHands, Untouched
  <2> QED
    BY <2>3, <2>4
<1>5. CASE Restart
  <2>1. /\ UNCHANGED <<disk, blobs, own, loose>>
        /\ unrecorded' = unrecorded \union
             UNION {Touches(call[t]) : t \in {u \in Tasks : call[u].stage = "written"}}
        /\ entries'[Root] = <<>> /\ call'[Root] = NoCall
    BY <1>0, <1>5 DEF Restart, tree
  <2>2. MadeByRoot(call[Root], p)' = {}
    BY <2>1 DEF MadeByRoot, Range, NoCall
  <2>3. ASSUME NEW t \in Tasks, InHands(t, p) PROVE own[p] = disk[p]
    <3>1. p \in Touches(call[t]) /\ call[t].stage # "idle"
      BY <2>3 DEF InHands, Touches
    <3>2. call[t].stage = "read"
      BY <1>0, <2>1, <3>1, CallTyped DEF TypeOK
    <3> QED
      BY <2>1, <2>3, <3>1, <3>2 DEF ReadIsCurrent, InHands
  <2>4. own[p] \in blobs \union {Absent} \/ own[p] = disk[p]
    BY <2>1, <2>3 DEF AllSurvive, Survives, Kept, Untouched
  <2> QED
    BY <2>1, <2>2, <2>4 DEF Survives, Kept, Untouched
<1>6. CASE RollbackStep
  <2>1. Calm \/ RevertEntry
    BY <1>6 DEF RollbackStep, StartRollback, ReadCurrent, RefuseRollback, FinishRollback,
       tree, ledger, history
  <2> QED
    BY <1>1, <1>3, <2>1
<1>7. CASE TakeCheckpoint \/ UNCHANGED vars
  <2>1. Calm
    BY <1>7 DEF TakeCheckpoint, tree, ledger, vars
  <2> QED
    BY <1>1, <2>1
<1> HIDE DEF Calm
<1> QED
  BY <1>2, <1>4, <1>5, <1>6, <1>7 DEF Next

LEMMA SurvivalHolds == Spec => [](Inv /\ ReadIsCurrent /\ AllSurvive)
<1>1. Init => ReadIsCurrent /\ AllSurvive
  BY DEF Init, ReadIsCurrent, NoCall, AllSurvive, Survives, Untouched, MadeByRoot, Range, Tasks
<1>2. Inv => TypeOK
  BY DEF Inv
<1> QED
  BY <1>1, <1>2, InvHolds, NextKeepsRead, NextKeepsSurvival, PTL DEF Spec

\* What the user last put into a file is never lost to the agent: through calls,
\* failing records, rollbacks and kills it stays in the file, in the blob store
\* or in the hands of the call that replaces it (Ledger::record_write keeps
\* before_content).  Excepted are files changed between a read and the write
\* that relies on it, and those of a call that was never recorded.
THEOREM NoUserWorkLost == Spec => []UserWorkSurvives
<1>1. Inv /\ AllSurvive => UserWorkSurvives
  <2> SUFFICES ASSUME Inv, AllSurvive, NEW p \in Paths \ (loose \union unrecorded)
               PROVE  own[p] \in blobs \union {Absent, disk[p]} \union
                        {call[t].read : t \in {u \in Tasks : p \in Touches(call[u])}}
    BY DEF UserWorkSurvives
  <2>1. Kept(p) \/ own[p] = disk[p]
    BY DEF AllSurvive, Survives, Untouched
  <2>2. ASSUME NEW t \in Tasks, InHands(t, p)
        PROVE  p \in Touches(call[t]) /\ own[p] = call[t].read
    BY <2>2 DEF InHands, Touches
  <2> QED
    BY <2>1, <2>2 DEF Kept
<1> QED
  BY <1>1, SurvivalHolds, PTL

-----------------------------------------------------------------------------
(* The ledger knows what the agent last left in a file                     *)

\* What a call leaves in the path p it touches, by what it records.
LeftBy(c, p) == CASE c.to = c.path -> c.text
                  [] c.to # c.path /\ p = c.path -> Absent
                  [] OTHER -> c.read

WrittenIsLast ==
  \A t \in Tasks : call[t].stage = "written" =>
    \A p \in Touches(call[t]) \ (loose \union unrecorded) : last[p] = LeftBy(call[t], p)

\* The contents a baseline stands for.
Knows(p) == IF baselines[p].agent = "wrote" THEN baselines[p].wrote ELSE baselines[p].start

KnownIsLast ==
  \A p \in Paths \ (loose \union unrecorded) :
    baselines[p] # Unknown /\ ~Written(p) => last[p] = Knows(p)

\* A first touch finds what is there, or leaves what a call has yet to record.
LEMMA FirstTouchTrue ==
  ASSUME TypeOK, WrittenIsLast, KnownIsLast, NEW t \in Tasks, NEW p \in Paths, FirstTouch(p),
         call[t] = NoCall, call'[t].stage # "written",
         \A u \in Tasks \ {t} : call'[u] = call[u],
         UNCHANGED <<loose, unrecorded>>
  PROVE  WrittenIsLast' /\ KnownIsLast'
<1>1. \A u \in Tasks : call'[u].stage = "written" => call'[u] = call[u]
  OBVIOUS
<1>2. \A q \in Paths : Written(q)' <=> Written(q)
  BY DEF Written, Callers, NoCall
<1>3. \A q \in Paths : last'[q] # last[q] => q = p /\ ~Written(q)
  BY DEF FirstTouch, TypeOK, Trees
<1>4. WrittenIsLast'
  <2> SUFFICES ASSUME NEW u \in Tasks, call'[u].stage = "written",
                      NEW q \in Touches(call'[u]) \ (loose \union unrecorded)
               PROVE  last'[q] = LeftBy(call'[u], q)
    BY DEF WrittenIsLast
  <2>1. call'[u] = call[u] /\ q \in Paths
    BY <1>1, TouchesTyped DEF TypeOK
  <2>2. Written(q)
    BY <2>1 DEF Written, Callers
  <2> QED
    BY <1>3, <2>1, <2>2 DEF WrittenIsLast
<1>5. KnownIsLast'
  <2> SUFFICES ASSUME NEW q \in Paths \ (loose \union unrecorded),
                      baselines'[q] # Unknown, ~Written(q)
               PROVE  last'[q] = Knows(q)'
    BY <1>2 DEF KnownIsLast
  <2>1. CASE q = p /\ baselines[p] = Unknown
    <3>1. last'[p] = disk[p] /\ baselines'[p].agent = "untouched" /\ baselines'[p].start = disk[p]
      BY <2>1 DEF FirstTouch, RecordBaseline, TypeOK, Trees
    <3> QED
      BY <2>1, <3>1 DEF Knows
  <2>2. CASE ~(q = p /\ baselines[p] = Unknown)
    <3>1. baselines'[q] = baselines[q] /\ last'[q] = last[q]
      BY <2>2 DEF FirstTouch, RecordBaseline, TypeOK, Trees
    <3> QED
      BY <3>1 DEF KnownIsLast, Knows
  <2> QED
    BY <2>1, <2>2
<1> QED
  BY <1>4, <1>5

\* A step that neither writes nor records: calls may end, exceptions may come.
LEMMA QuietTrue ==
  ASSUME TypeOK, WrittenIsLast, KnownIsLast, UNCHANGED <<baselines, last>>,
         loose \subseteq loose', unrecorded \subseteq unrecorded',
         \A t \in Tasks : call'[t].stage = "written" => call'[t] = call[t],
         \A t \in Tasks : call[t].stage = "written" =>
           call'[t] = call[t] \/ Touches(call[t]) \subseteq unrecorded'
  PROVE  WrittenIsLast' /\ KnownIsLast'
<1>1. WrittenIsLast'
  BY DEF WrittenIsLast, LeftBy
<1>2. ASSUME NEW p \in Paths \ (loose' \union unrecorded'), Written(p) PROVE Written(p)'
  BY <1>2 DEF Written, Callers
<1>3. KnownIsLast'
  BY <1>2 DEF KnownIsLast, Knows
<1> QED
  BY <1>1, <1>3

\* What a recorded call says of its paths.
LEMMA RecordedState ==
  ASSUME TypeOK, NEW c \in Call, c.stage # "idle", NEW p \in Paths
  PROVE  /\ p \in Touches(c) => /\ StatesAfter(c)[p].agent = "wrote"
                                /\ StatesAfter(c)[p].wrote = LeftBy(c, p)
         /\ p \notin Touches(c) => StatesAfter(c)[p] = baselines[p]
<1>1. c.path \in Paths /\ c.to \in Paths
  BY CallTyped
<1>2. DOMAIN baselines = Paths
  BY DEF TypeOK
<1> QED
  BY <1>1, <1>2 DEF StatesAfter, SetAgentState, LeftBy, Touches

LEMMA ToolKeepsTrue ==
  ASSUME TypeOK, ReadIsCurrent, WrittenIsLast, KnownIsLast, NEW t \in Tasks, ToolStep(t)
  PROVE  WrittenIsLast' /\ KnownIsLast'
<1>1. ASSUME NEW p \in Paths, NEW text \in Texts, StartCall(t, p, text)
      PROVE  WrittenIsLast' /\ KnownIsLast'
  <2>1. /\ call[t] = NoCall /\ call'[t].stage # "written" /\ FirstTouch(p)
        /\ \A u \in Tasks \ {t} : call'[u] = call[u]
        /\ UNCHANGED <<loose, unrecorded>>
    BY <1>1 DEF StartCall, MayCall, TypeOK
  <2> QED
    BY <2>1, FirstTouchTrue
<1>2. ASSUME NEW p \in Paths, RefusedCall(t, p) PROVE WrittenIsLast' /\ KnownIsLast'
  <2>1. /\ call[t] = NoCall /\ call' = call /\ FirstTouch(p)
        /\ UNCHANGED <<loose, unrecorded>>
    BY <1>2 DEF RefusedCall, MayCall
  <2> QED
    BY <2>1, FirstTouchTrue DEF NoCall
<1>3. ASSUME NEW p \in Paths, NEW to \in Paths, StartMove(t, p, to)
      PROVE  WrittenIsLast' /\ KnownIsLast'
  <2>1. /\ call[t] = NoCall /\ call'[t].stage # "written"
        /\ \A u \in Tasks \ {t} : call'[u] = call[u]
        /\ UNCHANGED <<baselines, last, loose, unrecorded>>
    BY <1>3 DEF StartMove, MayCall, TypeOK, ledger, history
  <2> QED
    BY <2>1, QuietTrue DEF NoCall
<1>4. ASSUME Apply(t) PROVE WrittenIsLast' /\ KnownIsLast'
  <2> DEFINE c == call[t]
  <2>1. c \in [stage : {"read", "written"}, path : Paths, to : Paths,
               read : Texts, text : Texts]
    BY <1>4, CallTyped DEF Apply, TypeOK
  <2>2. /\ UNCHANGED <<baselines, unrecorded>> /\ disk' = Effect(c)
        /\ c.stage = "read" /\ loose \subseteq loose'
        /\ call' = [call EXCEPT ![t].stage = "written"]
        /\ last' = [p \in Paths |-> IF p \in Touches(c) THEN disk'[p] ELSE last[p]]
    BY <1>4 DEF Apply, ledger
  <2>3. /\ call'[t] = [c EXCEPT !.stage = "written"]
        /\ \A u \in Tasks \ {t} : call'[u] = call[u]
    BY <2>2 DEF TypeOK
  <2>4. Touches(call'[t]) = Touches(c) /\ call'[t].stage = "written"
        /\ \A p : LeftBy(call'[t], p) = LeftBy(c, p)
    BY <2>1, <2>3 DEF Touches, LeftBy
  <2>5. ASSUME NEW u \in Tasks \ {t}, NEW p \in Touches(call[u]), p \in Touches(c)
        PROVE  p \in loose'
    <3>1. u \in Callers(p) /\ Callers(p) # {t} /\ Touches(call[u]) \subseteq Shared(Touches(c))
      BY <2>5 DEF Callers, Shared
    <3> QED
      BY <1>4, <2>5, <3>1 DEF Apply
  <2>6. WrittenIsLast'
    <3> SUFFICES ASSUME NEW u \in Tasks, call'[u].stage = "written",
                        NEW p \in Touches(call'[u]) \ (loose' \union unrecorded')
                 PROVE  last'[p] = LeftBy(call'[u], p)
      BY DEF WrittenIsLast
    <3>1. CASE u = t
      <4>1. p \in Touches(c) /\ p \in Paths /\ last'[p] = disk'[p]
        BY <2>1, <2>2, <2>4, <3>1 DEF Touches
      <4>2. disk[c.path] = c.read
        BY <2>2, <4>1 DEF ReadIsCurrent
      <4>3. disk'[p] = LeftBy(c, p)
        BY <2>1, <2>2, <4>1, <4>2 DEF Effect, LeftBy, Touches, TypeOK, Trees
      <4> QED
        BY <2>4, <3>1, <4>1, <4>3
    <3>2. CASE u # t
      <4>1. call'[u] = call[u] /\ p \notin Touches(c) /\ p \in Paths
        BY <2>3, <2>5, <3>2, TouchesTyped DEF TypeOK
      <4> QED
        BY <2>2, <4>1 DEF WrittenIsLast
    <3> QED
      BY <3>1, <3>2
  <2>7. KnownIsLast'
    <3> SUFFICES ASSUME NEW p \in Paths \ (loose' \union unrecorded'),
                        baselines[p] # Unknown, ~Written(p)'
                 PROVE  last'[p] = Knows(p)
      BY <2>2 DEF KnownIsLast, Knows
    <3>1. p \notin Touches(c)
      BY <2>4 DEF Written, Callers
    <3>2. ~Written(p)
      BY <2>3, <3>1 DEF Written, Callers
    <3> QED
      BY <2>2, <3>1, <3>2 DEF KnownIsLast
  <2> QED
    BY <2>6, <2>7
<1>5. ASSUME ApplyFails(t) PROVE WrittenIsLast' /\ KnownIsLast'
  <2>1. /\ call' = [call EXCEPT ![t] = NoCall] /\ call[t].stage = "read"
        /\ UNCHANGED <<baselines, last, loose, unrecorded>>
    BY <1>5 DEF ApplyFails, ledger, history
  <2>2. call'[t].stage # "written" /\ \A u \in Tasks \ {t} : call'[u] = call[u]
    BY <2>1 DEF TypeOK, NoCall
  <2> QED
    BY <2>1, <2>2, QuietTrue
<1>6. ASSUME Record(t) PROVE WrittenIsLast' /\ KnownIsLast'
  <2> DEFINE c == call[t]
  <2>1. /\ c \in Call /\ c.stage = "written"
        /\ call' = [call EXCEPT ![t] = NoCall] /\ baselines' = StatesAfter(c)
        /\ UNCHANGED <<last, loose, unrecorded>>
    BY <1>6 DEF Record, history, TypeOK
  <2>2. call'[t].stage # "written" /\ \A u \in Tasks \ {t} : call'[u] = call[u]
    BY <2>1 DEF TypeOK, NoCall
  <2>3. WrittenIsLast'
    BY <2>1, <2>2 DEF WrittenIsLast, LeftBy
  <2>4. KnownIsLast'
    <3> SUFFICES ASSUME NEW p \in Paths \ (loose \union unrecorded),
                        baselines'[p] # Unknown, ~Written(p)'
                 PROVE  last[p] = Knows(p)'
      BY <2>1 DEF KnownIsLast
    <3>1. CASE p \in Touches(c)
      <4>1. last[p] = LeftBy(c, p)
        BY <2>1, <3>1 DEF WrittenIsLast
      <4>2. Knows(p)' = LeftBy(c, p)
        BY <2>1, <3>1, RecordedState DEF Knows
      <4> QED
        BY <4>1, <4>2
    <3>2. CASE p \notin Touches(c)
      <4>1. baselines'[p] = baselines[p]
        BY <2>1, <3>2, RecordedState
      <4>2. ~Written(p)
        BY <2>2, <3>2 DEF Written, Callers
      <4> QED
        BY <4>1, <4>2 DEF KnownIsLast, Knows
    <3> QED
      BY <3>1, <3>2
  <2> QED
    BY <2>3, <2>4
<1>7. ASSUME RecordFails(t) PROVE WrittenIsLast' /\ KnownIsLast'
  <2>1. /\ call' = [call EXCEPT ![t] = NoCall]
        /\ unrecorded' = unrecorded \union Touches(call[t])
        /\ UNCHANGED <<baselines, last, loose>>
    BY <1>7 DEF RecordFails, ledger
  <2>2. call'[t].stage # "written" /\ \A u \in Tasks \ {t} : call'[u] = call[u]
    BY <2>1 DEF TypeOK, NoCall
  <2> QED
    BY <2>1, <2>2, QuietTrue
<1> QED
  BY <1>1, <1>2, <1>3, <1>4, <1>5, <1>6, <1>7 DEF ToolStep

LEMMA NextKeepsTrue ==
  ASSUME Inv, ReadIsCurrent, WrittenIsLast, KnownIsLast, [Next]_vars
  PROVE  WrittenIsLast' /\ KnownIsLast'
<1>0. TypeOK
  BY DEF Inv
<1>1. CASE \E t \in Tasks : ToolStep(t)
  BY <1>0, <1>1, ToolKeepsTrue
<1>2. CASE RevertEntry
  <2> DEFINE p == Reverted.path
  <2>0. p \in Paths
    BY <1>0, <1>2, RevertedTyped DEF RevertEntry, TypeOK, Entries
  <2>1. /\ call' = call /\ unrecorded' = unrecorded
        /\ loose' = loose \union Shared({p})
        /\ baselines' = RestoredState(p, Reverted.before)
        /\ last' = [last EXCEPT ![p] = Reverted.before]
    BY <1>2 DEF RevertEntry
  <2>2. WrittenIsLast'
    <3> SUFFICES ASSUME NEW u \in Tasks, call[u].stage = "written",
                        NEW q \in Touches(call[u]) \ (loose' \union unrecorded)
                 PROVE  last'[q] = LeftBy(call[u], q)
      BY <2>1 DEF WrittenIsLast, LeftBy
    <3>1. q \in Paths
      BY <1>0, TouchesTyped DEF TypeOK
    <3>2. q # p
      <4>1. p \in Touches(call[u]) => Touches(call[u]) \subseteq Shared({p})
        BY DEF Shared, Callers
      <4> QED
        BY <2>1, <4>1
    <3> QED
      BY <1>0, <2>1, <3>1, <3>2 DEF WrittenIsLast, TypeOK, Trees
  <2>3. KnownIsLast'
    <3> SUFFICES ASSUME NEW q \in Paths \ (loose' \union unrecorded),
                        baselines'[q] # Unknown, ~Written(q)
                 PROVE  last'[q] = Knows(q)'
      BY <2>1 DEF KnownIsLast, Written, Callers
    <3>1. CASE q = p
      BY <1>0, <2>0, <2>1, <3>1 DEF RestoredState, SetAgentState, Knows, TypeOK, Trees
    <3>2. CASE q # p
      <4>1. baselines'[q] = baselines[q] /\ last'[q] = last[q]
        BY <1>0, <2>1, <3>2 DEF RestoredState, SetAgentState, TypeOK, Trees
      <4> QED
        BY <2>1, <4>1 DEF KnownIsLast, Knows
    <3> QED
      BY <3>1, <3>2
  <2> QED
    BY <2>2, <2>3
<1>3. CASE UNCHANGED <<baselines, last, call, unrecorded>> /\ loose \subseteq loose'
  BY <1>0, <1>3, QuietTrue
<1>4. CASE Restart
  BY <1>4 DEF Restart, NoCall, WrittenIsLast, KnownIsLast
<1>5. CASE RollbackStep
  BY <1>2, <1>3, <1>5 DEF RollbackStep, StartRollback, ReadCurrent, RefuseRollback,
     FinishRollback, ledger, history
<1>6. CASE TakeCheckpoint \/ UNCHANGED vars \/ \E p \in Paths, text \in Texts : UserEdit(p, text)
  BY <1>3, <1>6 DEF TakeCheckpoint, UserEdit, ledger, vars
<1> QED
  BY <1>1, <1>4, <1>5, <1>6 DEF Next

\* The ledger tells the agent's files from the user's: without a call between
\* its write and its record, a file with a baseline is reported as changed by
\* somebody else exactly when it is not what the agent last left or found there
\* (Ledger::classify), through any calls, rollbacks and kills.
THEOREM ClassifiedTruly == Spec => []ClassifiesTruly
<1>1. Init => WrittenIsLast /\ KnownIsLast
  BY DEF Init, WrittenIsLast, KnownIsLast, NoCall
<1>2. Inv /\ KnownIsLast => ClassifiesTruly
  <2> SUFFICES ASSUME Inv, KnownIsLast, NEW p \in Paths \ (loose \union unrecorded),
                      baselines[p] # Unknown, ~Written(p)
               PROVE  Classify(p, disk[p]) = "concurrent_user_modification" <=> disk[p] # last[p]
    BY DEF ClassifiesTruly
  <2>1. last[p] = Knows(p) /\ baselines[p].agent \in {"untouched", "wrote"}
    BY DEF Inv, TypeOK, KnownIsLast, Baseline
  <2> QED
    BY <2>1 DEF Classify, Knows
<1> QED
  BY <1>1, <1>2, SurvivalHolds, NextKeepsTrue, PTL DEF Spec

-----------------------------------------------------------------------------
(* A rollback that reports success has restored the tree                   *)

\* The entries of p between the positions lo and hi of q.
Of(q, p, lo, hi) == {i \in DOMAIN q : lo < i /\ i <= hi /\ q[i].path = p}

Newest(q, D, v) == \E i \in D : (\A j \in D : j <= i) /\ q[i].after = v

\* Every entry found what the one before it had left.
Linked(q, D) ==
  \A j \in D : (\E i \in D : i < j) =>
    \E i \in D : /\ i < j /\ (\A k \in D : k < j => k <= i)
                 /\ q[j].before = q[i].after

Oldest(q, D, u) == \A i \in D : (\A j \in D : i <= j) => q[i].before = u

\* Reverting these entries, newest first and each only over what it left, takes
\* p from contents v to contents u or is refused on the way.
Undoes(q, p, lo, hi, v, u) ==
  LET D == Of(q, p, lo, hi) IN
  IF D = {} THEN v = u ELSE Newest(q, D, v) /\ Linked(q, D) => Oldest(q, D, u)

\* Undoes goes by the entries of the path alone.
LEMMA SameUndoes ==
  ASSUME NEW q, NEW r, NEW p, NEW lo, NEW hi, NEW top, NEW v, NEW u,
         Of(q, p, lo, hi) = Of(r, p, lo, top),
         \A i \in Of(q, p, lo, hi) : q[i] = r[i],
         Undoes(q, p, lo, hi, v, u)
  PROVE  Undoes(r, p, lo, top, v, u)
<1> DEFINE D == Of(q, p, lo, hi)
<1>1. Newest(r, D, v) => Newest(q, D, v)
  BY DEF Newest
<1>2. Linked(r, D) => Linked(q, D)
  BY DEF Linked
<1>3. Oldest(q, D, u) => Oldest(r, D, u)
  BY DEF Oldest
<1> HIDE DEF D
<1> QED
  BY <1>1, <1>2, <1>3 DEF Undoes, D

\* An entry pushed extends the entries of its path.
LEMMA OfPushed ==
  ASSUME NEW q \in Seq(Entries), NEW e \in Entries, NEW p, NEW lo \in Nat
  PROVE  /\ \A i \in DOMAIN q : Append(q, e)[i] = q[i]
         /\ Append(q, e)[Len(q) + 1] = e
         /\ \A hi \in 0..Len(q) : Of(Append(q, e), p, lo, hi) = Of(q, p, lo, hi)
         /\ Of(Append(q, e), p, lo, Len(q) + 1) =
              IF e.path = p /\ lo <= Len(q)
                THEN Of(q, p, lo, Len(q)) \union {Len(q) + 1} ELSE Of(q, p, lo, Len(q))
<1> DEFINE n == Len(q)
           r == Append(q, e)
<1>1. /\ n \in Nat /\ DOMAIN q = 1..n /\ DOMAIN r = 1..(n + 1)
      /\ \A i \in DOMAIN q : r[i] = q[i]
      /\ r[n + 1] = e
  OBVIOUS
<1> HIDE DEF n, r
<1>2. \A hi \in 0..n : Of(r, p, lo, hi) = Of(q, p, lo, hi)
  BY <1>1 DEF Of
<1>3. Of(r, p, lo, n + 1) =
        IF e.path = p /\ lo <= n
          THEN Of(q, p, lo, n) \union {n + 1} ELSE Of(q, p, lo, n)
  BY <1>1 DEF Of
<1> QED
  BY <1>1, <1>2, <1>3 DEF n, r

\* An entry pushed is none of the other paths.
LEMMA OfOthersPushed ==
  ASSUME NEW q \in Seq(Entries), NEW e \in Entries, NEW p, e.path # p, NEW lo \in Nat
  PROVE  /\ \A i \in DOMAIN q : Append(q, e)[i] = q[i]
         /\ Of(Append(q, e), p, lo, Len(q) + 1) = Of(q, p, lo, Len(q))
<1> DEFINE n == Len(q)
           r == Append(q, e)
<1>1. /\ n \in Nat /\ DOMAIN q = 1..n /\ DOMAIN r = 1..(n + 1)
      /\ \A i \in DOMAIN q : r[i] = q[i]
      /\ r[n + 1] = e
  OBVIOUS
<1> HIDE DEF n, r
<1>2. Of(r, p, lo, n + 1) = Of(q, p, lo, n)
  BY <1>1 DEF Of
<1> QED
  BY <1>1, <1>2 DEF n, r

\* An entry that replaced v leaves a path to undo whatever it holds now.
LEMMA PushUndoes ==
  ASSUME NEW q \in Seq(Entries), NEW e \in Entries, NEW lo \in Nat, lo <= Len(q),
         NEW u, NEW v, Undoes(q, e.path, lo, Len(q), e.before, u)
  PROVE  Undoes(Append(q, e), e.path, lo, Len(q) + 1, v, u)
<1> DEFINE n == Len(q)
           r == Append(q, e)
           D == Of(q, e.path, lo, n)
           E == Of(r, e.path, lo, n + 1)
<1>1. n \in Nat /\ \A i \in D : i \in Nat /\ i <= n /\ q[i] = r[i]
  BY OfPushed DEF Of
<1>2. E = D \union {n + 1} /\ r[n + 1] = e
  BY OfPushed
<1>3. IF D = {} THEN e.before = u
                ELSE Newest(q, D, e.before) /\ Linked(q, D) => Oldest(q, D, u)
  BY DEF Undoes
<1> HIDE DEF n, r, D, E
<1>4. CASE D = {}
  <2>1. Oldest(r, E, u)
    BY <1>2, <1>3, <1>4 DEF Oldest
  <2> QED
    BY <1>2, <2>1 DEF Undoes, n, r, E
<1>5. CASE D # {}
  <2> SUFFICES ASSUME Linked(r, E) PROVE Oldest(r, E, u)
    BY <1>2 DEF Undoes, n, r, E
  <2>1. Newest(q, D, e.before)
    <3>1. \E i \in E : i < n + 1
      BY <1>1, <1>2, <1>5
    <3>2. PICK i \in E : /\ i < n + 1 /\ (\A k \in E : k < n + 1 => k <= i)
                         /\ r[n + 1].before = r[i].after
      BY <1>2, <3>1 DEF Linked
    <3>3. i \in D
      BY <1>1, <1>2, <3>2
    <3> QED
      BY <1>1, <1>2, <3>2, <3>3 DEF Newest
  <2>2. Linked(q, D)
    <3> SUFFICES ASSUME NEW j \in D, \E i \in D : i < j
                 PROVE  \E i \in D : /\ i < j /\ (\A k \in D : k < j => k <= i)
                                     /\ q[j].before = q[i].after
      BY DEF Linked
    <3>1. PICK i \in E : /\ i < j /\ (\A k \in E : k < j => k <= i)
                         /\ r[j].before = r[i].after
      BY <1>2 DEF Linked
    <3>2. i \in D
      BY <1>1, <1>2, <3>1
    <3> QED
      BY <1>1, <1>2, <3>1, <3>2
  <2>3. Oldest(q, D, u)
    BY <1>3, <1>5, <2>1, <2>2
  <2> QED
    <3> SUFFICES ASSUME NEW i \in E, \A j \in E : i <= j PROVE r[i].before = u
      BY DEF Oldest
    <3>1. i \in D
      BY <1>1, <1>2, <1>5
    <3> QED
      BY <1>1, <1>2, <2>3, <3>1 DEF Oldest
<1> QED
  BY <1>4, <1>5

\* Reverting the newest entry over what it left.
LEMMA PopUndoes ==
  ASSUME NEW q \in Seq(Entries), NEW h \in DOMAIN q, NEW lo \in Nat, lo < h,
         NEW u, Undoes(q, q[h].path, lo, h, q[h].after, u)
  PROVE  Undoes(q, q[h].path, lo, h - 1, q[h].before, u)
<1> DEFINE D == Of(q, q[h].path, lo, h - 1)
           E == Of(q, q[h].path, lo, h)
<1>1. h \in Nat /\ E = D \union {h} /\ \A i \in D : i \in Nat /\ i < h
  BY DEF Of
<1>2. Newest(q, E, q[h].after) /\ Linked(q, E) => Oldest(q, E, u)
  BY <1>1 DEF Undoes
<1> HIDE DEF D, E
<1>3. Newest(q, E, q[h].after)
  BY <1>1 DEF Newest
<1>4. CASE D = {}
  <2>1. Linked(q, E)
    BY <1>1, <1>4 DEF Linked
  <2>2. q[h].before = u
    BY <1>1, <1>2, <1>3, <1>4, <2>1 DEF Oldest
  <2> QED
    BY <1>4, <2>2 DEF Undoes, D
<1>5. CASE D # {}
  <2> SUFFICES ASSUME Newest(q, D, q[h].before), Linked(q, D) PROVE Oldest(q, D, u)
    BY <1>5 DEF Undoes, D
  <2>1. Linked(q, E)
    <3> SUFFICES ASSUME NEW j \in E, \E i \in E : i < j
                 PROVE  \E i \in E : /\ i < j /\ (\A k \in E : k < j => k <= i)
                                     /\ q[j].before = q[i].after
      BY DEF Linked
    <3>1. CASE j = h
      <4>1. PICK i \in D : (\A k \in D : k <= i) /\ q[i].after = q[h].before
        BY DEF Newest
      <4> QED
        BY <1>1, <3>1, <4>1
    <3>2. CASE j \in D
      <4>1. \E i \in D : i < j
        BY <1>1, <3>2
      <4>2. PICK i \in D : /\ i < j /\ (\A k \in D : k < j => k <= i)
                           /\ q[j].before = q[i].after
        BY <3>2, <4>1 DEF Linked
      <4>3. \A k \in E : k < j => k <= i
        BY <1>1, <3>2, <4>2
      <4> QED
        BY <1>1, <4>2, <4>3
    <3> QED
      BY <1>1, <3>1, <3>2
  <2>2. Oldest(q, E, u)
    BY <1>2, <1>3, <2>1
  <2> QED
    <3> SUFFICES ASSUME NEW i \in D, \A j \in D : i <= j PROVE q[i].before = u
      BY DEF Oldest
    <3>1. \A j \in E : i <= j
      BY <1>1
    <3> QED
      BY <1>1, <2>2, <3>1 DEF Oldest
<1> QED
  BY <1>4, <1>5

\* Contents Root never made stop every rollback that has entries to revert.
LEMMA GivenUndoes ==
  ASSUME NEW q, NEW p, NEW lo, NEW hi, NEW v, ~MadeIn(q, p, v)
  PROVE  Undoes(q, p, lo, hi, v, v)
BY DEF Undoes, Newest, Of, MadeIn

LEMMA EmptyUndoes ==
  ASSUME NEW q \in Seq(Entries), NEW p, NEW lo \in Nat, NEW hi \in Nat, hi <= lo, NEW v, NEW u
  PROVE  Undoes(q, p, lo, hi, v, u) <=> v = u
<1>1. Of(q, p, lo, hi) = {}
  BY DEF Of
<1> QED
  BY <1>1 DEF Undoes

\* An entry pushed when p contains v is of another path; or, when it is what
\* made p contain v, what it replaced could be undone.
LEMMA PushedUndoes ==
  ASSUME NEW q \in Seq(Entries), NEW e \in Entries, NEW p, NEW lo \in Nat, lo <= Len(q),
         NEW v, NEW u,
         IF e.path # p THEN Undoes(q, p, lo, Len(q), v, u)
         ELSE v = e.after => Undoes(q, p, lo, Len(q), e.before, u)
  PROVE  Undoes(Append(q, e), p, lo, Len(q) + 1, v, u)
<1> DEFINE n == Len(q)
           r == Append(q, e)
<1>1. n \in Nat /\ r \in Seq(Entries)
  OBVIOUS
<1>2. CASE e.path # p
  <2>1. Of(r, p, lo, n + 1) = Of(q, p, lo, n) /\ \A i \in DOMAIN q : r[i] = q[i]
    BY <1>2, OfOthersPushed
  <2>2. Of(q, p, lo, n) \subseteq DOMAIN q
    BY DEF Of
  <2> HIDE DEF n, r
  <2> QED
    BY <1>2, <2>1, <2>2, SameUndoes DEF n, r
<1>4. CASE e.path = p /\ v = e.after
  BY <1>1, <1>4, PushUndoes
<1>5. CASE e.path = p /\ v # e.after
  <2> DEFINE E == Of(r, p, lo, n + 1)
  <2>1. n + 1 \in E /\ r[n + 1].after # v /\ \A i \in E : i \in Nat /\ i <= n + 1
    <3>1. E = Of(q, p, lo, n) \union {n + 1} /\ r[n + 1] = e
      BY <1>5, OfPushed
    <3>2. \A i \in E : i \in Nat /\ i <= n + 1
      BY <1>1 DEF Of
    <3> QED
      BY <1>5, <3>1, <3>2
  <2> HIDE DEF n, r, E
  <2>2. ~ Newest(r, E, v)
    BY <1>1, <2>1 DEF Newest
  <2>3. E # {}
    BY <2>1
  <2> QED
    BY <2>2, <2>3 DEF Undoes, n, r, E
<1> QED
  BY <1>1, <1>2, <1>4, <1>5

\* An entry pushed changes nothing below it.
LEMMA BelowUndoes ==
  ASSUME NEW q \in Seq(Entries), NEW e \in Entries, NEW p, NEW lo \in Nat,
         NEW hi \in 0..Len(q), NEW v, NEW u, Undoes(q, p, lo, hi, v, u)
  PROVE  Undoes(Append(q, e), p, lo, hi, v, u)
<1> DEFINE r == Append(q, e)
<1>1. Of(r, p, lo, hi) = Of(q, p, lo, hi) /\ \A i \in DOMAIN q : r[i] = q[i]
  BY OfPushed
<1>2. Of(q, p, lo, hi) \subseteq DOMAIN q
  BY DEF Of
<1> HIDE DEF r
<1> QED
  BY <1>1, <1>2, SameUndoes DEF r

\* What a call has replaced in a path it touches.
Replaced(c, p) == IF p = c.path THEN c.read ELSE Absent

RootWrote(p) == call[Root].stage = "written" /\ p \in Touches(call[Root])

UndoesTo(k, p, v) ==
  Undoes(entries[Root], p, checkpoints[k].watermark, Len(entries[Root]), v, given[k][p])

\* Reverting everything after checkpoint k restores p, or is refused; while
\* Root has yet to record its write, reverting from what that replaced does.
Restorable(k, p) ==
  IF RootWrote(p) THEN disk[p] = LeftBy(call[Root], p)
                         => UndoesTo(k, p, Replaced(call[Root], p))
                  ELSE UndoesTo(k, p, disk[p])

\* A checkpoint has a watermark and a tree.
LEMMA CheckpointHas ==
  ASSUME TypeOK, NEW k \in DOMAIN checkpoints
  PROVE  /\ checkpoints[k].watermark \in Nat /\ k \in DOMAIN given
         /\ given[k] \in Trees
<1>1. checkpoints[k] \in Checkpoints
  BY DEF TypeOK
<1>2. k \in DOMAIN given
  BY DEF TypeOK
<1> QED
  BY <1>1, <1>2 DEF Checkpoints, TypeOK

\* The checkpoints of this process: their watermarks are positions in the ledger.
Live == {k \in DOMAIN checkpoints : k > older}

AllRestorable ==
  /\ \A k \in Live : checkpoints[k].watermark <= Len(entries[Root])
  /\ \A k \in Live, p \in Paths \ (loose \union again) : Restorable(k, p)

LEMMA RestorableIs ==
  ASSUME AllRestorable, NEW k \in Live
  PROVE  /\ k \in DOMAIN checkpoints /\ checkpoints[k].watermark <= Len(entries[Root])
         /\ \A p \in Paths \ (loose \union again) : Restorable(k, p)
BY DEF AllRestorable, Live

\* A step that forgets no entry and takes no checkpoint keeps the watermarks.
LEMMA StaysInReach ==
  ASSUME AllRestorable, UNCHANGED <<checkpoints, older>>,
         \E n \in Nat : Len(entries[Root]) \in Nat /\ Len(entries'[Root]) = Len(entries[Root]) + n,
         TypeOK,
         \A k \in Live, p \in Paths \ (loose' \union again') : Restorable(k, p)'
  PROVE  AllRestorable'
<1>1. Live' = Live
  BY DEF Live
<1>2. ASSUME NEW k \in Live
      PROVE  checkpoints'[k].watermark <= Len(entries'[Root])
  <2>1. checkpoints[k].watermark \in Nat
    BY CheckpointHas DEF Live
  <2>2. checkpoints[k].watermark <= Len(entries[Root])
    BY RestorableIs
  <2> QED
    BY <2>1, <2>2
<1> QED
  BY <1>1, <1>2 DEF AllRestorable

\* The positions a rollback has yet to go through are those above the watermark
\* that it has not reverted.
TodoIsRest ==
  IF RollingBack
    THEN LET w == checkpoints[rollback.cp].watermark
             m == Len(rollback.todo)
         IN /\ m = 0 \/ w + m <= Len(entries[Root])
            /\ \A i \in 1..m : rollback.todo[i] = w + m + 1 - i
    ELSE rollback.todo = <<>>

RestUndoes(p) ==
  Undoes(entries[Root], p, checkpoints[rollback.cp].watermark,
         checkpoints[rollback.cp].watermark + Len(rollback.todo), disk[p],
         given[rollback.cp][p])

\* Reverting the rest restores every path Root has not written to meanwhile.
RestIsRestorable ==
  RollingBack =>
    /\ \A p \in Paths : RootWrote(p) => p \in rollback.late
    /\ rollback.cp > older =>
         \A p \in Paths \ (loose \union again \union rollback.late) : RestUndoes(p)

LEMMA SameReach ==
  ASSUME TypeOK, AllRestorable, UNCHANGED <<entries, checkpoints, older>>,
         \A k \in Live, p \in Paths \ (loose' \union again') : Restorable(k, p)'
  PROVE  AllRestorable'
<1>1. Len(entries[Root]) \in Nat
  BY DEF TypeOK, Tasks
<1> QED
  BY <1>1, StaysInReach

\* A call makes of a path what it leaves there.
LEMMA LeftIsMade ==
  ASSUME NEW c \in Call, c.stage # "idle", NEW p \in Touches(c)
  PROVE  MadeIn(Changes(c), p, LeftBy(c, p))
<1>1. c \in [stage : {"read", "written"}, path : Paths, to : Paths,
             read : Texts, text : Texts]
  BY CallTyped
<1>2. CASE c.to = c.path
  <2>1. Changes(c) = <<Change(c.path, c.read, c.text)>> /\ p = c.path
        /\ LeftBy(c, p) = c.text
    BY <1>1, <1>2 DEF Changes, Touches, LeftBy
  <2>2. 1 \in DOMAIN Changes(c) /\ Changes(c)[1] = Change(c.path, c.read, c.text)
    BY <2>1
  <2> QED
    BY <2>1, <2>2 DEF MadeIn, Change, Entry
<1>3. CASE c.to # c.path
  <2>1. Changes(c) = <<Change(c.path, c.read, Absent), Change(c.to, Absent, c.read)>>
        /\ p \in {c.path, c.to}
        /\ LeftBy(c, p) = IF p = c.path THEN Absent ELSE c.read
    BY <1>1, <1>3 DEF Changes, Touches, LeftBy
  <2>2. /\ {1, 2} \subseteq DOMAIN Changes(c)
        /\ Changes(c)[1] = Change(c.path, c.read, Absent)
        /\ Changes(c)[2] = Change(c.to, Absent, c.read)
    BY <2>1
  <2> QED
    BY <2>1, <2>2 DEF MadeIn, Change, Entry
<1> QED
  BY <1>2, <1>3

\* How a step keeps a path restorable: nothing happens to it ...
LEMMA RestorableKept ==
  ASSUME NEW k, NEW p, Restorable(k, p),
         entries'[Root] = entries[Root], disk'[p] = disk[p],
         checkpoints'[k] = checkpoints[k], given'[k][p] = given[k][p],
         \/ call'[Root] = call[Root]
         \/ ~ RootWrote(p) /\ ~ RootWrote(p)'
  PROVE  Restorable(k, p)'
<1>1. \A v : UndoesTo(k, p, v) <=> UndoesTo(k, p, v)'
  BY DEF UndoesTo
<1>2. CASE call'[Root] = call[Root]
  BY <1>1, <1>2 DEF Restorable, RootWrote
<1>3. CASE ~ RootWrote(p) /\ ~ RootWrote(p)'
  BY <1>1, <1>3 DEF Restorable
<1> QED
  BY <1>2, <1>3

\* ... or others give it contents that Root has not made.
LEMMA RestorableGiven ==
  ASSUME TypeOK', NEW k, NEW p \in Paths, given'[k][p] = disk'[p],
         disk'[p] \notin MadeByRoot(call[Root], p)'
  PROVE  Restorable(k, p)'
<1>1. /\ ~ MadeIn(entries[Root], p, disk[p])'
      /\ (call[Root].stage = "written" => ~ MadeIn(Changes(call[Root]), p, disk[p]))'
  BY DEF MadeByRoot, MadeIn, Range
<1>2. UndoesTo(k, p, disk[p])'
  BY <1>1, GivenUndoes DEF UndoesTo
<1>3. (RootWrote(p) => disk[p] # LeftBy(call[Root], p))'
  <2>1. call'[Root] \in Call
    BY DEF TypeOK, Tasks
  <2>2. ASSUME RootWrote(p)' PROVE MadeIn(Changes(call'[Root]), p, LeftBy(call'[Root], p))
    BY <2>1, <2>2, LeftIsMade DEF RootWrote
  <2> QED
    BY <1>1, <2>2 DEF RootWrote
<1> QED
  BY <1>2, <1>3 DEF Restorable

\* Others write to W: a path of W is given its contents or set back to Root's.
LEMMA GivenRestorable ==
  ASSUME TypeOK, TypeOK', AllRestorable, NEW W, Given(W),
         UNCHANGED <<entries, checkpoints, older>>, loose \subseteq loose',
         \A p \in Paths \ W : /\ disk'[p] = disk[p]
                              /\ \/ call'[Root] = call[Root]
                                 \/ ~ RootWrote(p) /\ ~ RootWrote(p)'
  PROVE  AllRestorable'
<1> SUFFICES ASSUME NEW k \in Live, NEW p \in Paths \ (loose' \union again')
             PROVE  Restorable(k, p)'
  BY SameReach
<1>0. k \in DOMAIN checkpoints
  BY DEF Live
<1>1. /\ again' = again \union {q \in W : disk'[q] \in MadeByRoot(call'[Root], q)}
      /\ given'[k][p] = IF p \in W THEN disk'[p] ELSE given[k][p]
  BY <1>0, CheckpointHas DEF Given, Keeps
<1>2. Restorable(k, p)
  BY <1>1, RestorableIs
<1>3. CASE p \in W
  <2>1. MadeByRoot(call[Root], p)' = MadeByRoot(call'[Root], p)
    BY DEF MadeByRoot
  <2>2. disk'[p] \notin MadeByRoot(call[Root], p)'
    BY <1>1, <1>3, <2>1
  <2> QED
    BY <1>1, <1>3, <2>2, RestorableGiven
<1>4. CASE p \notin W
  BY <1>1, <1>2, <1>4, RestorableKept
<1> QED
  BY <1>3, <1>4

\* What Root's record pushes undoes what its call has done.
LEMMA RecordRestorable ==
  ASSUME TypeOK, Record(Root), NEW k \in DOMAIN checkpoints, NEW p \in Paths,
         Restorable(k, p), checkpoints[k].watermark <= Len(entries[Root])
  PROVE  Restorable(k, p)'
<1> DEFINE c == call[Root]
           q == entries[Root]
           n == Len(q)
           w == checkpoints[k].watermark
<1>0. Root \in Tasks /\ q \in Seq(Entries) /\ n \in Nat /\ w \in Nat /\ k \in DOMAIN given
  BY CheckpointHas DEF TypeOK, Tasks
<1>1. c \in [stage : {"read", "written"}, path : Paths, to : Paths,
             read : Texts, text : Texts] /\ c.stage = "written"
  BY <1>0, CallTyped DEF Record, TypeOK
<1>2. /\ disk' = disk /\ checkpoints' = checkpoints
      /\ entries'[Root] = q \o Changes(c)
      /\ call'[Root] = NoCall
  BY <1>0 DEF Record, TypeOK
<1>3. given'[k][p] = given[k][p] /\ w <= n
  BY DEF Record, history
<1>4. ~ RootWrote(p)'
  BY <1>2 DEF RootWrote, NoCall
<1>5. SUFFICES Undoes(q \o Changes(c), p, w, Len(q \o Changes(c)), disk[p], given[k][p])
  BY <1>2, <1>3, <1>4 DEF Restorable, UndoesTo
<1>6. IF p \in {c.path, c.to}
        THEN disk[p] = LeftBy(c, p) => Undoes(q, p, w, n, Replaced(c, p), given[k][p])
        ELSE Undoes(q, p, w, n, disk[p], given[k][p])
  BY <1>1 DEF Restorable, RootWrote, UndoesTo, Touches
<1>7. \A r \in Paths, a, b \in Texts : Change(r, a, b) \in Entries
        /\ Change(r, a, b).path = r /\ Change(r, a, b).before = a /\ Change(r, a, b).after = b
  BY DEF Change, Entry, Entries
<1>8. Absent \in Texts
  BY DEF Texts
<1>9. CASE c.to = c.path
  <2> DEFINE e == Change(c.path, c.read, c.text)
  <2>1. Changes(c) = <<e>> /\ e \in Entries /\ LeftBy(c, c.path) = c.text
    BY <1>1, <1>7, <1>9 DEF Changes, LeftBy
  <2>2. e.path = c.path /\ e.before = c.read /\ e.after = c.text
    BY <1>1, <1>7
  <2> HIDE DEF c, q, n, w, e
  <2>3. q \o <<e>> = Append(q, e) /\ Len(q \o <<e>>) = Len(q) + 1
        /\ Len(<<e>>) = 1 /\ <<e>>[1] = e
    BY <1>0, <2>1
  <2>5. Undoes(Append(q, e), p, w, Len(q) + 1, disk[p], given[k][p])
    BY <1>0, <1>3, <1>6, <1>9, <2>1, <2>2, PushedUndoes DEF Replaced, n
  <2> QED
    BY <2>1, <2>3, <2>5
<1>10. CASE c.to # c.path
  <2> DEFINE e == Change(c.path, c.read, Absent)
             f == Change(c.to, Absent, c.read)
             r == Append(q, e)
  <2>1. /\ Changes(c) = <<e, f>> /\ e \in Entries /\ f \in Entries
        /\ LeftBy(c, c.path) = Absent /\ LeftBy(c, c.to) = c.read
    BY <1>1, <1>7, <1>8, <1>10 DEF Changes, LeftBy
  <2>2. /\ e.path = c.path /\ e.before = c.read /\ e.after = Absent
        /\ f.path = c.to /\ f.before = Absent /\ f.after = c.read
    BY <1>1, <1>7, <1>8
  <2> HIDE DEF c, q, n, w, e, f
  <2>3. /\ q \o <<e, f>> = Append(r, f) /\ Len(q \o <<e, f>>) = Len(r) + 1
        /\ r \in Seq(Entries) /\ Len(r) = n + 1
        /\ Len(<<e, f>>) = 2 /\ <<e, f>>[1] = e /\ <<e, f>>[2] = f
    BY <1>0, <2>1 DEF n
  <2>4. w <= Len(r)
    BY <1>0, <1>3, <2>3
  <2>5. Undoes(Append(r, f), p, w, Len(r) + 1, disk[p], given[k][p])
    <3>1. CASE p = c.path
      <4>0. disk[p] = e.after => Undoes(q, p, w, n, e.before, given[k][p])
        <5>1. p # c.to /\ Replaced(c, p) = e.before /\ LeftBy(c, p) = e.after
          BY <1>10, <2>1, <2>2, <3>1 DEF Replaced
        <5> QED
          BY <1>6, <3>1, <5>1
      <4>1. Undoes(r, p, w, Len(q) + 1, disk[p], given[k][p])
        BY <1>0, <1>3, <2>1, <2>2, <3>1, <4>0, PushedUndoes DEF n
      <4> HIDE DEF r
      <4> QED
        BY <1>0, <1>10, <2>1, <2>2, <2>3, <2>4, <3>1, <4>1, PushedUndoes DEF n
    <3>2. CASE p = c.to
      <4>1. disk[p] = f.after => Undoes(r, p, w, Len(q) + 1, f.before, given[k][p])
        BY <1>0, <1>3, <1>6, <1>10, <2>1, <2>2, <3>2, PushedUndoes DEF Replaced, n
      <4> HIDE DEF r
      <4> QED
        BY <1>0, <1>10, <2>1, <2>2, <2>3, <2>4, <3>2, <4>1, PushedUndoes DEF n
    <3>3. CASE p \notin {c.path, c.to}
      <4>1. Undoes(r, p, w, Len(q) + 1, disk[p], given[k][p])
        BY <1>0, <1>3, <1>6, <2>1, <2>2, <3>3, PushedUndoes DEF n
      <4> HIDE DEF r
      <4> QED
        BY <1>0, <2>1, <2>2, <2>3, <2>4, <3>3, <4>1, PushedUndoes DEF n
    <3> QED
      BY <3>1, <3>2, <3>3
  <2> QED
    BY <2>1, <2>3, <2>5
<1> QED
  BY <1>9, <1>10

LEMMA RecordPushes ==
  ASSUME TypeOK, NEW t \in Tasks, Record(t)
  PROVE  \E n \in Nat : Len(entries[Root]) \in Nat
                        /\ Len(entries'[Root]) = Len(entries[Root]) + n
<1>1. /\ entries[Root] \in Seq(Entries) /\ Changes(call[t]) \in Seq(Entries)
      /\ entries'[Root] = IF t = Root THEN entries[Root] \o Changes(call[t]) ELSE entries[Root]
  <2>1. call[t] \in [stage : {"read", "written"}, path : Paths, to : Paths,
                     read : Texts, text : Texts]
    BY CallTyped DEF Record, TypeOK
  <2>2. Changes(call[t]) \in Seq(Entries)
    BY <2>1, ChangesTyped DEF Record, TypeOK
  <2> QED
    BY <2>2 DEF Record, TypeOK, Tasks
<1>2. ASSUME NEW a \in Seq(Entries), NEW b \in Seq(Entries)
      PROVE  Len(a) \in Nat /\ Len(b) \in Nat /\ Len(a \o b) = Len(a) + Len(b)
  OBVIOUS
<1>3. CASE t = Root
  <2>1. /\ Len(entries[Root]) \in Nat /\ Len(Changes(call[t])) \in Nat
        /\ Len(entries'[Root]) = Len(entries[Root]) + Len(Changes(call[t]))
    BY <1>1, <1>2, <1>3
  <2> QED
    BY <2>1
<1>4. CASE t # Root
  <2>1. Len(entries[Root]) \in Nat /\ Len(entries'[Root]) = Len(entries[Root]) + 0
    BY <1>1, <1>4
  <2> QED
    BY <2>1
<1> QED
  BY <1>3, <1>4

LEMMA ToolKeepsRestorable ==
  ASSUME TypeOK, TypeOK', ReadIsCurrent, AllRestorable, NEW t \in Tasks, ToolStep(t)
  PROVE  AllRestorable'
<1>0. Root \in Tasks
  BY DEF Tasks
<1> DEFINE Calm == /\ UNCHANGED <<disk, entries, checkpoints, older, given, loose, again>>
                   /\ \/ call'[Root] = call[Root]
                      \/ call[Root].stage # "written" /\ call'[Root].stage # "written"
<1>1. ASSUME Calm PROVE AllRestorable'
  <2>1. ASSUME NEW k \in Live, NEW p \in Paths \ (loose' \union again')
        PROVE  Restorable(k, p)'
    BY <1>1, RestorableIs, RestorableKept DEF RootWrote
  <2> QED
    BY <1>1, <2>1, SameReach
<1>2. ASSUME NEW p \in Paths, NEW text \in Texts, StartCall(t, p, text) PROVE Calm
  BY <1>0, <1>2 DEF StartCall, MayCall, NoCall, tree, TypeOK
<1>3. ASSUME NEW p \in Paths, RefusedCall(t, p) PROVE Calm
  BY <1>3 DEF RefusedCall, tree
<1>4. ASSUME NEW p \in Paths, NEW to \in Paths, StartMove(t, p, to) PROVE Calm
  BY <1>0, <1>4 DEF StartMove, MayCall, NoCall, tree, ledger, history, TypeOK
<1>5. ASSUME ApplyFails(t) PROVE Calm
  BY <1>0, <1>5 DEF ApplyFails, NoCall, tree, ledger, history, TypeOK
<1>6. ASSUME Apply(t) PROVE AllRestorable'
  <2> DEFINE c == call[t]
  <2>1. c \in [stage : {"read", "written"}, path : Paths, to : Paths,
               read : Texts, text : Texts] /\ c.stage = "read"
    BY <1>6, CallTyped DEF Apply, TypeOK
  <2>2. /\ UNCHANGED <<entries, checkpoints, older>> /\ loose \subseteq loose'
        /\ disk' = Effect(c) /\ Touches(c) = {c.path, c.to}
        /\ call' = [call EXCEPT ![t].stage = "written"]
    BY <1>6, <2>1 DEF Apply, ledger, Touches
  <2>3. \A p \in Paths \ Touches(c) : disk'[p] = disk[p]
    BY <2>1, <2>2 DEF Effect, TypeOK, Trees
  <2>4. CASE t # Root
    <3>1. Given(Touches(c)) /\ call'[Root] = call[Root]
      BY <1>0, <1>6, <2>2, <2>4 DEF Apply, TypeOK
    <3> QED
      BY <2>2, <2>3, <3>1, GivenRestorable
  <2>5. CASE t = Root
    <3> SUFFICES ASSUME NEW k \in Live, NEW p \in Paths \ (loose' \union again')
                 PROVE  Restorable(k, p)'
      BY <2>2, SameReach
    <3>1. /\ given' = given /\ again' = again
          /\ call'[Root] = [c EXCEPT !.stage = "written"]
      BY <1>0, <1>6, <2>2, <2>5 DEF Apply, TypeOK
    <3>2. /\ Touches(call'[Root]) = Touches(c) /\ call'[Root].stage = "written"
          /\ Replaced(call'[Root], p) = Replaced(c, p)
      BY <2>1, <3>1 DEF Touches, Replaced
    <3>3. Restorable(k, p) /\ ~ RootWrote(p)
      BY <2>1, <2>2, <2>5, <3>1, RestorableIs DEF RootWrote
    <3>4. CASE p \notin Touches(c)
      BY <2>2, <2>3, <3>1, <3>2, <3>3, <3>4, RestorableKept DEF RootWrote
    <3>5. CASE p \in Touches(c)
      <4>1. disk[p] = Replaced(c, p)
        BY <1>0, <2>1, <2>2, <2>5, <3>5 DEF ReadIsCurrent, Replaced
      <4>2. UndoesTo(k, p, Replaced(c, p))
        BY <3>3, <4>1 DEF Restorable
      <4>3. UndoesTo(k, p, Replaced(call[Root], p))'
        BY <2>2, <3>1, <3>2, <4>2 DEF UndoesTo
      <4>4. RootWrote(p)'
        BY <3>2, <3>5 DEF RootWrote
      <4> QED
        BY <4>3, <4>4 DEF Restorable
    <3> QED
      BY <3>4, <3>5
  <2> QED
    BY <2>4, <2>5
<1>7. ASSUME Record(t) PROVE AllRestorable'
  <2>0. \E n \in Nat : Len(entries[Root]) \in Nat
                        /\ Len(entries'[Root]) = Len(entries[Root]) + n
    BY <1>0, <1>7, RecordPushes
  <2> SUFFICES ASSUME NEW k \in Live, NEW p \in Paths \ (loose \union again)
               PROVE  Restorable(k, p)'
    BY <1>7, <2>0, StaysInReach DEF Record, history
  <2>1. Restorable(k, p) /\ k \in DOMAIN checkpoints
        /\ checkpoints[k].watermark <= Len(entries[Root])
    BY RestorableIs
  <2>2. CASE t = Root
    BY <1>7, <2>1, <2>2, RecordRestorable
  <2>3. CASE t # Root
    <3>1. /\ UNCHANGED <<disk, checkpoints>>
          /\ entries'[Root] = entries[Root] /\ call'[Root] = call[Root]
      BY <1>0, <1>7, <2>3 DEF Record, TypeOK
    <3>2. given'[k][p] = given[k][p]
      BY <1>7 DEF Record, history
    <3> QED
      BY <2>1, <3>1, <3>2, RestorableKept
  <2> QED
    BY <2>2, <2>3
<1>8. ASSUME RecordFails(t) PROVE AllRestorable'
  <2>1. /\ UNCHANGED <<disk, entries, checkpoints, older, loose>>
        /\ call' = [call EXCEPT ![t] = NoCall]
    BY <1>8 DEF RecordFails, ledger
  <2>2. CASE t # Root
    <3>1. Calm
      BY <1>0, <1>8, <2>1, <2>2 DEF RecordFails, TypeOK
    <3> QED
      BY <1>1, <3>1
  <2>3. CASE t = Root
    <3>1. Given(Touches(call[Root])) /\ call'[Root].stage # "written"
      BY <1>0, <1>8, <2>1, <2>3 DEF RecordFails, TypeOK, NoCall
    <3> QED
      BY <2>1, <3>1, GivenRestorable DEF RootWrote
  <2> QED
    BY <2>2, <2>3
<1> HIDE DEF Calm
<1> QED
  BY <1>1, <1>2, <1>3, <1>4, <1>5, <1>6, <1>7, <1>8 DEF ToolStep

\* What is reverted is the newest entry: its reverting entry undoes that.
LEMMA RevertRestorable ==
  ASSUME Inv, AllRestorable, RevertEntry
  PROVE  AllRestorable'
<1> DEFINE h == Reverted
           q == entries[Root]
<1>0. TypeOK /\ Root \in Tasks /\ q \in Seq(Entries) /\ rollback.todo # <<>>
  BY DEF Inv, Tasks, TypeOK, RevertEntry
<1>1. h \in Entries /\ h.path \in Paths
  BY <1>0, RevertedTyped DEF Entries
<1>2. /\ Reverting(h) \in Entries /\ Reverting(h).path = h.path
      /\ Reverting(h).before = h.after /\ Reverting(h).after = h.before
  BY <1>1 DEF Entries, Reverting, Entry
<1>3. /\ disk' = [disk EXCEPT ![h.path] = h.before]
      /\ entries'[Root] = Append(q, Reverting(h))
      /\ loose' = loose \union Shared({h.path})
      /\ UNCHANGED <<checkpoints, older, call, given, again>>
      /\ rollback.seen # Unknown /\ rollback.seen = h.after
  BY <1>0 DEF RevertEntry, CanRevert, TypeOK
<1>7. Len(Append(q, Reverting(h))) = Len(q) + 1 /\ Len(q) \in Nat
  BY <1>0
<1> SUFFICES ASSUME NEW k \in Live, NEW p \in Paths \ (loose' \union again')
             PROVE  Restorable(k, p)'
  <2>1. \E n \in Nat : Len(q) \in Nat /\ Len(entries'[Root]) = Len(q) + n
    BY <1>3, <1>7
  <2> HIDE DEF h
  <2> QED
    BY <1>0, <1>3, <2>1, StaysInReach
<1> DEFINE w == checkpoints[k].watermark
<1>5. Restorable(k, p) /\ w <= Len(q) /\ k \in DOMAIN checkpoints
  BY <1>3, RestorableIs
<1>4. w \in Nat
  BY <1>0, <1>5, CheckpointHas
<1>8. CASE p # h.path
  <2>1. disk'[p] = disk[p] /\ given'[k][p] = given[k][p]
    BY <1>0, <1>3, <1>8 DEF TypeOK, Trees
  <2>2. \A v : UndoesTo(k, p, v) => UndoesTo(k, p, v)'
    <3> SUFFICES ASSUME NEW v, Undoes(q, p, w, Len(q), v, given[k][p])
                 PROVE  Undoes(Append(q, Reverting(h)), p, w, Len(q) + 1, v, given[k][p])
      BY <1>3, <1>7, <2>1 DEF UndoesTo
    <3> HIDE DEF h, q, w
    <3> QED
      BY <1>0, <1>2, <1>4, <1>5, <1>8, PushedUndoes
  <2> QED
    BY <1>3, <1>5, <2>1, <2>2 DEF Restorable, RootWrote
<1>9. CASE p = h.path
  <2>1. ~ RootWrote(p) /\ ~ RootWrote(p)'
    BY <1>0, <1>3, <1>9 DEF RootWrote, Shared, Callers
  <2>2. disk[p] = h.after
    BY <1>3, <1>9 DEF Inv, SeenIsCurrent
  <2>3. disk'[p] = h.before
    BY <1>0, <1>1, <1>3, <1>9 DEF TypeOK, Trees
  <2>4. Undoes(q, p, w, Len(q), h.after, given[k][p])
    BY <1>5, <2>1, <2>2 DEF Restorable, UndoesTo
  <2>6. Undoes(Append(q, Reverting(h)), p, w, Len(q) + 1, h.before, given[k][p])
    <3> HIDE DEF h, q, w
    <3> QED
      BY <1>0, <1>2, <1>4, <1>5, <1>9, <2>4, PushedUndoes
  <2>7. UndoesTo(k, p, disk[p])'
    BY <1>3, <1>7, <2>3, <2>6 DEF UndoesTo
  <2> QED
    BY <2>1, <2>7 DEF Restorable
<1> QED
  BY <1>8, <1>9

LEMMA NextKeepsRestorable ==
  ASSUME Inv, TypeOK', ReadIsCurrent, AllRestorable, [Next]_vars
  PROVE  AllRestorable'
<1>0. TypeOK /\ Root \in Tasks
  BY DEF Inv, Tasks
<1> DEFINE Calm == UNCHANGED <<disk, entries, checkpoints, older, call, given, loose, again>>
<1>1. ASSUME Calm PROVE AllRestorable'
  <2>1. ASSUME NEW k \in Live, NEW p \in Paths \ (loose' \union again')
        PROVE  Restorable(k, p)'
    BY <1>1, RestorableIs, RestorableKept
  <2> QED
    BY <1>0, <1>1, <2>1, SameReach
<1>2. CASE \E t \in Tasks : ToolStep(t)
  BY <1>0, <1>2, ToolKeepsRestorable
<1>3. CASE TakeCheckpoint
  <2> SUFFICES ASSUME NEW k \in Live'
               PROVE  /\ checkpoints'[k].watermark <= Len(entries'[Root])
                      /\ \A p \in Paths \ (loose \union again) : Restorable(k, p)'
    BY <1>3 DEF TakeCheckpoint, AllRestorable
  <2> DEFINE n == Len(checkpoints)
             w == Len(entries[Root])
  <2>1. /\ UNCHANGED <<disk, entries, older, call>> /\ call[Root] = NoCall
        /\ given' = Append(given, disk) /\ Len(given) = n /\ n \in Nat /\ w \in Nat
        /\ entries[Root] \in Seq(Entries) /\ DOMAIN checkpoints = 1..n
    BY <1>0, <1>3 DEF TakeCheckpoint, tree, ledger, TypeOK
  <2>2. \E cp : cp.watermark = w /\ checkpoints' = Append(checkpoints, cp)
    BY <1>3 DEF TakeCheckpoint, Watermark
  <2>3. \/ k \in Live
        \/ k = n + 1
    BY <1>0, <2>1, <2>2 DEF TypeOK, Live
  <2>4. CASE k \in Live
    <3>1. checkpoints'[k] = checkpoints[k] /\ given'[k] = given[k]
      BY <1>0, <2>1, <2>2, <2>4 DEF TypeOK, Live
    <3>2. checkpoints[k].watermark <= w /\ \A p \in Paths \ (loose \union again) : Restorable(k, p)
      BY <2>4, RestorableIs
    <3>3. ASSUME NEW p \in Paths \ (loose \union again) PROVE Restorable(k, p)'
      BY <2>1, <3>1, <3>2, RestorableKept
    <3> QED
      BY <2>1, <3>1, <3>2, <3>3
  <2>5. CASE k = n + 1
    <3>1. checkpoints'[k].watermark = w /\ given'[k] = disk
      BY <1>0, <2>1, <2>2, <2>5 DEF TypeOK
    <3> HIDE DEF w
    <3>2. \A p : Undoes(entries[Root], p, w, w, disk[p], disk[p])
      BY <2>1, EmptyUndoes
    <3>3. \A p : UndoesTo(k, p, disk[p])'
      BY <2>1, <3>1, <3>2 DEF UndoesTo, w
    <3>4. w <= w
      BY <2>1
    <3> QED
      BY <2>1, <3>1, <3>3, <3>4 DEF Restorable, RootWrote, NoCall, w
  <2> QED
    BY <2>3, <2>4, <2>5
<1>4. CASE RollbackStep
  <2>1. Calm \/ RevertEntry
    BY <1>4 DEF RollbackStep, StartRollback, ReadCurrent, RefuseRollback, FinishRollback,
       tree, ledger, history
  <2> QED
    BY <1>1, <2>1, RevertRestorable
<1>5. ASSUME NEW q \in Paths, NEW text \in Texts, UserEdit(q, text) PROVE AllRestorable'
  <2>1. /\ UNCHANGED <<entries, checkpoints, older, call>> /\ loose \subseteq loose'
        /\ Given({q}) /\ \A p \in Paths \ {q} : disk'[p] = disk[p]
    BY <1>0, <1>5 DEF UserEdit, ledger, TypeOK, Trees
  <2> QED
    BY <1>0, <2>1, GivenRestorable
<1>6. CASE Restart
  <2>1. Live' = {}
    <3>1. checkpoints' = checkpoints /\ older' = Len(checkpoints)
      BY <1>6 DEF Restart
    <3>2. DOMAIN checkpoints = 1..Len(checkpoints) /\ Len(checkpoints) \in Nat
      BY <1>0 DEF TypeOK
    <3> QED
      BY <3>1, <3>2 DEF Live
  <2> QED
    BY <2>1 DEF AllRestorable
<1>7. CASE UNCHANGED vars
  BY <1>1, <1>7 DEF vars
<1> HIDE DEF Calm
<1> QED
  BY <1>2, <1>3, <1>4, <1>5, <1>6, <1>7 DEF Next

\* Steps that leave a rollback where it is.
LEMMA TodoKept ==
  ASSUME TypeOK, TypeOK', TodoIsRest,
         rollback'.cp = rollback.cp, rollback'.todo = rollback.todo,
         RollingBack => checkpoints'[rollback.cp] = checkpoints[rollback.cp],
         DOMAIN entries[Root] \subseteq DOMAIN entries'[Root]
  PROVE  TodoIsRest'
<1> SUFFICES ASSUME RollingBack PROVE TodoIsRest'
  BY DEF TodoIsRest, RollingBack
<1> DEFINE w == checkpoints[rollback.cp].watermark
           m == Len(rollback.todo)
<1>1. /\ Root \in Tasks /\ entries[Root] \in Seq(Entries) /\ entries'[Root] \in Seq(Entries)
      /\ m \in Nat /\ w \in Nat
  BY CheckpointHas DEF Tasks, TypeOK
<1>2. Len(entries[Root]) <= Len(entries'[Root])
  <2>1. Len(entries[Root]) \in Nat /\ Len(entries'[Root]) \in Nat
        /\ 1..Len(entries[Root]) \subseteq 1..Len(entries'[Root])
    BY <1>1
  <2>2. Len(entries[Root]) = 0 \/ Len(entries[Root]) \in 1..Len(entries[Root])
    BY <2>1
  <2> QED
    BY <2>1, <2>2
<1>3. /\ m = 0 \/ w + m <= Len(entries[Root])
      /\ \A i \in 1..m : rollback.todo[i] = w + m + 1 - i
  BY DEF TodoIsRest
<1>4. m = 0 \/ w + m <= Len(entries'[Root])
  <2>1. Len(entries[Root]) \in Nat /\ Len(entries'[Root]) \in Nat
    BY <1>1
  <2> QED
    BY <1>1, <1>2, <1>3, <2>1
<1> QED
  BY <1>3, <1>4 DEF TodoIsRest, RollingBack

\* A tool neither ends nor advances a rollback, and changes no entry.
LEMMA ToolSteady ==
  ASSUME TypeOK, NEW t \in Tasks, ToolStep(t)
  PROVE  /\ rollback'.cp = rollback.cp /\ rollback'.todo = rollback.todo
         /\ rollback.late \subseteq rollback'.late
         /\ UNCHANGED <<checkpoints, older>>
         /\ loose \subseteq loose' /\ again \subseteq again'
         /\ DOMAIN entries[Root] \subseteq DOMAIN entries'[Root]
         /\ \A i \in DOMAIN entries[Root] : entries'[Root][i] = entries[Root][i]
<1> DEFINE Calm == /\ UNCHANGED <<entries, rollback, checkpoints, older, loose>>
                   /\ again \subseteq again'
<1>0. Root \in Tasks
  BY DEF Tasks
<1>1. ASSUME NEW p \in Paths, NEW text \in Texts, StartCall(t, p, text) PROVE Calm
  BY <1>1 DEF StartCall
<1>2. ASSUME NEW p \in Paths, RefusedCall(t, p) PROVE Calm
  BY <1>2 DEF RefusedCall
<1>3. ASSUME NEW p \in Paths, NEW to \in Paths, StartMove(t, p, to) PROVE Calm
  BY <1>3 DEF StartMove, ledger, history
<1>4. ASSUME ApplyFails(t) PROVE Calm
  BY <1>4 DEF ApplyFails, ledger, history
<1>5. ASSUME RecordFails(t) PROVE Calm
  BY <1>5 DEF RecordFails, Given, ledger
<1>6. ASSUME Apply(t)
      PROVE  /\ UNCHANGED <<entries, checkpoints, older>>
             /\ rollback'.cp = rollback.cp /\ rollback'.todo = rollback.todo
             /\ rollback.late \subseteq rollback'.late
             /\ loose \subseteq loose' /\ again \subseteq again'
  BY <1>0, <1>6 DEF Apply, Given, ledger, TypeOK
<1>7. ASSUME Record(t)
      PROVE  /\ UNCHANGED <<checkpoints, older, loose, again>>
             /\ rollback'.cp = rollback.cp /\ rollback'.todo = rollback.todo
             /\ rollback.late \subseteq rollback'.late
             /\ DOMAIN entries[Root] \subseteq DOMAIN entries'[Root]
             /\ \A i \in DOMAIN entries[Root] : entries'[Root][i] = entries[Root][i]
  <2>1. /\ UNCHANGED <<checkpoints, older, loose, again>>
        /\ rollback'.cp = rollback.cp /\ rollback'.todo = rollback.todo
        /\ rollback.late \subseteq rollback'.late
    BY <1>7 DEF Record, history, TypeOK
  <2>2. /\ entries[Root] \in Seq(Entries) /\ Changes(call[t]) \in Seq(Entries)
        /\ entries'[Root] \in {entries[Root], entries[Root] \o Changes(call[t])}
    BY <1>0, <1>7, ChangesTyped DEF Record, TypeOK
  <2>3. ASSUME NEW a \in Seq(Entries), NEW b \in Seq(Entries)
        PROVE  /\ DOMAIN a \subseteq DOMAIN (a \o b)
               /\ \A i \in DOMAIN a : (a \o b)[i] = a[i]
    OBVIOUS
  <2> QED
    BY <2>1, <2>2, <2>3
<1> QED
  BY <1>1, <1>2, <1>3, <1>4, <1>5, <1>6, <1>7 DEF ToolStep

\* A rollback reverts the position at the top of what is left.
LEMMA RevertsTop ==
  ASSUME TypeOK, TodoIsRest, RevertEntry
  PROVE  LET w == checkpoints[rollback.cp].watermark
             m == Len(rollback.todo)
         IN /\ m \in Nat \ {0} /\ w \in Nat /\ RollingBack
            /\ Head(rollback.todo) = w + m
            /\ Len(rollback'.todo) = m - 1
            /\ w + m \in DOMAIN entries[Root]
            /\ \A i \in 1..(m - 1) : rollback'.todo[i] = w + (m - 1) + 1 - i
<1> DEFINE w == checkpoints[rollback.cp].watermark
           m == Len(rollback.todo)
<1>1. /\ rollback.todo \in Seq(Nat) /\ rollback.todo # <<>>
      /\ rollback'.todo = Tail(rollback.todo)
  BY DEF TypeOK, RevertEntry
<1>2. /\ m \in Nat \ {0} /\ Len(rollback'.todo) = m - 1
      /\ Head(rollback.todo) = rollback.todo[1]
      /\ \A i \in 1..(m - 1) : rollback'.todo[i] = rollback.todo[i + 1]
  BY <1>1
<1>3. Head(rollback.todo) \in DOMAIN entries[Root]
  BY <1>1, RevertedTyped
<1>4. RollingBack /\ w \in Nat
  BY <1>1, CheckpointHas DEF TodoIsRest, TypeOK
<1>5. \A i \in 1..m : rollback.todo[i] = w + m + 1 - i
  BY <1>4 DEF TodoIsRest
<1> HIDE DEF w, m
<1>6. Head(rollback.todo) = w + m
  BY <1>2, <1>4, <1>5
<1>7. \A i \in 1..(m - 1) : rollback'.todo[i] = w + (m - 1) + 1 - i
  BY <1>2, <1>4, <1>5
<1> QED
  BY <1>2, <1>3, <1>4, <1>6, <1>7 DEF w, m

LEMMA NextKeepsTodo ==
  ASSUME Inv, TypeOK', TodoIsRest, [Next]_vars
  PROVE  TodoIsRest'
<1>0. TypeOK /\ Root \in Tasks
  BY DEF Inv, Tasks
<1>1. CASE \E t \in Tasks : ToolStep(t)
  BY <1>0, <1>1, ToolSteady, TodoKept
<1>2. CASE UNCHANGED <<rollback, checkpoints, entries>>
  BY <1>0, <1>2, TodoKept
<1>3. CASE TakeCheckpoint
  <2>1. UNCHANGED <<rollback, entries>>
    BY <1>3 DEF TakeCheckpoint, ledger
  <2>2. ASSUME NEW k \in DOMAIN checkpoints PROVE checkpoints'[k] = checkpoints[k]
    BY <1>0, <1>3 DEF TakeCheckpoint, TypeOK
  <2> QED
    BY <1>0, <2>1, <2>2, TodoKept DEF TypeOK
<1>4. ASSUME NEW k \in DOMAIN checkpoints, StartRollback(k) PROVE TodoIsRest'
  <2> DEFINE w == checkpoints[k].watermark
             n == Len(entries[Root])
             m == IF w < n THEN n - w ELSE 0
  <2>1. w \in Nat /\ n \in Nat /\ m \in Nat /\ k # 0
    BY <1>0, CheckpointHas DEF TypeOK
  <2>2. /\ rollback'.cp = k /\ rollback'.todo = [i \in 1..m |-> n + 1 - i]
        /\ UNCHANGED <<checkpoints, entries>>
    BY <1>4 DEF StartRollback, Since, ledger
  <2> HIDE DEF m
  <2>3. Len(rollback'.todo) = m
    BY <2>1, <2>2
  <2>4. m = 0 \/ w + m <= n
    BY <2>1 DEF m
  <2>5. ASSUME NEW i \in 1..m PROVE rollback'.todo[i] = w + m + 1 - i
    <3>1. w + m = n
      BY <2>1, <2>5 DEF m
    <3> HIDE DEF w, n
    <3> QED
      BY <2>1, <2>2, <3>1
  <2> QED
    BY <2>1, <2>2, <2>3, <2>4, <2>5 DEF TodoIsRest, RollingBack
<1>5. CASE ReadCurrent
  <2>1. rollback'.cp = rollback.cp /\ rollback'.todo = rollback.todo
        /\ UNCHANGED <<checkpoints, entries>>
    BY <1>0, <1>5 DEF ReadCurrent, ledger, TypeOK
  <2> QED
    BY <1>0, <2>1, TodoKept
<1>6. CASE RevertEntry
  <2> DEFINE w == checkpoints[rollback.cp].watermark
             m == Len(rollback.todo)
             n == Len(entries[Root])
  <2>1. /\ m \in Nat \ {0} /\ w \in Nat /\ RollingBack
        /\ Len(rollback'.todo) = m - 1
        /\ w + m \in DOMAIN entries[Root]
        /\ \A i \in 1..(m - 1) : rollback'.todo[i] = w + (m - 1) + 1 - i
    BY <1>0, <1>6, RevertsTop
  <2>2. /\ rollback'.cp = rollback.cp /\ UNCHANGED checkpoints
        /\ Reverting(Reverted) \in Entries
    BY <1>0, <1>6, RevertedTyped DEF RevertEntry, TypeOK, Reverting, Entry, Entries
  <2>3. n \in Nat /\ DOMAIN entries[Root] = 1..n /\ Len(entries'[Root]) = n + 1
    BY <1>0, <1>6, <2>2 DEF RevertEntry, TypeOK
  <2> HIDE DEF n, m, w
  <2>4. w + (m - 1) <= Len(entries'[Root])
    BY <2>1, <2>3
  <2> QED
    BY <2>1, <2>2, <2>4 DEF TodoIsRest, RollingBack, w, m
<1>7. CASE rollback' = NoRollback
  BY <1>7 DEF NoRollback, TodoIsRest, RollingBack
<1>8. CASE RollbackStep
  BY <1>4, <1>5, <1>6, <1>7, <1>8 DEF RollbackStep, RefuseRollback, FinishRollback
<1>9. CASE (\E p \in Paths, text \in Texts : UserEdit(p, text)) \/ Restart \/ UNCHANGED vars
  BY <1>2, <1>7, <1>9 DEF UserEdit, Restart, ledger, vars
<1> QED
  BY <1>1, <1>3, <1>8, <1>9 DEF Next

\* Steps during a rollback that revert nothing.
LEMMA RestKept ==
  ASSUME TypeOK, TypeOK', TodoIsRest, RestIsRestorable, RollingBack,
         rollback'.cp = rollback.cp, rollback'.todo = rollback.todo,
         rollback.late \subseteq rollback'.late,
         older' = older, loose \subseteq loose', again \subseteq again',
         checkpoints'[rollback.cp] = checkpoints[rollback.cp],
         DOMAIN entries[Root] \subseteq DOMAIN entries'[Root],
         \A i \in DOMAIN entries[Root] : entries'[Root][i] = entries[Root][i],
         \A p \in Paths \ (loose' \union again' \union rollback'.late) :
           \/ /\ disk'[p] = disk[p]
              /\ given'[rollback.cp][p] = given[rollback.cp][p]
           \/ /\ given'[rollback.cp][p] = disk'[p]
              /\ ~ MadeIn(entries'[Root], p, disk'[p]),
         \A p \in Paths : RootWrote(p)' => RootWrote(p) \/ p \in rollback'.late
  PROVE  RestIsRestorable'
<1>1. \A p \in Paths : RootWrote(p)' => p \in rollback'.late
  BY DEF RestIsRestorable
<1>2. ASSUME rollback.cp > older,
             NEW p \in Paths \ (loose' \union again' \union rollback'.late)
      PROVE  RestUndoes(p)'
  <2> DEFINE w == checkpoints[rollback.cp].watermark
             m == Len(rollback.todo)
             q == entries[Root]
             r == entries'[Root]
  <2>1. RestUndoes(p)
    BY <1>2 DEF RestIsRestorable
  <2>2. CASE given'[rollback.cp][p] = disk'[p] /\ ~ MadeIn(r, p, disk'[p])
    BY <2>2, GivenUndoes DEF RestUndoes
  <2>3. CASE disk'[p] = disk[p] /\ given'[rollback.cp][p] = given[rollback.cp][p]
    <3>1. /\ w \in Nat /\ m \in Nat /\ (m = 0 \/ w + m <= Len(q))
          /\ q \in Seq(Entries) /\ r \in Seq(Entries)
      BY CheckpointHas DEF TodoIsRest, TypeOK, Tasks
    <3>2. Of(r, p, w, w + m) = Of(q, p, w, w + m)
          /\ \A i \in Of(q, p, w, w + m) : q[i] = r[i]
      <4> HIDE DEF w, m
      <4>1. CASE m = 0
        <5>1. w + m = w /\ DOMAIN q \subseteq Nat /\ DOMAIN r \subseteq Nat
          BY <3>1, <4>1
        <5>2. Of(r, p, w, w) = {} /\ Of(q, p, w, w) = {}
          BY <3>1, <5>1 DEF Of
        <5> QED
          BY <5>1, <5>2
      <4>2. CASE w + m <= Len(q)
        <5>1. DOMAIN q = 1..Len(q) /\ Len(q) \in Nat
          BY <3>1
        <5>2. \A i \in DOMAIN r : w < i /\ i <= w + m => i \in DOMAIN q
          <6> SUFFICES ASSUME NEW i \in DOMAIN r, w < i, i <= w + m PROVE i \in DOMAIN q
            OBVIOUS
          <6>1. i \in Nat
            BY <3>1
          <6> QED
            BY <3>1, <4>2, <5>1, <6>1
        <5> QED
          BY <5>2 DEF Of
      <4> QED
        BY <3>1, <4>1, <4>2
    <3>3. Undoes(q, p, w, w + m, disk[p], given[rollback.cp][p])
      BY <2>1 DEF RestUndoes
    <3>4. Undoes(r, p, w, w + m, disk[p], given[rollback.cp][p])
      <4> HIDE DEF w, m, q, r
      <4> QED
        BY <3>2, <3>3, SameUndoes
    <3> QED
      BY <2>3, <3>4 DEF RestUndoes
  <2> QED
    BY <1>2, <2>2, <2>3
<1> QED
  BY <1>1, <1>2 DEF RestIsRestorable

\* What others write is given, unless Root had made it.
LEMMA GivenIsNotMade ==
  ASSUME TypeOK, NEW W, Given(W), entries' = entries, NEW k \in DOMAIN checkpoints,
         NEW p \in Paths \ again'
  PROVE  IF p \in W THEN /\ given'[k][p] = disk'[p]
                         /\ ~ MadeIn(entries'[Root], p, disk'[p])
         ELSE given'[k][p] = given[k][p]
<1>1. given'[k][p] = IF p \in W THEN disk'[p] ELSE given[k][p]
  BY CheckpointHas DEF Given, Keeps
<1>2. p \in W => disk'[p] \notin MadeByRoot(call'[Root], p)
  BY DEF Given
<1>3. MadeIn(entries[Root], p, disk'[p]) => disk'[p] \in MadeByRoot(call'[Root], p)
  BY DEF MadeByRoot, MadeIn, Range
<1> QED
  BY <1>1, <1>2, <1>3

LEMMA ToolKeepsRest ==
  ASSUME TypeOK, TypeOK', TodoIsRest, RestIsRestorable, RollingBack,
         NEW t \in Tasks, ToolStep(t)
  PROVE  RestIsRestorable'
<1>0. Root \in Tasks /\ rollback.cp \in DOMAIN checkpoints /\ rollback.cp \in DOMAIN given
  BY CheckpointHas DEF Tasks, TypeOK
<1>1. /\ rollback'.cp = rollback.cp /\ rollback'.todo = rollback.todo
      /\ rollback.late \subseteq rollback'.late
      /\ UNCHANGED <<checkpoints, older>>
      /\ loose \subseteq loose' /\ again \subseteq again'
      /\ DOMAIN entries[Root] \subseteq DOMAIN entries'[Root]
      /\ \A i \in DOMAIN entries[Root] : entries'[Root][i] = entries[Root][i]
  BY ToolSteady
<1> DEFINE Calm == /\ UNCHANGED <<disk, given>>
                   /\ call'[Root] = call[Root] \/ call'[Root].stage # "written"
<1>2. ASSUME Calm PROVE RestIsRestorable'
  BY <1>1, <1>2, RestKept DEF RootWrote
<1>3. ASSUME NEW p \in Paths, NEW text \in Texts, StartCall(t, p, text) PROVE Calm
  BY <1>0, <1>3 DEF StartCall, tree, TypeOK
<1>4. ASSUME NEW p \in Paths, RefusedCall(t, p) PROVE Calm
  BY <1>4 DEF RefusedCall, tree
<1>5. ASSUME NEW p \in Paths, NEW to \in Paths, StartMove(t, p, to) PROVE Calm
  BY <1>0, <1>5 DEF StartMove, tree, history, TypeOK
<1>6. ASSUME ApplyFails(t) PROVE Calm
  BY <1>0, <1>6 DEF ApplyFails, NoCall, tree, history, TypeOK
<1>7. ASSUME Apply(t) PROVE RestIsRestorable'
  <2> DEFINE c == call[t]
  <2>1. c \in [stage : {"read", "written"}, path : Paths, to : Paths,
               read : Texts, text : Texts]
    BY <1>7, CallTyped DEF Apply, TypeOK
  <2>2. /\ disk' = Effect(c) /\ Touches(c) = {c.path, c.to} /\ entries' = entries
        /\ call' = [call EXCEPT ![t].stage = "written"]
    BY <1>7, <2>1 DEF Apply, ledger, Touches
  <2>3. \A p \in Paths \ Touches(c) : disk'[p] = disk[p]
    BY <2>1, <2>2 DEF Effect, TypeOK, Trees
  <2>4. CASE t # Root
    <3>1. Given(Touches(c)) /\ call'[Root] = call[Root]
      BY <1>0, <1>7, <2>2, <2>4 DEF Apply, TypeOK
    <3>2. \A p \in Paths \ again' :
            IF p \in Touches(c) THEN /\ given'[rollback.cp][p] = disk'[p]
                                     /\ ~ MadeIn(entries'[Root], p, disk'[p])
            ELSE given'[rollback.cp][p] = given[rollback.cp][p]
      BY <1>0, <2>2, <3>1, GivenIsNotMade
    <3> QED
      BY <1>1, <2>3, <3>1, <3>2, RestKept DEF RootWrote
  <2>5. CASE t = Root
    <3>1. /\ given' = given /\ call'[Root] = [c EXCEPT !.stage = "written"]
          /\ Touches(c) \subseteq rollback'.late
      BY <1>0, <1>7, <2>2, <2>5 DEF Apply, TypeOK
    <3>2. Touches(call'[Root]) = Touches(c)
      BY <2>1, <3>1 DEF Touches
    <3> QED
      BY <1>1, <2>3, <3>1, <3>2, RestKept DEF RootWrote
  <2> QED
    BY <2>4, <2>5
<1>8. ASSUME Record(t) PROVE Calm
  BY <1>0, <1>8 DEF Record, NoCall, history, TypeOK
<1>9. ASSUME RecordFails(t) PROVE RestIsRestorable'
  <2>1. /\ UNCHANGED <<disk, entries>>
        /\ call'[Root] = call[Root] \/ call'[Root].stage # "written"
    BY <1>0, <1>9 DEF RecordFails, ledger, NoCall, TypeOK
  <2>2. CASE t # Root
    <3>1. Calm
      BY <1>9, <2>1, <2>2 DEF RecordFails
    <3> QED
      BY <1>2, <3>1
  <2>3. CASE t = Root
    <3>1. Given(Touches(call[Root]))
      BY <1>9, <2>3 DEF RecordFails
    <3>2. \A p \in Paths \ again' :
            IF p \in Touches(call[Root])
              THEN /\ given'[rollback.cp][p] = disk'[p]
                   /\ ~ MadeIn(entries'[Root], p, disk'[p])
              ELSE given'[rollback.cp][p] = given[rollback.cp][p]
      BY <1>0, <2>1, <3>1, GivenIsNotMade
    <3> QED
      BY <1>1, <2>1, <3>2, RestKept DEF RootWrote
  <2> QED
    BY <2>2, <2>3
<1> HIDE DEF Calm
<1> QED
  BY <1>2, <1>3, <1>4, <1>5, <1>6, <1>7, <1>8, <1>9 DEF ToolStep

\* A reverted entry leaves the rest to undo.
LEMMA RevertKeepsRest ==
  ASSUME Inv, TodoIsRest, RestIsRestorable, RevertEntry
  PROVE  RestIsRestorable'
<1> DEFINE w == checkpoints[rollback.cp].watermark
           m == Len(rollback.todo)
           h == w + m
           q == entries[Root]
           r == entries'[Root]
           e == Reverting(Reverted)
<1>0. TypeOK /\ Root \in Tasks /\ q \in Seq(Entries) /\ rollback.todo # <<>>
  BY DEF Inv, Tasks, TypeOK, RevertEntry
<1>1. /\ m \in Nat \ {0} /\ w \in Nat /\ RollingBack
      /\ Head(rollback.todo) = h /\ h \in DOMAIN q
      /\ Len(rollback'.todo) = m - 1
  BY <1>0, RevertsTop
<1>2. /\ Reverted = q[h] /\ q[h] \in Entries /\ q[h].path \in Paths /\ e \in Entries
  BY <1>0, <1>1, RevertedTyped DEF Reverted, Reverting, Entry, Entries
<1>3. /\ disk' = [disk EXCEPT ![q[h].path] = q[h].before]
      /\ r = Append(q, e)
      /\ loose \subseteq loose' /\ rollback'.cp = rollback.cp
      /\ rollback'.late = rollback.late
      /\ UNCHANGED <<checkpoints, call, again>>
      /\ rollback.seen # Unknown /\ rollback.seen = q[h].after
  BY <1>0, <1>2 DEF RevertEntry, CanRevert, TypeOK
<1>4. given' = given /\ older' = older
  BY DEF RevertEntry
<1> SUFFICES ASSUME rollback.cp > older,
                    NEW p \in Paths \ (loose' \union again \union rollback.late)
             PROVE  Undoes(r, p, w, w + (m - 1), disk'[p], given[rollback.cp][p])
  <2>1. \A p \in Paths : RootWrote(p)' => p \in rollback'.late
    BY <1>1, <1>3 DEF RestIsRestorable, RootWrote
  <2> QED
    BY <1>1, <1>3, <1>4, <2>1 DEF RestIsRestorable, RestUndoes
<1>5. Undoes(q, p, w, h, disk[p], given[rollback.cp][p])
  BY <1>1, <1>3 DEF RestIsRestorable, RestUndoes
<1>6. Undoes(q, p, w, h - 1, disk'[p], given[rollback.cp][p])
  <2>1. CASE p = q[h].path
    <3>1. disk[p] = q[h].after
      BY <1>2, <1>3, <2>1 DEF Inv, SeenIsCurrent
    <3>2. disk'[p] = q[h].before
      BY <1>0, <1>3, <2>1 DEF TypeOK, Trees
    <3>3. w < h
      BY <1>1
    <3> HIDE DEF h, q, w
    <3> QED
      BY <1>0, <1>1, <1>5, <2>1, <3>1, <3>2, <3>3, PopUndoes
  <2>2. CASE p # q[h].path
    <3>1. disk'[p] = disk[p]
      BY <1>0, <1>3, <2>2 DEF TypeOK, Trees
    <3>2. Of(q, p, w, h) = Of(q, p, w, h - 1)
      <4>1. h \in Nat /\ DOMAIN q \subseteq Nat
        BY <1>0, <1>1
      <4> HIDE DEF h, q, w
      <4>2. \A i \in DOMAIN q : i <= h /\ q[i].path = p => i <= h - 1
        BY <2>2, <4>1
      <4>3. \A i \in DOMAIN q : i <= h - 1 => i <= h
        BY <4>1
      <4> QED
        BY <4>2, <4>3 DEF Of
    <3> HIDE DEF h, q, w
    <3> QED
      BY <1>5, <3>1, <3>2, SameUndoes
  <2> QED
    BY <2>1, <2>2
<1>7. Undoes(r, p, w, h - 1, disk'[p], given[rollback.cp][p])
  <2>1. h - 1 \in 0..Len(q)
    BY <1>0, <1>1
  <2> HIDE DEF h, q, r, w, e
  <2> QED
    BY <1>0, <1>1, <1>2, <1>3, <1>6, <2>1, BelowUndoes
<1>8. w + (m - 1) = h - 1
  BY <1>1
<1> HIDE DEF h, w, m
<1> QED
  BY <1>7, <1>8

\* A rollback starts with all of it.
LEMMA StartHasRest ==
  ASSUME TypeOK, AllRestorable, NEW k \in DOMAIN checkpoints, StartRollback(k)
  PROVE  RestIsRestorable'
<1> DEFINE w == checkpoints[k].watermark
           q == entries[Root]
           n == Len(q)
           m == IF w < n THEN n - w ELSE 0
<1>1. w \in Nat /\ q \in Seq(Entries) /\ n \in Nat /\ m \in Nat
  BY CheckpointHas DEF TypeOK, Tasks
<1>2. /\ rollback'.cp = k /\ rollback'.todo = [i \in 1..m |-> n + 1 - i]
      /\ rollback'.late = {p \in Touches(call[Root]) : call[Root].stage = "written"}
      /\ UNCHANGED <<disk, checkpoints, older, entries, call, given, loose, again>>
  BY DEF StartRollback, Since, tree, ledger, history
<1> HIDE DEF m
<1>3. Len(rollback'.todo) = m
  BY <1>1, <1>2
<1>4. ASSUME k > older, NEW p \in Paths \ (loose \union again \union rollback'.late)
      PROVE  Undoes(q, p, w, w + m, disk[p], given[k][p])
  <2>1. Undoes(q, p, w, n, disk[p], given[k][p])
    <3>1. Restorable(k, p) /\ ~ RootWrote(p)
      BY <1>2, <1>4, RestorableIs DEF Live, RootWrote
    <3> QED
      BY <3>1 DEF Restorable, UndoesTo
  <2>2. CASE w < n
    <3>1. w + m = n
      BY <1>1, <2>2 DEF m
    <3> HIDE DEF w, n
    <3> QED
      BY <2>1, <3>1
  <2>3. CASE n <= w
    <3>1. w + m = w
      BY <1>1, <2>3 DEF m
    <3> HIDE DEF w, n, q
    <3> QED
      BY <1>1, <2>1, <2>3, <3>1, EmptyUndoes
  <2> QED
    BY <1>1, <2>2, <2>3
<1> QED
  BY <1>2, <1>3, <1>4 DEF RestIsRestorable, RestUndoes, RootWrote

LEMMA NextKeepsRest ==
  ASSUME Inv, TypeOK', AllRestorable, TodoIsRest, RestIsRestorable, [Next]_vars
  PROVE  RestIsRestorable'
<1>0. TypeOK /\ Root \in Tasks
  BY DEF Inv, Tasks
<1>1. CASE rollback'.cp = 0
  BY <1>1 DEF RestIsRestorable, RollingBack
<1>2. ASSUME NEW k \in DOMAIN checkpoints, StartRollback(k) PROVE RestIsRestorable'
  BY <1>0, <1>2, StartHasRest
<1>3. CASE RevertEntry
  BY <1>3, RevertKeepsRest
<1>4. CASE RollingBack
  <2>1. rollback.cp \in DOMAIN checkpoints /\ rollback.cp \in DOMAIN given
    BY <1>0, <1>4, CheckpointHas DEF TypeOK
  <2>2. CASE \E t \in Tasks : ToolStep(t)
    BY <1>0, <1>4, <2>2, ToolKeepsRest
  <2>3. CASE TakeCheckpoint
    <3>1. /\ UNCHANGED <<disk, entries, rollback, call, older, loose, again>>
          /\ checkpoints'[rollback.cp] = checkpoints[rollback.cp]
          /\ given'[rollback.cp] = given[rollback.cp]
      BY <1>0, <2>1, <2>3 DEF TakeCheckpoint, tree, ledger, TypeOK
    <3> QED
      BY <1>0, <1>4, <3>1, RestKept DEF RootWrote
  <2>4. CASE ReadCurrent \/ UNCHANGED vars
    <3>1. /\ UNCHANGED <<disk, entries, checkpoints, call, older, given, loose, again>>
          /\ rollback'.cp = rollback.cp /\ rollback'.todo = rollback.todo
          /\ rollback'.late = rollback.late
      BY <1>0, <2>4 DEF ReadCurrent, tree, ledger, history, vars, TypeOK
    <3> QED
      BY <1>0, <1>4, <3>1, RestKept DEF RootWrote
  <2>5. ASSUME NEW x \in Paths, NEW text \in Texts, UserEdit(x, text)
        PROVE  RestIsRestorable'
    <3>1. /\ UNCHANGED <<entries, checkpoints, call, rollback, older>>
          /\ loose \subseteq loose'
          /\ Given({x}) /\ \A p \in Paths \ {x} : disk'[p] = disk[p]
      BY <1>0, <2>5 DEF UserEdit, ledger, TypeOK, Trees
    <3>2. again \subseteq again'
      BY <3>1 DEF Given
    <3>3. \A p \in Paths \ again' :
            IF p \in {x} THEN /\ given'[rollback.cp][p] = disk'[p]
                              /\ ~ MadeIn(entries'[Root], p, disk'[p])
            ELSE given'[rollback.cp][p] = given[rollback.cp][p]
      BY <1>0, <2>1, <3>1, GivenIsNotMade
    <3> QED
      BY <1>0, <1>4, <3>1, <3>2, <3>3, RestKept DEF RootWrote
  <2>6. CASE rollback' = NoRollback
    BY <1>1, <2>6 DEF NoRollback
  <2>7. CASE RollbackStep
    BY <1>2, <1>3, <2>4, <2>6, <2>7 DEF RollbackStep, RefuseRollback, FinishRollback
  <2>8. CASE Restart
    BY <2>6, <2>8 DEF Restart
  <2> QED
    BY <2>2, <2>3, <2>4, <2>5, <2>7, <2>8 DEF Next
<1>5. CASE ~ RollingBack
  <2>1. CASE rollback'.cp = rollback.cp
    BY <1>1, <1>5, <2>1 DEF RollingBack
  <2>2. CASE \E t \in Tasks : ToolStep(t)
    BY <1>0, <2>1, <2>2, ToolSteady
  <2>3. CASE RollbackStep
    BY <1>2, <1>3, <1>5, <2>3 DEF RollbackStep, ReadCurrent, RefuseRollback, FinishRollback,
       RestIsRestorable, RollingBack, NoRollback
  <2>4. CASE Restart
    BY <1>1, <2>4 DEF Restart, NoRollback
  <2>5. CASE TakeCheckpoint \/ (\E p \in Paths, text \in Texts : UserEdit(p, text))
             \/ UNCHANGED vars
    BY <2>1, <2>5 DEF TakeCheckpoint, UserEdit, vars
  <2> QED
    BY <2>2, <2>3, <2>4, <2>5 DEF Next
<1> QED
  BY <1>4, <1>5

LEMMA RestorableHolds ==
  Spec => [](Inv /\ AllRestorable /\ TodoIsRest /\ RestIsRestorable)
<1>1. Init => AllRestorable /\ TodoIsRest /\ RestIsRestorable
  BY DEF Init, AllRestorable, Live, TodoIsRest, RestIsRestorable, RollingBack, NoRollback
<1>2. Inv => TypeOK
  BY DEF Inv
<1>3. Inv /\ TypeOK' /\ ReadIsCurrent /\ AllRestorable /\ TodoIsRest /\ RestIsRestorable
        /\ [Next]_vars
        => AllRestorable' /\ TodoIsRest' /\ RestIsRestorable'
  BY NextKeepsRestorable, NextKeepsTodo, NextKeepsRest
<1> QED
  BY <1>1, <1>2, <1>3, SurvivalHolds, TypeCorrect, PTL DEF Spec

\* A rollback to a checkpoint of the process that carries it out (one whose
\* watermark counts in the ledger the process still has), when it reports
\* success, has left every file as if the task had recorded nothing since the
\* checkpoint, whatever happened in between: calls, failing records, other
\* tasks, the user, other checkpoints and other rollbacks
\* (CheckpointStore::rollback).  Excepted are files the task itself wrote to
\* meanwhile, files changed between a read and the write that relies on it, and
\* files set back to what the task had made of them.  Of a checkpoint an earlier
\* process took nothing is claimed: RestoredExactly is false there.
THEOREM RestoresExactly == Spec => RestoredInProcess
<1>1. Inv /\ RestIsRestorable /\ [Next]_vars =>
        [Ends("restored") /\ rollback.cp > older => RestoresTree]_vars
  <2> SUFFICES ASSUME Inv, RestIsRestorable, [Next]_vars, Ends("restored"),
                      rollback.cp > older,
                      NEW p \in Paths \ (loose \union again \union rollback.late)
               PROVE  disk[p] = given[rollback.cp][p]
    BY DEF RestoresTree
  <2>0. TypeOK /\ RollingBack /\ rollback'.cp = 0 /\ answer' = "restored"
    BY DEF Inv, Ends, NoRollback
  <2>1. FinishRollback
    <3>1. rollback'.cp # rollback.cp
      BY <2>0 DEF RollingBack
    <3>2. ~ \E t \in Tasks : ToolStep(t)
      BY <2>0, <3>1, ToolSteady
    <3>3. ~ TakeCheckpoint /\ ~ (\E x \in Paths, text \in Texts : UserEdit(x, text))
          /\ ~ UNCHANGED vars
      BY <3>1 DEF TakeCheckpoint, UserEdit, vars
    <3>4. ~ Restart /\ ~ RefuseRollback
      BY <2>0 DEF Restart, RefuseRollback
    <3>5. ~ RevertEntry /\ ~ ReadCurrent /\ ~ \E k \in DOMAIN checkpoints : StartRollback(k)
      BY <2>0, <3>1 DEF RevertEntry, ReadCurrent, StartRollback, TypeOK, RollingBack
    <3> QED
      BY <3>2, <3>3, <3>4, <3>5 DEF Next, RollbackStep
  <2>2. rollback.todo = <<>> /\ rollback.cp \in DOMAIN checkpoints /\ Root \in Tasks
    BY <2>0, <2>1 DEF FinishRollback, TypeOK, Tasks
  <2> DEFINE w == checkpoints[rollback.cp].watermark
             q == entries[Root]
  <2>3. w \in Nat /\ q \in Seq(Entries) /\ w + Len(rollback.todo) = w
    BY <2>0, <2>2, CheckpointHas DEF TypeOK
  <2>4. Undoes(q, p, w, w, disk[p], given[rollback.cp][p])
    BY <2>0, <2>3 DEF RestIsRestorable, RestUndoes
  <2> HIDE DEF w, q
  <2> QED
    BY <2>3, <2>4, EmptyUndoes
<1> QED
  BY <1>1, RestorableHolds, PTL DEF Spec, RestoredInProcess

=============================================================================
