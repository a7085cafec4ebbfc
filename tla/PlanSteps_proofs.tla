-------------------------- MODULE PlanSteps_proofs --------------------------
(***************************************************************************)
(* Theorems about PlanSteps and the functions of PlanRules it rests on,    *)
(* for any plans, decisions, budgets, children, answers and kills: every   *)
(* record is well formed, a plan's work is done in order and once, and the *)
(* budgets of planning and of each step survive every kill.                *)
(*                                                                         *)
(* First what the functions return for every plan: waves, schedule order,  *)
(* parallel groups, conflict-free batches and chunks, by induction on the  *)
(* length of a sequence (Counting).  Then the journal: what an appended    *)
(* entry adds to each lookup.  Then the actions, each as one task's step   *)
(* (Becomes) or a step with a birth (Spawns), and the invariants: Shaped,  *)
(* Ordered, which says what the step or the wave in hand may rely on, and  *)
(* Budgeted, which says what has paid for the calls journaled so far.      *)
(***************************************************************************)
EXTENDS PlanSteps, SequenceTheorems, FiniteSetTheorems, TLAPS

\* A set of numbers that is not empty has a least one: what the inductions below rest on.
LEMMA LeastNumber ==
  ASSUME NEW T \in SUBSET Nat, T # {}
  PROVE  \E x \in T : \A y \in T : x <= y
<1> DEFINE R == OpToRel(<, Nat)
<1>1. IsWellFoundedOn(R, Nat)
  BY NatLessThanWellFounded
<1>2. \A x, y \in Nat : x < y => <<x, y>> \in R
  BY DEF OpToRel
<1>3. PICK x \in T : \A y \in T : ~ (<<y, x>> \in R)
  <2> HIDE DEF R
  <2> QED BY <1>1, WFMin
<1>4. \A y \in T : ~ (y < x)
  <2> HIDE DEF R
  <2> QED BY <1>2, <1>3
<1>5. QED
  BY <1>4

\* What holds at 0 and passes from each number to the next holds up to N.
LEMMA Counting ==
  ASSUME NEW N \in Nat, NEW T, 0 \in T, \A n \in 0 .. (N - 1) : n \in T => n + 1 \in T
  PROVE  \A n \in 0 .. N : n \in T
<1> DEFINE S == {n \in 0 .. N : n \notin T}
<1>1. SUFFICES ASSUME S # {} PROVE FALSE
  OBVIOUS
<1>2. S \in SUBSET Nat
  OBVIOUS
<1>3. PICK x \in S : \A y \in S : x <= y
  <2> HIDE DEF S
  <2> QED BY <1>1, <1>2, LeastNumber
<1>4. x # 0 /\ x - 1 \in 0 .. (N - 1) /\ x - 1 \notin S
  BY <1>3
<1>5. QED
  BY <1>4, <1>3

\* The function on 0 .. N with a first value and a step from one value to the next.
Steps(N, V, step) == step \in [1 .. N -> [V -> V]]
Iterates(N, V, c, step, f) ==
  f \in [0 .. N -> V] /\ f[0] = c /\ \A n \in 1 .. N : f[n] = step[n][f[n - 1]]

\* A first value and a step from each value to the next make a function: one
\* that is defined by recursion on a number exists.
LEMMA Iteration ==
  ASSUME NEW V, NEW c \in V, NEW N \in Nat, NEW step, Steps(N, V, step)
  PROVE  \E f : Iterates(N, V, c, step, f)
<1> DEFINE T == {k \in 0 .. N : \E f : Iterates(k, V, c, step, f)}
<1>1. 0 \in T
  <2> DEFINE g == [k \in 0 .. 0 |-> c]
  <2>1. g \in [0 .. 0 -> V] /\ Iterates(0, V, c, step, g)
    BY DEF Iterates
  <2>2. \E f : Iterates(0, V, c, step, f)
    <3> HIDE DEF g
    <3> QED BY <2>1
  <2>3. QED
    BY <2>2
<1>2. ASSUME NEW k \in 0 .. (N - 1), k \in T PROVE k + 1 \in T
  <2>1. PICK f : Iterates(k, V, c, step, f)
    BY <1>2
  <2> DEFINE g == [n \in 0 .. k + 1 |-> IF n = k + 1 THEN step[k + 1][f[k]] ELSE f[n]]
  <2>2. step[k + 1][f[k]] \in V
    <3>1. k + 1 \in 1 .. N /\ k \in 0 .. k
      OBVIOUS
    <3>2. QED
      BY <2>1, <3>1 DEF Iterates, Steps
  <2>3. g \in [0 .. k + 1 -> V]
    BY <2>1, <2>2 DEF Iterates
  <2>4. \A n \in 1 .. k : g[n] = f[n] /\ g[n - 1] = f[n - 1]
    OBVIOUS
  <2>5. g[k + 1] = step[k + 1][g[k]] /\ g[0] = f[0]
    OBVIOUS
  <2>6. ASSUME NEW n \in 1 .. k + 1 PROVE g[n] = step[n][g[n - 1]]
    <3>1. (n = k + 1 /\ n - 1 = k) \/ n \in 1 .. k
      OBVIOUS
    <3> HIDE DEF g
    <3>2. QED
      BY <2>1, <2>4, <2>5, <3>1 DEF Iterates
  <2>7. Iterates(k + 1, V, c, step, g)
    <3> HIDE DEF g
    <3> QED BY <2>1, <2>3, <2>5, <2>6 DEF Iterates
  <2>8. \E h : Iterates(k + 1, V, c, step, h)
    <3> HIDE DEF g
    <3> QED BY <2>7
  <2>9. QED
    BY <2>8
<1>3. \A k \in 0 .. (N - 1) : k \in T => k + 1 \in T
  BY <1>2
<1>4. \A k \in 0 .. N : k \in T
  <2> HIDE DEF T
  <2> QED BY <1>1, <1>3, Counting
<1>5. QED
  BY <1>4

-----------------------------------------------------------------------------
(* Sequences.                                                              *)

OneToOne(s) == \A i, k \in DOMAIN s : s[i] = s[k] => i = k

\* No element occurs twice, in one sequence or in two.
Apart(ss) ==
  \A a, b \in DOMAIN ss : \A i \in DOMAIN ss[a], k \in DOMAIN ss[b] :
    ss[a][i] = ss[b][k] => a = b /\ i = k

\* The function Keep is defined by.
KeptBy(seq, S, f) ==
  f = [n \in 0 .. Len(seq) |->
         IF n = 0 THEN <<>>
         ELSE IF seq[n] \in S THEN Append(f[n - 1], seq[n]) ELSE f[n - 1]]

LEMMA KeptExists ==
  ASSUME NEW X, NEW seq \in Seq(X), NEW S
  PROVE  \E f : KeptBy(seq, S, f)
<1> DEFINE N == Len(seq)
           step == [n \in 1 .. N |-> [v \in Seq(X) |-> IF seq[n] \in S THEN Append(v, seq[n]) ELSE v]]
<1>1. \A n \in 1 .. N : seq[n] \in X
  OBVIOUS
<1>2. \A n \in 1 .. N, v \in Seq(X) : Append(v, seq[n]) \in Seq(X)
  BY <1>1
<1>3. \A n \in 1 .. N : [v \in Seq(X) |-> IF seq[n] \in S THEN Append(v, seq[n]) ELSE v] \in [Seq(X) -> Seq(X)]
  BY <1>2
<1>4. Steps(N, Seq(X), step)
  BY <1>3 DEF Steps
<1>5. \A n \in 1 .. N, v \in Seq(X) : step[n][v] = IF seq[n] \in S THEN Append(v, seq[n]) ELSE v
  OBVIOUS
<1>6. N \in Nat /\ <<>> \in Seq(X)
  OBVIOUS
<1>7. PICK f : Iterates(N, Seq(X), <<>>, step, f)
  <2> HIDE DEF step, N
  <2> QED BY <1>4, <1>6, Iteration
<1>8. f \in [0 .. N -> Seq(X)] /\ f[0] = <<>> /\ \A n \in 1 .. N : f[n] = step[n][f[n - 1]]
  <2> HIDE DEF step, N
  <2> QED BY <1>7 DEF Iterates
<1>9. \A n \in 1 .. N : f[n] = IF seq[n] \in S THEN Append(f[n - 1], seq[n]) ELSE f[n - 1]
  <2> TAKE n \in 1 .. N
  <2>1. n - 1 \in 0 .. N
    BY <1>6
  <2>2. f[n - 1] \in Seq(X)
    BY <1>8, <2>1
  <2> HIDE DEF step, N
  <2>3. QED
    BY <1>5, <1>8, <2>2
<1>10. \A n \in 0 .. N : f[n] = IF n = 0 THEN <<>>
         ELSE IF seq[n] \in S THEN Append(f[n - 1], seq[n]) ELSE f[n - 1]
  <2> TAKE n \in 0 .. N
  <2>1. n = 0 \/ n \in 1 .. N
    BY <1>6
  <2>2. CASE n = 0
    BY <2>2, <1>8
  <2>3. CASE n \in 1 .. N
    <3>1. n # 0
      BY <2>3, <1>6
    <3>2. QED
      BY <2>3, <3>1, <1>9
  <2>4. QED
    BY <2>1, <2>2, <2>3
<1>11. KeptBy(seq, S, f)
  BY <1>8, <1>10 DEF KeptBy
<1>12. QED
  BY <1>11

LEMMA KeepIsKept ==
  ASSUME NEW X, NEW seq \in Seq(X), NEW S
  PROVE  \E f : KeptBy(seq, S, f) /\ Keep(seq, S) = f[Len(seq)]
<1> DEFINE g == CHOOSE f : KeptBy(seq, S, f)
<1>1. KeptBy(seq, S, g)
  BY KeptExists
<1>2. Keep(seq, S) = g[Len(seq)]
  BY DEF Keep, KeptBy
<1>3. QED
  BY <1>1, <1>2

\* What Keep keeps of a sequence without repetitions.
LEMMA KeepKeeps ==
  ASSUME NEW X, NEW seq \in Seq(X), NEW S, OneToOne(seq)
  PROVE  /\ Keep(seq, S) \in Seq(X)
         /\ ToSet(Keep(seq, S)) = ToSet(seq) \intersect S
         /\ OneToOne(Keep(seq, S))
<1>1. PICK f : KeptBy(seq, S, f) /\ Keep(seq, S) = f[Len(seq)]
  BY KeepIsKept
<1> DEFINE N == Len(seq)
           Upto(n) == {seq[m] : m \in {m \in 1 .. n : seq[m] \in S}}
           T == {n \in 0 .. N : f[n] \in Seq(X) /\ ToSet(f[n]) = Upto(n) /\ OneToOne(f[n])}
<1>2. N \in Nat /\ DOMAIN seq = 1 .. N /\ \A n \in 1 .. N : seq[n] \in X
  OBVIOUS
<1>3. f[0] = <<>> /\ \A n \in 0 .. (N - 1) :
        f[n + 1] = IF seq[n + 1] \in S THEN Append(f[n], seq[n + 1]) ELSE f[n]
  <2>1. f[0] = <<>>
    BY <1>1, <1>2 DEF KeptBy
  <2>2. ASSUME NEW n \in 0 .. (N - 1)
        PROVE  f[n + 1] = IF seq[n + 1] \in S THEN Append(f[n], seq[n + 1]) ELSE f[n]
    <3>1. n + 1 \in 0 .. N /\ n + 1 # 0 /\ (n + 1) - 1 = n
      BY <1>2
    <3>2. f[n + 1] = IF n + 1 = 0 THEN <<>>
            ELSE IF seq[n + 1] \in S THEN Append(f[(n + 1) - 1], seq[n + 1]) ELSE f[(n + 1) - 1]
      BY <1>1, <3>1 DEF KeptBy
    <3>3. QED
      BY <3>1, <3>2
  <2>3. QED
    BY <2>1, <2>2
<1>4. 0 \in T
  <2>1. <<>> \in Seq(X) /\ ToSet(<<>>) = {} /\ OneToOne(<<>>) /\ Upto(0) = {}
    BY DEF ToSet, OneToOne
  <2>2. f[0] \in Seq(X) /\ ToSet(f[0]) = Upto(0) /\ OneToOne(f[0])
    <3> HIDE DEF Upto
    <3> QED BY <1>3, <2>1
  <2>3. 0 \in 0 .. N
    BY <1>2
  <2>4. QED
    <3> HIDE DEF Upto, N
    <3> QED BY <2>2, <2>3
<1>5. ASSUME NEW n \in 0 .. (N - 1), n \in T PROVE n + 1 \in T
  <2>0. n + 1 \in 1 .. N /\ n + 1 \in 0 .. N /\ n \in Nat
    BY <1>2
  <2>1. CASE seq[n + 1] \in S
    <3>1. f[n + 1] = Append(f[n], seq[n + 1]) /\ f[n] \in Seq(X) /\ seq[n + 1] \in X
      BY <1>2, <1>3, <1>5, <2>0, <2>1
    <3>2. ToSet(Append(f[n], seq[n + 1])) = ToSet(f[n]) \union {seq[n + 1]}
      <4>1. /\ DOMAIN Append(f[n], seq[n + 1]) = 1 .. Len(f[n]) + 1
            /\ Append(f[n], seq[n + 1])[Len(f[n]) + 1] = seq[n + 1]
            /\ \A i \in 1 .. Len(f[n]) : Append(f[n], seq[n + 1])[i] = f[n][i]
            /\ DOMAIN f[n] = 1 .. Len(f[n]) /\ Len(f[n]) \in Nat
        BY <3>1
      <4>2. 1 .. Len(f[n]) + 1 = (1 .. Len(f[n])) \union {Len(f[n]) + 1}
        BY <4>1
      <4>3. QED
        BY <4>1, <4>2 DEF ToSet
    <3>3. Upto(n + 1) = Upto(n) \union {seq[n + 1]}
      <4>1. 1 .. n + 1 = (1 .. n) \union {n + 1}
        BY <2>0
      <4>2. QED
        BY <4>1, <2>1
    <3>4. seq[n + 1] \notin Upto(n)
      <4>1. \A m \in 1 .. n : m \in 1 .. N /\ m # n + 1
        BY <2>0, <1>2
      <4>2. \A m \in 1 .. n : seq[m] # seq[n + 1]
        BY <1>2, <2>0, <4>1 DEF OneToOne
      <4>3. QED
        BY <4>2
    <3>5. ToSet(f[n]) = Upto(n) /\ OneToOne(f[n])
      BY <1>5
    <3> HIDE DEF Upto, T
    <3>6. OneToOne(Append(f[n], seq[n + 1]))
      <4>1. \A i \in DOMAIN f[n] : f[n][i] # seq[n + 1]
        BY <3>4, <3>5 DEF ToSet
      <4>2. QED
        BY <4>1, <3>1, <3>5 DEF OneToOne
    <3>7. Append(f[n], seq[n + 1]) \in Seq(X)
      BY <3>1
    <3>8. f[n + 1] \in Seq(X) /\ ToSet(f[n + 1]) = Upto(n + 1) /\ OneToOne(f[n + 1])
      BY <3>1, <3>2, <3>3, <3>5, <3>6, <3>7
    <3>9. QED
      BY <3>8, <2>0 DEF T
  <2>2. CASE seq[n + 1] \notin S
    <3>1. f[n + 1] = f[n]
      BY <1>3, <2>2
    <3>2. Upto(n + 1) = Upto(n)
      <4>1. \A m : m \in 1 .. n + 1 /\ seq[m] \in S <=> m \in 1 .. n /\ seq[m] \in S
        BY <2>0, <2>2
      <4>2. QED
        BY <4>1
    <3>3. QED
      <4> HIDE DEF Upto
      <4> QED BY <3>1, <3>2, <2>0, <1>5
  <2>3. QED
    BY <2>1, <2>2
<1>6. N \in T
  <2>1. \A n \in 0 .. (N - 1) : n \in T => n + 1 \in T
    BY <1>5
  <2>2. \A n \in 0 .. N : n \in T
    <3> HIDE DEF T, N
    <3> QED BY <1>2, <1>4, <2>1, Counting
  <2>3. N \in 0 .. N
    BY <1>2
  <2>4. QED
    <3> HIDE DEF T, N
    <3> QED BY <2>2, <2>3
<1>7. f[N] \in Seq(X) /\ ToSet(f[N]) = Upto(N) /\ OneToOne(f[N])
  BY <1>6
<1>8. Upto(N) = ToSet(seq) \intersect S
  BY <1>2 DEF ToSet
<1>9. QED
  <2> HIDE DEF Upto, T
  <2> QED BY <1>1, <1>7, <1>8

\* The function FlattenSeq is defined by.
FlatBy(ss, f) ==
  f = [i \in 1 .. Len(ss) |-> IF i = 1 THEN ss[i] ELSE f[i - 1] \o ss[i]]

LEMMA FlatExists ==
  ASSUME NEW X, NEW ss \in Seq(Seq(X))
  PROVE  \E f : FlatBy(ss, f)
<1> DEFINE N == Len(ss)
           step == [n \in 1 .. N |-> [v \in Seq(X) |-> v \o ss[n]]]
<1>1. N \in Nat /\ \A n \in 1 .. N : ss[n] \in Seq(X)
  OBVIOUS
<1>2. \A n \in 1 .. N, v \in Seq(X) : v \o ss[n] \in Seq(X)
  BY <1>1
<1>3. \A n \in 1 .. N : [v \in Seq(X) |-> v \o ss[n]] \in [Seq(X) -> Seq(X)]
  BY <1>2
<1>4. Steps(N, Seq(X), step)
  BY <1>3 DEF Steps
<1>5. \A n \in 1 .. N, v \in Seq(X) : step[n][v] = v \o ss[n]
  OBVIOUS
<1>6. <<>> \in Seq(X) /\ \A s \in Seq(X) : <<>> \o s = s
  OBVIOUS
<1>7. PICK f : Iterates(N, Seq(X), <<>>, step, f)
  <2> HIDE DEF step, N
  <2> QED BY <1>1, <1>4, <1>6, Iteration
<1>8. f \in [0 .. N -> Seq(X)] /\ f[0] = <<>> /\ \A n \in 1 .. N : f[n] = step[n][f[n - 1]]
  <2> HIDE DEF step, N
  <2> QED BY <1>7 DEF Iterates
<1>9. \A n \in 1 .. N : f[n] = f[n - 1] \o ss[n]
  <2> TAKE n \in 1 .. N
  <2>1. n - 1 \in 0 .. N
    BY <1>1
  <2>2. f[n - 1] \in Seq(X)
    BY <1>8, <2>1
  <2> HIDE DEF step, N
  <2>3. QED
    BY <1>5, <1>8, <2>2
<1> DEFINE g == [i \in 1 .. N |-> f[i]]
<1>10. \A i \in 1 .. N : f[i] = IF i = 1 THEN ss[i] ELSE g[i - 1] \o ss[i]
  <2> TAKE i \in 1 .. N
  <2>1. CASE i = 1
    <3>1. f[i] = f[0] \o ss[i] /\ ss[i] \in Seq(X)
      <4>1. i - 1 = 0
        BY <2>1
      <4>a. f[i] = f[i - 1] \o ss[i]
        <5> HIDE DEF g, N, step
        <5> QED BY <1>9
      <4>2. QED
        BY <4>1, <4>a, <1>1
    <3>2. QED
      <4> HIDE DEF g, N
      <4> QED BY <3>1, <1>6, <1>8, <2>1
  <2>2. CASE i # 1
    <3>1. i - 1 \in 1 .. N
      BY <2>2, <1>1
    <3>2. g[i - 1] = f[i - 1]
      BY <3>1
    <3>3. QED
      <4> HIDE DEF g, N
      <4> QED BY <2>2, <3>2, <1>9
  <2>3. QED
    BY <2>1, <2>2
<1>11. g = [i \in 1 .. N |-> IF i = 1 THEN ss[i] ELSE g[i - 1] \o ss[i]]
  BY <1>10
<1>12. FlatBy(ss, g)
  <2> HIDE DEF g
  <2> QED BY <1>11 DEF FlatBy
<1>13. QED
  <2> HIDE DEF g
  <2> QED BY <1>12

LEMMA FlattenIsFlat ==
  ASSUME NEW X, NEW ss \in Seq(Seq(X)), Len(ss) # 0
  PROVE  \E f : FlatBy(ss, f) /\ FlattenSeq(ss) = f[Len(ss)]
<1> DEFINE g == CHOOSE f : FlatBy(ss, f)
<1>1. FlatBy(ss, g)
  BY FlatExists
<1>2. FlattenSeq(ss) = g[Len(ss)]
  BY DEF FlattenSeq, FlatBy
<1>3. QED
  BY <1>1, <1>2

\* In s are the elements of the first n sequences of ss, each once, in order.
Flattens(ss, n, s) ==
  /\ OneToOne(s)
  /\ ToSet(s) = UNION {ToSet(ss[a]) : a \in 1 .. n}
  /\ \A a, b \in 1 .. n : a < b =>
       \A x, y \in DOMAIN s : s[x] \in ToSet(ss[a]) /\ s[y] \in ToSet(ss[b]) => x < y

LEMMA OneMoreFlattened ==
  ASSUME NEW X, NEW ss \in Seq(Seq(X)), Apart(ss), NEW n \in 1 .. Len(ss) - 1,
         NEW s \in Seq(X), Flattens(ss, n, s)
  PROVE  Flattens(ss, n + 1, s \o ss[n + 1])
<1>1. /\ n + 1 \in 1 .. Len(ss) /\ DOMAIN ss = 1 .. Len(ss) /\ n \in Nat
      /\ 1 .. n + 1 = (1 .. n) \union {n + 1}
      /\ \A a \in 1 .. n : a \in 1 .. Len(ss) /\ a # n + 1 /\ a < n + 1
  OBVIOUS
<1> DEFINE t == ss[n + 1]  r == s \o t
<1>2. t \in Seq(X) /\ r \in Seq(X)
  BY <1>1
<1>3. /\ DOMAIN s = 1 .. Len(s) /\ Len(s) \in Nat /\ DOMAIN t = 1 .. Len(t) /\ Len(t) \in Nat
      /\ DOMAIN r = 1 .. Len(s) + Len(t)
      /\ \A x \in DOMAIN r : IF x <= Len(s) THEN x \in DOMAIN s /\ r[x] = s[x]
                             ELSE x - Len(s) \in DOMAIN t /\ r[x] = t[x - Len(s)]
      /\ \A x \in DOMAIN s : x \in DOMAIN r /\ r[x] = s[x]
      /\ \A x \in DOMAIN t : Len(s) + x \in DOMAIN r /\ r[Len(s) + x] = t[x]
  <2> HIDE DEF t
  <2> QED BY <1>2
<1>4. \A a \in 1 .. n : ToSet(ss[a]) \intersect ToSet(t) = {}
  <2> SUFFICES ASSUME NEW a \in 1 .. n, NEW i \in DOMAIN ss[a], NEW k \in DOMAIN t, ss[a][i] = t[k]
               PROVE  FALSE
    BY DEF ToSet
  <2>1. a \in DOMAIN ss /\ n + 1 \in DOMAIN ss /\ a # n + 1
    BY <1>1
  <2>2. QED
    BY <2>1 DEF Apart
<1>5. OneToOne(t)
  <2>1. n + 1 \in DOMAIN ss
    BY <1>1
  <2>2. QED
    BY <2>1 DEF Apart, OneToOne
<1>6. \A i \in DOMAIN s, k \in DOMAIN t : s[i] # t[k]
  <2> TAKE i \in DOMAIN s, k \in DOMAIN t
  <2>1. s[i] \in ToSet(s) /\ t[k] \in ToSet(t)
    BY DEF ToSet
  <2>2. PICK a \in 1 .. n : s[i] \in ToSet(ss[a])
    <3>1. s[i] \in UNION {ToSet(ss[a]) : a \in 1 .. n}
      BY <2>1 DEF Flattens
    <3>2. QED
      BY <3>1
  <2> HIDE DEF t
  <2>3. QED
    BY <1>4, <2>1, <2>2
<1> HIDE DEF t, r
<1>7. ToSet(r) = ToSet(s) \union ToSet(t)
  <2>1. ASSUME NEW x \in DOMAIN r PROVE r[x] \in ToSet(s) \union ToSet(t)
    BY <1>3 DEF ToSet
  <2>2. ASSUME NEW x \in DOMAIN s PROVE s[x] \in ToSet(r)
    BY <1>3 DEF ToSet
  <2>3. ASSUME NEW x \in DOMAIN t PROVE t[x] \in ToSet(r)
    <3>1. Len(s) + x \in DOMAIN r /\ r[Len(s) + x] = t[x]
      BY <1>3
    <3>2. QED
      BY <3>1 DEF ToSet
  <2>4. ToSet(r) \subseteq ToSet(s) \union ToSet(t)
    BY <2>1 DEF ToSet
  <2>5. ToSet(s) \subseteq ToSet(r) /\ ToSet(t) \subseteq ToSet(r)
    <3> DEFINE R == ToSet(r)
    <3>1. \A x \in DOMAIN s : s[x] \in R
      BY <2>2
    <3>2. \A x \in DOMAIN t : t[x] \in R
      BY <2>3
    <3> HIDE DEF R
    <3>3. ToSet(s) \subseteq R /\ ToSet(t) \subseteq R
      BY <3>1, <3>2 DEF ToSet
    <3>4. QED
      BY <3>3 DEF R
  <2>6. QED
    BY <2>4, <2>5
<1>8. ToSet(r) = UNION {ToSet(ss[a]) : a \in 1 .. n + 1}
  <2>1. UNION {ToSet(ss[a]) : a \in 1 .. n + 1}
          = (UNION {ToSet(ss[a]) : a \in 1 .. n}) \union ToSet(ss[n + 1])
    <3>1. \A a : a \in 1 .. n + 1 <=> a \in 1 .. n \/ a = n + 1
      BY <1>1
    <3>2. ASSUME NEW v
          PROVE  v \in UNION {ToSet(ss[a]) : a \in 1 .. n + 1}
                   <=> v \in (UNION {ToSet(ss[a]) : a \in 1 .. n}) \union ToSet(ss[n + 1])
      <4>1. v \in UNION {ToSet(ss[a]) : a \in 1 .. n + 1} <=> \E a \in 1 .. n + 1 : v \in ToSet(ss[a])
        OBVIOUS
      <4>2. v \in UNION {ToSet(ss[a]) : a \in 1 .. n} <=> \E a \in 1 .. n : v \in ToSet(ss[a])
        OBVIOUS
      <4>3. (\E a \in 1 .. n + 1 : v \in ToSet(ss[a]))
              <=> (\E a \in 1 .. n : v \in ToSet(ss[a])) \/ v \in ToSet(ss[n + 1])
        BY <3>1
      <4>4. QED
        BY <4>1, <4>2, <4>3
    <3>3. QED
      BY <3>2
  <2>2. QED
    BY <2>1, <1>7 DEF Flattens, t
<1>9. OneToOne(r)
  <2> SUFFICES ASSUME NEW x \in DOMAIN r, NEW y \in DOMAIN r, r[x] = r[y] PROVE x = y
    BY DEF OneToOne
  <2>0. x \in Nat /\ y \in Nat
    BY <1>3
  <2>1. CASE x <= Len(s) /\ y <= Len(s)
    BY <2>1, <1>3 DEF Flattens, OneToOne
  <2>2. CASE x <= Len(s) /\ ~(y <= Len(s))
    BY <2>2, <1>3, <1>6
  <2>3. CASE ~(x <= Len(s)) /\ y <= Len(s)
    BY <2>3, <1>3, <1>6
  <2>4. CASE ~(x <= Len(s)) /\ ~(y <= Len(s))
    <3>1. x - Len(s) = y - Len(s)
      BY <2>4, <1>3, <1>5 DEF OneToOne
    <3>2. QED
      BY <3>1, <2>0, <1>3
  <2>5. QED
    BY <2>1, <2>2, <2>3, <2>4
<1>10. ASSUME NEW a \in 1 .. n + 1, NEW b \in 1 .. n + 1, a < b,
              NEW x \in DOMAIN r, NEW y \in DOMAIN r,
              r[x] \in ToSet(ss[a]), r[y] \in ToSet(ss[b])
       PROVE  x < y
  <2>0. x \in Nat /\ y \in Nat /\ a \in 1 .. n
    BY <1>3, <1>1, <1>10
  <2>1. r[x] \notin ToSet(t)
    BY <1>4, <1>10, <2>0
  <2>2. x <= Len(s) /\ x \in DOMAIN s /\ r[x] = s[x]
    <3>1. x <= Len(s)
      <4> SUFFICES ASSUME ~(x <= Len(s)) PROVE FALSE
        OBVIOUS
      <4>1. x - Len(s) \in DOMAIN t /\ r[x] = t[x - Len(s)]
        BY <1>3
      <4>2. QED
        BY <4>1, <2>1 DEF ToSet
    <3>2. QED
      BY <3>1, <1>3
  <2>3. CASE y <= Len(s)
    <3>1. y \in DOMAIN s /\ r[y] = s[y]
      BY <2>3, <1>3
    <3>2. CASE b = n + 1
      BY <3>2, <3>1, <1>10, <1>6 DEF t, ToSet
    <3>3. CASE b \in 1 .. n
      BY <3>3, <3>1, <2>2, <2>0, <1>10 DEF Flattens
    <3>4. QED
      BY <3>2, <3>3, <1>1
  <2>4. CASE ~(y <= Len(s))
    BY <2>4, <2>2, <2>0, <1>3
  <2>5. QED
    BY <2>3, <2>4
<1>11. QED
  <2>1. \A a, b \in 1 .. n + 1 : a < b =>
          \A x, y \in DOMAIN r : r[x] \in ToSet(ss[a]) /\ r[y] \in ToSet(ss[b]) => x < y
    BY <1>10
  <2>2. Flattens(ss, n + 1, r)
    BY <1>8, <1>9, <2>1 DEF Flattens
  <2>3. QED
    BY <2>2 DEF r, t

\* What FlattenSeq makes of sequences without repetitions.
LEMMA FlattenFlattens ==
  ASSUME NEW X, NEW ss \in Seq(Seq(X)), Apart(ss)
  PROVE  FlattenSeq(ss) \in Seq(X) /\ Flattens(ss, Len(ss), FlattenSeq(ss))
<1>1. CASE Len(ss) = 0
  <2>1. ss = <<>>
    BY <1>1
  <2>2. FlattenSeq(ss) = <<>>
    BY <1>1, <2>1 DEF FlattenSeq
  <2>3. Flattens(ss, Len(ss), <<>>)
    BY <1>1 DEF Flattens, OneToOne, ToSet
  <2>4. QED
    BY <2>2, <2>3
<1>2. CASE Len(ss) # 0
  <2>1. PICK f : FlatBy(ss, f) /\ FlattenSeq(ss) = f[Len(ss)]
    BY <1>2, FlattenIsFlat
  <2> DEFINE N == Len(ss) - 1
             T == {n \in 0 .. N : f[n + 1] \in Seq(X) /\ Flattens(ss, n + 1, f[n + 1])}
  <2>2. /\ N \in Nat /\ \A n \in 1 .. Len(ss) : ss[n] \in Seq(X)
        /\ 1 \in 1 .. Len(ss) /\ 1 \in DOMAIN ss /\ N + 1 = Len(ss)
    BY <1>2
  <2>3. f[1] = ss[1] /\ \A n \in 1 .. Len(ss) : n # 1 => f[n] = f[n - 1] \o ss[n]
    BY <2>1, <2>2 DEF FlatBy
  <2>4. 0 \in T
    <3>1. OneToOne(ss[1])
      BY <2>2 DEF Apart, OneToOne
    <3>2. Flattens(ss, 1, ss[1])
      BY <3>1 DEF Flattens
    <3>3. QED
      BY <3>2, <2>2, <2>3
  <2>5. ASSUME NEW n \in 0 .. (N - 1), n \in T PROVE n + 1 \in T
    <3>1. n + 1 \in 1 .. Len(ss) - 1 /\ n + 2 \in 1 .. Len(ss) /\ n + 2 # 1 /\ (n + 2) - 1 = n + 1
          /\ n + 1 \in 0 .. N /\ (n + 1) + 1 = n + 2
      BY <2>2
    <3>2. f[n + 2] = f[n + 1] \o ss[n + 2]
      BY <3>1, <2>3
    <3>3. f[n + 1] \in Seq(X) /\ Flattens(ss, n + 1, f[n + 1]) /\ ss[n + 2] \in Seq(X)
      BY <2>5, <2>2, <3>1
    <3>4. Flattens(ss, n + 2, f[n + 1] \o ss[n + 2])
      BY <3>1, <3>3, OneMoreFlattened
    <3>5. f[n + 1] \o ss[n + 2] \in Seq(X)
      BY <3>3
    <3>6. f[(n + 1) + 1] \in Seq(X) /\ Flattens(ss, (n + 1) + 1, f[(n + 1) + 1])
      BY <3>1, <3>2, <3>4, <3>5
    <3>7. QED
      BY <3>1, <3>6
  <2>6. N \in T
    <3>1. \A n \in 0 .. (N - 1) : n \in T => n + 1 \in T
      BY <2>5
    <3>2. \A n \in 0 .. N : n \in T
      <4> HIDE DEF T, N
      <4> QED BY <2>2, <2>4, <3>1, Counting
    <3>3. N \in 0 .. N
      BY <2>2
    <3>4. QED
      <4> HIDE DEF T, N
      <4> QED BY <3>2, <3>3
  <2>7. f[N + 1] \in Seq(X) /\ Flattens(ss, N + 1, f[N + 1])
    BY <2>6
  <2>8. QED
    <3> HIDE DEF T, N
    <3> QED BY <2>1, <2>2, <2>7
<1>3. QED
  BY <1>1, <1>2

-----------------------------------------------------------------------------
(* Dependency waves.                                                       *)

UniqueIds(p) == \A i, k \in DOMAIN p.steps : p.steps[i].id = p.steps[k].id => i = k

\* What Validate leaves of a plan.
LEMMA ValidPlan ==
  ASSUME NEW p \in ExecutionPlan, NEW m \in BOOLEAN, Validate(p, m) = {}
  PROVE  /\ UniqueIds(p) /\ ~FindCycle(p)
         /\ \A i \in DOMAIN p.steps : p.steps[i].deps \subseteq StepIds(p)
<1>0. p.steps # <<>> /\ p.steps \in Seq(PlanStep)
  BY DEF Validate, ExecutionPlan
<1> DEFINE A == {i \in DOMAIN p.steps : \E k \in 1..(i - 1) : p.steps[k].id = p.steps[i].id}
           B == {i \in DOMAIN p.steps : ~(p.steps[i].deps \subseteq StepIds(p))}
<1>1. A = {} /\ B = {} /\ ~FindCycle(p)
  <2>1. {"duplicate_step_id" : i \in A} = {} /\ {"unknown_dependency" : i \in B} = {}
        /\ (IF FindCycle(p) THEN {"cyclic_dependency"} ELSE {}) = {}
    <3> HIDE DEF A, B
    <3>1. ASSUME NEW x, x \in {"duplicate_step_id" : i \in A} PROVE FALSE
      <4>1. x \in Validate(p, m)
        BY <1>0, <3>1 DEF Validate, A
      <4>2. QED
        BY <4>1
    <3>2. ASSUME NEW x, x \in {"unknown_dependency" : i \in B} PROVE FALSE
      <4>1. x \in Validate(p, m)
        BY <1>0, <3>2 DEF Validate, B
      <4>2. QED
        BY <4>1
    <3>3. ASSUME NEW x, x \in (IF FindCycle(p) THEN {"cyclic_dependency"} ELSE {}) PROVE FALSE
      <4>1. x \in Validate(p, m)
        BY <1>0, <3>3 DEF Validate
      <4>2. QED
        BY <4>1
    <3>4. QED
      BY <3>1, <3>2, <3>3
  <2>2. QED
    <3> HIDE DEF A, B
    <3>1. ASSUME NEW i \in A PROVE FALSE
      <4>1. "duplicate_step_id" \in {"duplicate_step_id" : k \in A}
        OBVIOUS
      <4>2. QED
        BY <4>1, <2>1
    <3>2. ASSUME NEW i \in B PROVE FALSE
      <4>1. "unknown_dependency" \in {"unknown_dependency" : k \in B}
        OBVIOUS
      <4>2. QED
        BY <4>1, <2>1
    <3>3. ~FindCycle(p)
      BY <2>1
    <3>4. QED
      BY <3>1, <3>2, <3>3
<1>2. ASSUME NEW i \in DOMAIN p.steps, NEW k \in DOMAIN p.steps, p.steps[i].id = p.steps[k].id
      PROVE  i = k
  <2>1. i \in Nat /\ k \in Nat /\ i >= 1 /\ k >= 1
    BY <1>0
  <2>2. ~(k < i)
    <3> SUFFICES ASSUME k < i PROVE FALSE
      OBVIOUS
    <3>1. k \in 1 .. (i - 1)
      BY <2>1
    <3>2. i \in A
      BY <3>1, <1>2
    <3>3. QED
      BY <3>2, <1>1
  <2>3. ~(i < k)
    <3> SUFFICES ASSUME i < k PROVE FALSE
      OBVIOUS
    <3>1. i \in 1 .. (k - 1)
      BY <2>1
    <3>2. k \in A
      BY <3>1, <1>2
    <3>3. QED
      BY <3>2, <1>1
  <2>4. QED
    BY <2>1, <2>2, <2>3
<1>3. \A i \in DOMAIN p.steps : p.steps[i].deps \subseteq StepIds(p)
  BY <1>1
<1>4. QED
  BY <1>1, <1>2, <1>3 DEF UniqueIds

\* Where names are unique, both ways to look a step up find the one of that name.
LEMMA StepFound ==
  ASSUME NEW p \in ExecutionPlan, UniqueIds(p), NEW id \in StepIds(p)
  PROVE  \E i \in DOMAIN p.steps :
           /\ p.steps[i].id = id /\ StepOf(p, id) = p.steps[i]
           /\ Adjacency(p)[id] = p.steps[i].deps \intersect StepIds(p)
<1>1. PICK i \in DOMAIN p.steps : p.steps[i].id = id
  BY DEF StepIds
<1>0. p.steps \in Seq(PlanStep) /\ i \in Nat
  BY DEF ExecutionPlan
<1>2. \A k \in DOMAIN p.steps : p.steps[k].id = id => k = i
  BY <1>1 DEF UniqueIds
<1> DEFINE a == CHOOSE x \in DOMAIN p.steps :
               /\ p.steps[x].id = id
               /\ \A k \in DOMAIN p.steps : p.steps[k].id = id => x <= k
           b == CHOOSE x \in DOMAIN p.steps :
               /\ p.steps[x].id = id
               /\ \A k \in DOMAIN p.steps : p.steps[k].id = id => k <= x
<1>3. a = i /\ b = i
  <2>1. \A k \in DOMAIN p.steps : p.steps[k].id = id => i <= k /\ k <= i
    BY <1>0, <1>2
  <2>2. a \in DOMAIN p.steps /\ p.steps[a].id = id
    BY <1>1, <2>1
  <2>3. b \in DOMAIN p.steps /\ p.steps[b].id = id
    BY <1>1, <2>1
  <2>4. QED
    <3> HIDE DEF a, b
    <3> QED BY <1>2, <2>2, <2>3
<1>4. StepOf(p, id) = p.steps[a]
  BY DEF StepOf
<1>5. Adjacency(p)[id] = p.steps[b].deps \intersect StepIds(p)
  BY DEF Adjacency
<1>6. QED
  <2> HIDE DEF a, b
  <2> QED BY <1>1, <1>3, <1>4, <1>5

\* What n waves leave.
LeftBy(p, L) ==
  L = [n \in 0 .. Len(p.steps) |->
         IF n = 0 THEN StepIds(p) ELSE L[n - 1] \ Ready(p, L[n - 1])]

LEMMA LeftExists ==
  ASSUME NEW p \in ExecutionPlan
  PROVE  \E L : LeftBy(p, L)
<1> DEFINE N == Len(p.steps)
           V == SUBSET StepIds(p)
           step == [n \in 1 .. N |-> [v \in V |-> v \ Ready(p, v)]]
<1>0. N \in Nat
  BY DEF ExecutionPlan
<1>1. \A v \in V : v \ Ready(p, v) \in V
  OBVIOUS
<1>2. [v \in V |-> v \ Ready(p, v)] \in [V -> V]
  BY <1>1
<1>3. Steps(N, V, step)
  BY <1>2 DEF Steps
<1>4. \A n \in 1 .. N, v \in V : step[n][v] = v \ Ready(p, v)
  OBVIOUS
<1>5. StepIds(p) \in V
  OBVIOUS
<1>6. PICK L : Iterates(N, V, StepIds(p), step, L)
  <2> HIDE DEF step, N, V
  <2> QED BY <1>0, <1>3, <1>5, Iteration
<1>7. L \in [0 .. N -> V] /\ L[0] = StepIds(p) /\ \A n \in 1 .. N : L[n] = step[n][L[n - 1]]
  <2> HIDE DEF step, N, V
  <2> QED BY <1>6 DEF Iterates
<1>8. \A n \in 0 .. N : L[n] = IF n = 0 THEN StepIds(p) ELSE L[n - 1] \ Ready(p, L[n - 1])
  <2> TAKE n \in 0 .. N
  <2>1. CASE n = 0
    BY <2>1, <1>7
  <2>2. CASE n # 0
    <3>1. n \in 1 .. N /\ n - 1 \in 0 .. N
      BY <2>2, <1>0
    <3>2. L[n - 1] \in V /\ L[n] = step[n][L[n - 1]]
      <4> HIDE DEF step, N, V
      <4> QED BY <3>1, <1>7
    <3>3. QED
      <4> HIDE DEF step, N, V
      <4> QED BY <2>2, <3>1, <3>2, <1>4
  <2>3. QED
    BY <2>1, <2>2
<1>9. LeftBy(p, L)
  BY <1>7, <1>8 DEF LeftBy
<1>10. QED
  BY <1>9

\* A set of numbers in which each is preceded by all smaller ones.
LEMMA FirstNumbers ==
  ASSUME NEW N \in Nat, NEW R \in SUBSET (1 .. N), \A n \in R : n > 1 => n - 1 \in R
  PROVE  \E k \in 0 .. N : R = 1 .. k
<1> DEFINE S == {n \in 1 .. N + 1 : n \notin R}
<1>1. S \in SUBSET Nat /\ N + 1 \in S
  OBVIOUS
<1>2. PICK m \in S : \A x \in S : m <= x
  <2> HIDE DEF S
  <2> QED BY <1>1, LeastNumber
<1>3. m \in 1 .. N + 1 /\ m \notin R /\ m - 1 \in 0 .. N
  BY <1>2
<1>4. \A x \in 1 .. m - 1 : x \in R
  BY <1>2, <1>3
<1> DEFINE B == {x \in R : x > m}
<1>5. B = {}
  <2> SUFFICES ASSUME B # {} PROVE FALSE
    OBVIOUS
  <2>1. B \in SUBSET Nat
    <3>1. \A x \in R : x \in Nat
      OBVIOUS
    <3>2. QED
      BY <3>1
  <2>2. PICK x \in B : \A y \in B : x <= y
    <3> HIDE DEF B
    <3> QED BY <2>1, LeastNumber
  <2>3. x > 1 /\ x - 1 \in R /\ x - 1 # m /\ ~(x - 1 > m)
    BY <2>2, <1>3
  <2>4. QED
    BY <2>2, <2>3, <1>3
<1>6. R = 1 .. m - 1
  <2>1. ASSUME NEW x \in R PROVE x \in 1 .. m - 1
    <3>1. x \in 1 .. N /\ ~(x > m) /\ x # m
      BY <1>3, <1>5
    <3>2. QED
      BY <3>1, <1>3
  <2>2. QED
    BY <1>4, <2>1
<1>7. QED
  BY <1>3, <1>6

WaveNumbers(p, L) == {n \in 1 .. Len(p.steps) : Ready(p, L[n - 1]) # {}}

LEMMA WavesAreLeft ==
  ASSUME NEW p \in ExecutionPlan
  PROVE  \E L : /\ LeftBy(p, L)
                /\ TopologicalWaves(p) = [n \in WaveNumbers(p, L) |-> InOrder(p, Ready(p, L[n - 1]))]
<1> DEFINE g == CHOOSE L : LeftBy(p, L)
<1>1. LeftBy(p, g)
  BY LeftExists
<1>2. TopologicalWaves(p) = [n \in WaveNumbers(p, g) |-> InOrder(p, Ready(p, g[n - 1]))]
  BY DEF TopologicalWaves, LeftBy, WaveNumbers
<1>3. QED
  <2> HIDE DEF g
  <2> QED BY <1>1, <1>2

\* What n waves leave shrinks from wave to wave, by what the waves hold.
LEMMA LeftShrinks ==
  ASSUME NEW p \in ExecutionPlan, NEW L, LeftBy(p, L)
  PROVE  /\ \A n \in 0 .. Len(p.steps) : L[n] \subseteq StepIds(p)
         /\ \A n \in 1 .. Len(p.steps) : L[n] = L[n - 1] \ Ready(p, L[n - 1])
         /\ \A a, b \in 1 .. Len(p.steps) : a < b =>
              Ready(p, L[a - 1]) \intersect Ready(p, L[b - 1]) = {}
         /\ \A n \in 0 .. Len(p.steps) : \A id \in StepIds(p) \ L[n] :
              \E a \in 1 .. n : id \in Ready(p, L[a - 1])
<1> DEFINE N == Len(p.steps)
<1>0. N \in Nat
  BY DEF ExecutionPlan
<1>1. L[0] = StepIds(p)
  BY <1>0 DEF LeftBy
<1>2. \A n \in 1 .. N : n - 1 \in 0 .. N /\ L[n] = L[n - 1] \ Ready(p, L[n - 1])
  <2> TAKE n \in 1 .. N
  <2>1. n \in 0 .. N /\ n # 0 /\ n - 1 \in 0 .. N
    BY <1>0
  <2>2. L[n] = IF n = 0 THEN StepIds(p) ELSE L[n - 1] \ Ready(p, L[n - 1])
    BY <2>1 DEF LeftBy
  <2>3. QED
    BY <2>1, <2>2
<1> HIDE DEF N
<1>3. \A n \in 0 .. N : L[n] \subseteq StepIds(p)
  <2> DEFINE T == {n \in 0 .. N : L[n] \subseteq StepIds(p)}
  <2>1. 0 \in T
    BY <1>0, <1>1
  <2>2. ASSUME NEW n \in 0 .. (N - 1), n \in T PROVE n + 1 \in T
    <3>1. n + 1 \in 1 .. N /\ n + 1 \in 0 .. N /\ (n + 1) - 1 = n
      BY <1>0
    <3>2. L[n + 1] \subseteq L[n]
      BY <1>2, <3>1
    <3>3. QED
      BY <3>1, <3>2, <2>2
  <2>3. \A n \in 0 .. N : n \in T
    <3>1. \A n \in 0 .. (N - 1) : n \in T => n + 1 \in T
      BY <2>2
    <3> HIDE DEF T
    <3>2. QED
      BY <1>0, <2>1, <3>1, Counting
  <2>4. QED
    BY <2>3
<1>4. \A n \in 0 .. N : \A id \in StepIds(p) \ L[n] : \E a \in 1 .. n : id \in Ready(p, L[a - 1])
  <2> DEFINE P(n) == \A id \in StepIds(p) \ L[n] : \E a \in 1 .. n : id \in Ready(p, L[a - 1])
             T == {n \in 0 .. N : P(n)}
  <2>1. 0 \in T
    BY <1>0, <1>1
  <2>2. ASSUME NEW n \in 0 .. (N - 1), n \in T PROVE n + 1 \in T
    <3>1. n + 1 \in 1 .. N /\ n + 1 \in 0 .. N /\ (n + 1) - 1 = n /\ n + 1 \in 1 .. n + 1
          /\ \A a \in 1 .. n : a \in 1 .. n + 1
      BY <1>0
    <3>2. L[n + 1] = L[n] \ Ready(p, L[n])
      BY <1>2, <3>1
    <3>3. ASSUME NEW id \in StepIds(p) \ L[n + 1] PROVE \E a \in 1 .. n + 1 : id \in Ready(p, L[a - 1])
      <4>1. CASE id \in L[n]
        <5>1. id \in Ready(p, L[(n + 1) - 1])
          BY <4>1, <3>1, <3>2, <3>3
        <5>2. QED
          BY <5>1, <3>1
      <4>2. CASE id \notin L[n]
        <5>1. PICK a \in 1 .. n : id \in Ready(p, L[a - 1])
          BY <4>2, <3>3, <2>2
        <5>2. QED
          BY <5>1, <3>1
      <4>3. QED
        BY <4>1, <4>2
    <3>4. P(n + 1)
      BY <3>3
    <3>5. QED
      <4> HIDE DEF P
      <4> QED BY <3>1, <3>4
  <2>3. \A n \in 0 .. N : n \in T
    <3>1. \A n \in 0 .. (N - 1) : n \in T => n + 1 \in T
      BY <2>2
    <3> HIDE DEF T
    <3>2. QED
      BY <1>0, <2>1, <3>1, Counting
  <2>4. QED
    BY <2>3
<1>5. ASSUME NEW a \in 1 .. N, NEW b \in 1 .. N, a < b
      PROVE  Ready(p, L[a - 1]) \intersect Ready(p, L[b - 1]) = {}
  <2> DEFINE R == Ready(p, L[a - 1])
             T == {d \in 0 .. N : a + d <= N => R \intersect L[a + d] = {}}
  <2>0. a \in Nat /\ b \in Nat /\ a >= 1 /\ b <= N
    BY <1>0
  <2>1. 0 \in T
    <3>1. L[a] = L[a - 1] \ R
      BY <1>2
    <3> HIDE DEF R
    <3>2. a + 0 = a /\ 0 \in 0 .. N
      BY <2>0, <1>0
    <3>3. R \intersect L[a] = {}
      BY <3>1
    <3>4. QED
      BY <3>2, <3>3
  <2>2. ASSUME NEW d \in 0 .. (N - 1), d \in T PROVE d + 1 \in T
    <3> HIDE DEF R
    <3>0. d + 1 \in 0 .. N
      BY <1>0
    <3>1. SUFFICES ASSUME a + (d + 1) <= N PROVE R \intersect L[a + (d + 1)] = {}
      BY <3>0
    <3>2. a + (d + 1) \in 1 .. N /\ (a + (d + 1)) - 1 = a + d /\ a + d <= N
      BY <3>1, <2>0, <1>0
    <3>3. L[a + (d + 1)] \subseteq L[a + d]
      BY <3>2, <1>2
    <3>4. R \intersect L[a + d] = {}
      BY <2>2, <3>2
    <3>5. QED
      BY <3>3, <3>4
  <2>3. \A d \in 0 .. N : d \in T
    <3>1. \A d \in 0 .. (N - 1) : d \in T => d + 1 \in T
      BY <2>2
    <3> HIDE DEF T
    <3>2. QED
      BY <1>0, <2>1, <3>1, Counting
  <2>4. (b - 1) - a \in 0 .. N /\ a + ((b - 1) - a) = b - 1 /\ b - 1 <= N
    BY <2>0, <1>5, <1>0
  <2>5. R \intersect L[b - 1] = {}
    <3>1. (b - 1) - a \in T
      BY <2>3, <2>4
    <3> HIDE DEF R
    <3>2. QED
      BY <3>1, <2>4
  <2>6. Ready(p, L[b - 1]) \subseteq L[b - 1]
    BY DEF Ready
  <2>7. QED
    BY <2>5, <2>6
<1>6. QED
  <2>1. /\ \A n \in 0 .. N : L[n] \subseteq StepIds(p)
        /\ \A n \in 1 .. N : L[n] = L[n - 1] \ Ready(p, L[n - 1])
        /\ \A a, b \in 1 .. N : a < b => Ready(p, L[a - 1]) \intersect Ready(p, L[b - 1]) = {}
        /\ \A n \in 0 .. N : \A id \in StepIds(p) \ L[n] : \E a \in 1 .. n : id \in Ready(p, L[a - 1])
    BY <1>2, <1>3, <1>4, <1>5
  <2>2. QED
    BY <2>1 DEF N

\* The waves of a plan whose names are unique: every step is in at most one,
\* after the waves with the steps it depends on.
LEMMA WavesOrdered ==
  ASSUME NEW p \in ExecutionPlan, UniqueIds(p)
  PROVE  LET waves == TopologicalWaves(p) IN
         /\ waves \in Seq(Seq(StepIds(p)))
         /\ Apart(waves)
         /\ \A n \in DOMAIN waves : \A id \in ToSet(waves[n]) : \A d \in Adjacency(p)[id] :
              \E a \in 1 .. n - 1 : d \in ToSet(waves[a])
<1>1. PICK L : /\ LeftBy(p, L)
               /\ TopologicalWaves(p) = [n \in WaveNumbers(p, L) |-> InOrder(p, Ready(p, L[n - 1]))]
  BY WavesAreLeft
<1> DEFINE N == Len(p.steps)
           R(n) == Ready(p, L[n - 1])
           W == TopologicalWaves(p)
<1>0. N \in Nat /\ p.steps \in Seq(PlanStep) /\ DOMAIN p.steps = 1 .. N
  BY DEF ExecutionPlan
<1>2. /\ \A n \in 0 .. N : L[n] \subseteq StepIds(p)
      /\ \A n \in 1 .. N : L[n] = L[n - 1] \ R(n)
      /\ \A a, b \in 1 .. N : a < b => R(a) \intersect R(b) = {}
      /\ \A n \in 0 .. N : \A id \in StepIds(p) \ L[n] : \E a \in 1 .. n : id \in R(a)
  BY <1>1, LeftShrinks
<1>3. PICK k \in 0 .. N : WaveNumbers(p, L) = 1 .. k
  <2>1. WaveNumbers(p, L) \in SUBSET (1 .. N)
    BY DEF WaveNumbers
  <2>2. ASSUME NEW n \in WaveNumbers(p, L), n > 1 PROVE n - 1 \in WaveNumbers(p, L)
    <3>1. n \in 1 .. N /\ n - 1 \in 1 .. N /\ R(n) # {}
      BY <2>2, <1>0 DEF WaveNumbers
    <3>2. R(n - 1) # {}
      <4> SUFFICES ASSUME R(n - 1) = {} PROVE FALSE
        OBVIOUS
      <4>1. L[n - 1] = L[(n - 1) - 1] \ R(n - 1)
        <5> HIDE DEF R
        <5> QED BY <3>1, <1>2
      <4>2. L[n - 1] = L[(n - 1) - 1]
        <5> HIDE DEF R
        <5> QED BY <4>1
      <4>3. R(n) = R(n - 1)
        BY <4>2
      <4>4. QED
        <5> HIDE DEF R
        <5> QED BY <4>3, <3>1
    <3>3. QED
      BY <3>1, <3>2 DEF WaveNumbers
  <2>3. QED
    BY <1>0, <2>1, <2>2, FirstNumbers
<1>4. W = [n \in 1 .. k |-> InOrder(p, R(n))] /\ \A n \in 1 .. k : n \in 1 .. N /\ n - 1 \in 0 .. N
  BY <1>1, <1>3, <1>0
<1> DEFINE ids == [i \in DOMAIN p.steps |-> p.steps[i].id]
<1>5. ids \in Seq(StepIds(p)) /\ OneToOne(ids) /\ ToSet(ids) = StepIds(p)
  <2>1. \A i \in 1 .. N : p.steps[i].id \in StepIds(p)
    BY <1>0 DEF StepIds
  <2>2. ids \in Seq(StepIds(p))
    BY <1>0, <2>1
  <2>3. OneToOne(ids)
    BY <1>0 DEF OneToOne, UniqueIds
  <2>4. ToSet(ids) = StepIds(p)
    BY <1>0 DEF ToSet, StepIds
  <2>5. QED
    BY <2>2, <2>3, <2>4
<1>6. ASSUME NEW n \in 1 .. k
      PROVE  W[n] \in Seq(StepIds(p)) /\ ToSet(W[n]) = R(n) /\ OneToOne(W[n])
  <2>1. W[n] = Keep(ids, R(n))
    BY <1>4 DEF InOrder
  <2>2. R(n) \subseteq StepIds(p)
    BY <1>2, <1>4 DEF Ready
  <2>3. QED
    <3>1. /\ Keep(ids, R(n)) \in Seq(StepIds(p))
          /\ ToSet(Keep(ids, R(n))) = ToSet(ids) \intersect R(n)
          /\ OneToOne(Keep(ids, R(n)))
      <4> HIDE DEF ids, R
      <4> QED BY <1>5, KeepKeeps
    <3>2. QED
      <4> HIDE DEF ids, R, W
      <4> QED BY <3>1, <2>1, <2>2, <1>5
<1>7. DOMAIN W = 1 .. k /\ W \in Seq(Seq(StepIds(p)))
  <2>1. DOMAIN W = 1 .. k /\ W = [n \in 1 .. k |-> W[n]]
    BY <1>4
  <2>2. QED
    <3> HIDE DEF W, N
    <3> QED BY <2>1, <1>6, <1>3, <1>0
<1>8. Apart(W)
  <2> SUFFICES ASSUME NEW a \in 1 .. k, NEW b \in 1 .. k,
                      NEW i \in DOMAIN W[a], NEW j \in DOMAIN W[b], W[a][i] = W[b][j]
               PROVE  a = b /\ i = j
    BY <1>7 DEF Apart
  <2>1. W[a][i] \in R(a) /\ W[a][i] \in R(b)
    <3>1. W[a][i] \in ToSet(W[a]) /\ W[a][i] \in ToSet(W[b])
      BY DEF ToSet
    <3>2. QED
      BY <3>1, <1>6
  <2>2. a \in 1 .. N /\ b \in 1 .. N
    BY <1>4
  <2>3. ~(a < b) /\ ~(b < a)
    <3> HIDE DEF R, W, N
    <3> QED BY <2>1, <2>2, <1>2
  <2>4. a = b
    BY <2>2, <2>3, <1>0
  <2>5. i = j
    <3> HIDE DEF R, W
    <3> QED BY <2>4, <1>6 DEF OneToOne
  <2>6. QED
    BY <2>4, <2>5
<1>9. ASSUME NEW n \in 1 .. k, NEW id \in ToSet(W[n]), NEW d \in Adjacency(p)[id]
      PROVE  \E a \in 1 .. n - 1 : d \in ToSet(W[a])
  <2>1. id \in R(n) /\ id \in StepIds(p) /\ n - 1 \in 0 .. N
    <3>1. id \in R(n)
      BY <1>6
    <3>2. QED
      BY <3>1, <1>2, <1>4 DEF Ready
  <2>2. d \notin L[n - 1]
    BY <2>1 DEF Ready
  <2>3. d \in StepIds(p)
    <3>1. PICK i \in DOMAIN p.steps : Adjacency(p)[id] = p.steps[i].deps \intersect StepIds(p)
      BY <2>1, StepFound
    <3>2. QED
      BY <3>1
  <2>4. PICK a \in 1 .. n - 1 : d \in R(a)
    BY <2>1, <2>2, <2>3, <1>2
  <2>5. a \in 1 .. k
    BY <1>3, <1>0
  <2>6. QED
    <3> HIDE DEF R, W, N
    <3> QED BY <2>4, <2>5, <1>6
<1>10. QED
  <2>1. /\ W \in Seq(Seq(StepIds(p))) /\ Apart(W)
        /\ \A n \in DOMAIN W : \A id \in ToSet(W[n]) : \A d \in Adjacency(p)[id] :
              \E a \in 1 .. n - 1 : d \in ToSet(W[a])
    <3> HIDE DEF W, R, N
    <3> QED BY <1>7, <1>8, <1>9
  <2>2. QED
    BY <2>1

\* The steps s waits for all come before k in the order.
AllBefore(p, order, m, k) ==
  \A d \in StepOf(p, m).deps : \E i \in DOMAIN order : i < k /\ order[i] = d

\* A valid plan runs all its steps, and a group once everything any of its
\* members waits for is behind it.
LEMMA ScheduleOrdered ==
  ASSUME NEW p \in ExecutionPlan, UniqueIds(p), ~FindCycle(p),
         \A i \in DOMAIN p.steps : p.steps[i].deps \subseteq StepIds(p)
  PROVE  /\ ScheduleOrder(p) \in Seq(StepIds(p))
         /\ ToSet(ScheduleOrder(p)) = StepIds(p)
         /\ \A s \in StepIds(p) :
              /\ GroupFor(p, s) \in Seq(StepIds(p))
              /\ OneToOne(GroupFor(p, s))
              /\ \A m \in ToSet(GroupFor(p, s)), k \in DOMAIN ScheduleOrder(p) :
                   ScheduleOrder(p)[k] = s => AllBefore(p, ScheduleOrder(p), m, k)
<1> DEFINE W == TopologicalWaves(p)
           order == ScheduleOrder(p)
<1>1. /\ W \in Seq(Seq(StepIds(p))) /\ Apart(W)
      /\ \A n \in DOMAIN W : \A id \in ToSet(W[n]) : \A d \in Adjacency(p)[id] :
           \E a \in 1 .. n - 1 : d \in ToSet(W[a])
  BY WavesOrdered
<1>2. order = FlattenSeq(W) /\ ToSet(FlattenSeq(W)) = StepIds(p)
  BY DEF ScheduleOrder, FindCycle
<1>3. order \in Seq(StepIds(p)) /\ Flattens(W, Len(W), order)
  <2> HIDE DEF W, order
  <2> QED BY <1>1, <1>2, FlattenFlattens
<1>4. /\ DOMAIN W = 1 .. Len(W) /\ Len(W) \in Nat /\ ToSet(order) = StepIds(p)
      /\ \A n \in DOMAIN W : W[n] \in Seq(StepIds(p))
  <2> HIDE DEF W, order
  <2> QED BY <1>1, <1>2
\* Everything a step of wave n waits for comes before any step of wave n.
<1>5. ASSUME NEW n \in DOMAIN W, NEW m \in ToSet(W[n]), NEW s \in ToSet(W[n]),
             NEW k \in DOMAIN order, order[k] = s
      PROVE  AllBefore(p, order, m, k)
  <2> SUFFICES ASSUME NEW d \in StepOf(p, m).deps PROVE \E i \in DOMAIN order : i < k /\ order[i] = d
    BY DEF AllBefore
  <2> HIDE DEF W, order
  <2>1. m \in StepIds(p)
    BY <1>4 DEF ToSet
  <2>2. d \in Adjacency(p)[m] /\ d \in StepIds(p)
    <3>1. PICK i \in DOMAIN p.steps : /\ StepOf(p, m) = p.steps[i]
                                     /\ Adjacency(p)[m] = p.steps[i].deps \intersect StepIds(p)
      BY <2>1, StepFound
    <3>2. QED
      BY <3>1
  <2>3. PICK a \in 1 .. n - 1 : d \in ToSet(W[a])
    BY <1>1, <2>2
  <2>4. a \in 1 .. Len(W) /\ n \in 1 .. Len(W) /\ a < n
    BY <1>4
  <2>5. PICK i \in DOMAIN order : order[i] = d
    BY <1>4, <2>2 DEF ToSet
  <2>6. i < k
    BY <1>3, <1>5, <2>3, <2>4, <2>5 DEF Flattens
  <2>7. QED
    BY <2>5, <2>6
<1>6. ASSUME NEW s \in StepIds(p)
      PROVE  \E n \in DOMAIN W :
               /\ s \in ToSet(W[n])
               /\ GroupFor(p, s) \in Seq(StepIds(p)) /\ OneToOne(GroupFor(p, s))
               /\ ToSet(GroupFor(p, s)) \subseteq ToSet(W[n])
  <2> HIDE DEF order
  <2>1. \E n \in DOMAIN W : s \in ToSet(W[n])
    <3> HIDE DEF W
    <3>1. s \in UNION {ToSet(W[a]) : a \in 1 .. Len(W)}
      BY <1>3, <1>4 DEF Flattens
    <3>2. QED
      BY <3>1, <1>4
  <2> DEFINE n == CHOOSE n \in DOMAIN W : s \in ToSet(W[n])
  <2>2. n \in DOMAIN W /\ s \in ToSet(W[n])
    <3> HIDE DEF W
    <3> QED BY <2>1
  <2>3. W[n] = WaveOf(p, s)
    BY DEF WaveOf
  <2> DEFINE S == {other \in StepIds(p) : StepOf(p, other).parallel}
  <2> HIDE DEF n, W
  <2>4. W[n] \in Seq(StepIds(p)) /\ OneToOne(W[n])
    <3>1. OneToOne(W[n])
      BY <1>1, <2>2 DEF Apart, OneToOne
    <3>2. QED
      BY <3>1, <1>4, <2>2
  <2>5. CASE StepOf(p, s).parallel
    <3>1. GroupFor(p, s) = Keep(W[n], S)
      BY <2>3, <2>5 DEF GroupFor
    <3> HIDE DEF S
    <3>2. /\ Keep(W[n], S) \in Seq(StepIds(p)) /\ OneToOne(Keep(W[n], S))
          /\ ToSet(Keep(W[n], S)) = ToSet(W[n]) \intersect S
      BY <2>4, KeepKeeps
    <3>3. QED
      BY <3>1, <3>2, <2>2
  <2>6. CASE ~StepOf(p, s).parallel
    <3>1. GroupFor(p, s) = <<s>>
      BY <2>6 DEF GroupFor
    <3>2. <<s>> \in Seq(StepIds(p)) /\ OneToOne(<<s>>) /\ ToSet(<<s>>) = {s}
      BY DEF OneToOne, ToSet
    <3>3. QED
      BY <3>1, <3>2, <2>2
  <2>7. QED
    BY <2>5, <2>6
<1>7. ASSUME NEW s \in StepIds(p)
      PROVE  /\ GroupFor(p, s) \in Seq(StepIds(p)) /\ OneToOne(GroupFor(p, s))
             /\ \A m \in ToSet(GroupFor(p, s)), k \in DOMAIN order :
                  order[k] = s => AllBefore(p, order, m, k)
  <2> HIDE DEF W, order
  <2>1. PICK n \in DOMAIN W :
               /\ s \in ToSet(W[n])
               /\ GroupFor(p, s) \in Seq(StepIds(p)) /\ OneToOne(GroupFor(p, s))
               /\ ToSet(GroupFor(p, s)) \subseteq ToSet(W[n])
    BY <1>6
  <2>2. QED
    BY <2>1, <1>5
<1>8. QED
  BY <1>3, <1>4, <1>7

\* The next step: everything before it in the order is done, it is not.
LEMMA NextIsFirst ==
  ASSUME NEW X, NEW order \in Seq(X), NEW done, NextIncomplete(order, done) # NoStep
  PROVE  \E k \in DOMAIN order :
           /\ order[k] = NextIncomplete(order, done) /\ order[k] \notin done
           /\ \A i \in DOMAIN order : i < k => order[i] \in done
<1> DEFINE rest == {i \in DOMAIN order : order[i] \notin done}
           k == Lowest(rest)
<1>1. rest # {} /\ NextIncomplete(order, done) = order[k]
  BY DEF NextIncomplete
<1>2. rest \in SUBSET Nat
  OBVIOUS
<1>3. \E i \in rest : \A x \in rest : i <= x
  <2> HIDE DEF rest, k
  <2> QED BY <1>1, <1>2, LeastNumber
<1>4. k \in rest /\ \A x \in rest : k <= x
  <2> HIDE DEF rest
  <2> QED BY <1>3 DEF Lowest
<1>5. \A i \in DOMAIN order : i \in Nat /\ (i < k => i \notin rest)
  <2>1. k \in Nat /\ \A i \in DOMAIN order : i \in Nat
    <3> HIDE DEF rest, k
    <3> QED BY <1>2, <1>4
  <2> HIDE DEF rest, k
  <2>2. QED
    BY <1>4, <2>1
<1> HIDE DEF k
<1>6. QED
  BY <1>1, <1>4, <1>5

\* What is left of a group, once everything in front of it is done.
LEMMA GroupIsReady ==
  ASSUME NEW p \in ExecutionPlan, NEW m \in BOOLEAN, Validate(p, m) = {}, NEW done,
         NextIncomplete(ScheduleOrder(p), done) # NoStep
  PROVE  LET s    == NextIncomplete(ScheduleOrder(p), done)
             rest == Keep(GroupFor(p, s), StepIds(p) \ done)
         IN  /\ s \in StepIds(p) /\ s \notin done /\ s \in ToSet(ScheduleOrder(p))
             /\ rest \in Seq(StepIds(p)) /\ OneToOne(rest)
             /\ ToSet(rest) \intersect done = {}
             /\ \A x \in ToSet(rest) \union {s} : StepOf(p, x).deps \subseteq done
<1> DEFINE order == ScheduleOrder(p)
           s == NextIncomplete(order, done)
           g == GroupFor(p, s)
           rest == Keep(g, StepIds(p) \ done)
<1>1. /\ UniqueIds(p) /\ ~FindCycle(p)
      /\ \A i \in DOMAIN p.steps : p.steps[i].deps \subseteq StepIds(p)
  BY ValidPlan
<1>2. /\ order \in Seq(StepIds(p)) /\ ToSet(order) = StepIds(p)
      /\ \A x \in StepIds(p) :
              /\ GroupFor(p, x) \in Seq(StepIds(p))
              /\ OneToOne(GroupFor(p, x))
              /\ \A y \in ToSet(GroupFor(p, x)), k \in DOMAIN order :
                   order[k] = x => AllBefore(p, order, y, k)
  BY <1>1, ScheduleOrdered
<1> HIDE DEF order
<1>3. PICK k \in DOMAIN order :
           /\ order[k] = s /\ order[k] \notin done
           /\ \A i \in DOMAIN order : i < k => order[i] \in done
  <2>1. NextIncomplete(order, done) # NoStep
    BY DEF order
  <2>2. QED
    BY <1>2, <2>1, NextIsFirst
<1> HIDE DEF s
<1>4. s \in StepIds(p) /\ s \in ToSet(order) /\ s \notin done
  BY <1>2, <1>3 DEF ToSet
<1>5. /\ g \in Seq(StepIds(p)) /\ OneToOne(g)
      /\ \A y \in ToSet(g) : AllBefore(p, order, y, k)
  BY <1>2, <1>3, <1>4
<1>6. \A y \in ToSet(g) : StepOf(p, y).deps \subseteq done
  BY <1>3, <1>5 DEF AllBefore
<1> HIDE DEF g
<1>7. /\ rest \in Seq(StepIds(p)) /\ OneToOne(rest)
      /\ ToSet(rest) = ToSet(g) \intersect (StepIds(p) \ done)
  BY <1>5, KeepKeeps
<1>8. s \in ToSet(g)
  <2>1. CASE StepOf(p, s).parallel
    <3> DEFINE W == TopologicalWaves(p)
               w == WaveOf(p, s)
               S == {other \in StepIds(p) : StepOf(p, other).parallel}
    <3>1. W \in Seq(Seq(StepIds(p))) /\ Apart(W)
      BY <1>1, WavesOrdered
    <3>2. order = FlattenSeq(W)
      BY DEF ScheduleOrder, order
    <3>3. w = W[CHOOSE n \in DOMAIN W : s \in ToSet(W[n])]
      BY DEF WaveOf
    <3> HIDE DEF W, w
    <3>4. w \in Seq(StepIds(p)) /\ OneToOne(w) /\ s \in ToSet(w)
      <4>1. Flattens(W, Len(W), order)
        BY <3>1, <3>2, FlattenFlattens
      <4>2. s \in UNION {ToSet(W[a]) : a \in 1 .. Len(W)}
        BY <1>4, <4>1 DEF Flattens
      <4>a. \E n \in DOMAIN W : s \in ToSet(W[n])
        BY <3>1, <4>2
      <4>3. PICK n \in DOMAIN W : w = W[n] /\ s \in ToSet(W[n])
        BY <3>3, <4>a
      <4>4. W[n] \in Seq(StepIds(p))
        BY <3>1
      <4>5. OneToOne(W[n])
        BY <3>1 DEF Apart, OneToOne
      <4>6. QED
        BY <4>3, <4>4, <4>5
    <3>5. g = Keep(w, S)
      BY <2>1 DEF g, GroupFor, w
    <3>6. s \in S
      BY <1>4, <2>1
    <3> HIDE DEF S
    <3>7. ToSet(Keep(w, S)) = ToSet(w) \intersect S
      BY <3>4, KeepKeeps
    <3>8. QED
      BY <3>4, <3>5, <3>6, <3>7
  <2>2. CASE ~StepOf(p, s).parallel
    <3>1. g = <<s>>
      BY <2>2 DEF GroupFor, g
    <3>2. ToSet(<<s>>) = {s}
      BY DEF ToSet
    <3>3. QED
      BY <3>1, <3>2
  <2>3. QED
    BY <2>1, <2>2
<1> HIDE DEF rest
<1>9. /\ s \in StepIds(p) /\ s \notin done /\ s \in ToSet(order)
      /\ rest \in Seq(StepIds(p)) /\ OneToOne(rest)
      /\ ToSet(rest) \intersect done = {}
      /\ \A x \in ToSet(rest) \union {s} : StepOf(p, x).deps \subseteq done
  BY <1>4, <1>6, <1>7, <1>8
<1>10. QED
  BY <1>9 DEF rest, s, order, g

-----------------------------------------------------------------------------
(* Batches and chunks.                                                     *)

Conflicting(ids, p, k) == {i \in 1..(k - 1) : Overlap(p, ids[i], ids[k])}

\* The function PartitionConflictFree numbers batches by.
BatchesBy(ids, p, B) ==
  B = [k \in DOMAIN ids |-> Lowest((1..k) \ {B[i] : i \in Conflicting(ids, p, k)})]

LEMMA LowestIsLowest ==
  ASSUME NEW S \in SUBSET Nat, S # {}
  PROVE  Lowest(S) \in S /\ \A k \in S : Lowest(S) <= k
BY LeastNumber DEF Lowest

LEMMA LowestFree ==
  ASSUME NEW k \in Nat \ {0}, NEW taken \in SUBSET (1 .. k - 1)
  PROVE  /\ Lowest((1 .. k) \ taken) \in (1 .. k) \ taken
         /\ \A c \in (1 .. k) \ taken : Lowest((1 .. k) \ taken) <= c
<1>1. k \in (1 .. k) \ taken /\ (1 .. k) \ taken \in SUBSET Nat
  <2>1. k \in 1 .. k /\ k \notin 1 .. k - 1 /\ \A x \in 1 .. k : x \in Nat
    OBVIOUS
  <2>2. QED
    BY <2>1
<1>2. QED
  BY <1>1, LowestIsLowest

LEMMA BatchesExist ==
  ASSUME NEW X, NEW ids \in Seq(X), NEW p
  PROVE  \E B : BatchesBy(ids, p, B)
<1> DEFINE N == Len(ids)
           Val(B, k) == Lowest((1..k) \ {B[i] : i \in Conflicting(ids, p, k)})
           Upto(B, n) == B = [k \in 1 .. n |-> Val(B, k)]
           T == {n \in 0 .. N : \E B : Upto(B, n)}
<1>0. N \in Nat /\ DOMAIN ids = 1 .. N
  OBVIOUS
<1>1. 0 \in T
  <2> DEFINE g == [k \in 1 .. 0 |-> 0]
  <2>1. g = [k \in 1 .. 0 |-> Val(g, k)]
    <3> HIDE DEF Val
    <3>1. 1 .. 0 = {}
      OBVIOUS
    <3>2. QED
      BY <3>1
  <2>2. \E B : Upto(B, 0)
    <3> HIDE DEF g, Val
    <3> QED BY <2>1
  <2>3. QED
    <3> HIDE DEF Upto
    <3> QED BY <1>0, <2>2
<1>2. ASSUME NEW n \in 0 .. (N - 1), n \in T PROVE n + 1 \in T
  <2>0. n + 1 \in 0 .. N /\ n \in Nat
    BY <1>0
  <2>1. PICK B : B = [k \in 1 .. n |-> Val(B, k)]
    BY <1>2
  <2> DEFINE C == [k \in 1 .. n + 1 |-> Val(B, k)]
  <2>2. \A i \in 1 .. n : C[i] = B[i]
    <3> HIDE DEF Val
    <3> QED BY <2>0, <2>1
  <2>3. ASSUME NEW k \in 1 .. n + 1 PROVE Val(C, k) = Val(B, k)
    <3>1. \A i \in Conflicting(ids, p, k) : i \in 1 .. n
      BY <2>0 DEF Conflicting
    <3>2. {C[i] : i \in Conflicting(ids, p, k)} = {B[i] : i \in Conflicting(ids, p, k)}
      <4> HIDE DEF C
      <4> QED BY <2>2, <3>1
    <3> HIDE DEF C
    <3>3. QED
      BY <3>2
  <2>4. C = [k \in 1 .. n + 1 |-> Val(C, k)]
    <3>1. \A k \in 1 .. n + 1 : Val(B, k) = Val(C, k)
      BY <2>3
    <3> HIDE DEF Val
    <3>2. QED
      BY <3>1
  <2>5. \E D : Upto(D, n + 1)
    <3> HIDE DEF C, Val
    <3> QED BY <2>4
  <2>6. QED
    <3> HIDE DEF Upto
    <3> QED BY <2>0, <2>5
<1>3. N \in T
  <2>1. \A n \in 0 .. (N - 1) : n \in T => n + 1 \in T
    BY <1>2
  <2>2. \A n \in 0 .. N : n \in T
    <3> HIDE DEF T, N
    <3> QED BY <1>0, <1>1, <2>1, Counting
  <2>3. N \in 0 .. N
    BY <1>0
  <2>4. QED
    <3> HIDE DEF T, N
    <3> QED BY <2>2, <2>3
<1>4. PICK B : B = [k \in 1 .. N |-> Val(B, k)]
  BY <1>3
<1>5. BatchesBy(ids, p, B)
  BY <1>0, <1>4 DEF BatchesBy
<1>6. QED
  BY <1>5

\* Every step joins a batch with a number no larger than its place, whose
\* earlier steps it does not overlap, and all smaller numbers are in use.
LEMMA BatchesNumbered ==
  ASSUME NEW X, NEW ids \in Seq(X), NEW p, NEW B, BatchesBy(ids, p, B)
  PROVE  \A k \in DOMAIN ids :
           /\ B[k] \in 1 .. k
           /\ \A i \in Conflicting(ids, p, k) : B[i] # B[k]
           /\ \A c \in 1 .. B[k] - 1 : \E i \in 1 .. k - 1 : B[i] = c
<1> DEFINE N == Len(ids)
           Good(k) == B[k] \in 1 .. k
           Taken(k) == {B[i] : i \in Conflicting(ids, p, k)}
           T == {n \in 0 .. N : \A k \in 1 .. n : Good(k)}
<1>0. N \in Nat /\ DOMAIN ids = 1 .. N
  OBVIOUS
<1>1. \A k \in 1 .. N : B[k] = Lowest((1..k) \ Taken(k))
  BY <1>0 DEF BatchesBy
<1>2. ASSUME NEW k \in 1 .. N, \A i \in 1 .. k - 1 : Good(i) PROVE Taken(k) \in SUBSET (1 .. k - 1)
  <2>1. k \in Nat /\ \A i \in Conflicting(ids, p, k) : i \in 1 .. k - 1
    BY <1>0 DEF Conflicting
  <2>2. \A i \in 1 .. k - 1 : B[i] \in 1 .. k - 1
    BY <1>2, <2>1
  <2>3. QED
    BY <2>1, <2>2
<1>3. \A k \in 1 .. N : Good(k)
  <2>1. 0 \in T
    BY <1>0
  <2>2. ASSUME NEW n \in 0 .. (N - 1), n \in T PROVE n + 1 \in T
    <3>1. n + 1 \in 1 .. N /\ n + 1 \in Nat \ {0} /\ (n + 1) - 1 = n /\ n + 1 \in 0 .. N
          /\ \A k \in 1 .. n + 1 : k \in 1 .. n \/ k = n + 1
      BY <1>0
    <3>2. \A i \in 1 .. (n + 1) - 1 : Good(i)
      BY <2>2, <3>1
    <3>3. Taken(n + 1) \in SUBSET (1 .. (n + 1) - 1)
      <4> HIDE DEF Good, Taken
      <4> QED BY <3>1, <3>2, <1>2
    <3>4. Good(n + 1)
      <4> HIDE DEF Taken
      <4>1. Lowest((1 .. n + 1) \ Taken(n + 1)) \in (1 .. n + 1) \ Taken(n + 1)
        BY <3>1, <3>3, LowestFree
      <4>2. QED
        BY <4>1, <3>1, <1>1
    <3>5. QED
      <4> HIDE DEF Good
      <4> QED BY <3>1, <3>4, <2>2
  <2>3. N \in T
    <3>1. \A n \in 0 .. (N - 1) : n \in T => n + 1 \in T
      BY <2>2
    <3>2. \A n \in 0 .. N : n \in T
      <4> HIDE DEF T, N
      <4> QED BY <1>0, <2>1, <3>1, Counting
    <3>3. N \in 0 .. N
      BY <1>0
    <3>4. QED
      <4> HIDE DEF T, N
      <4> QED BY <3>2, <3>3
  <2>4. QED
    <3> HIDE DEF Good
    <3> QED BY <2>3
<1>4. ASSUME NEW k \in 1 .. N
      PROVE  /\ B[k] \in 1 .. k /\ \A i \in Conflicting(ids, p, k) : B[i] # B[k]
             /\ \A c \in 1 .. B[k] - 1 : \E i \in 1 .. k - 1 : B[i] = c
  <2>1. k \in Nat \ {0} /\ \A i \in 1 .. k - 1 : i \in 1 .. N
    BY <1>0
  <2>2. Taken(k) \in SUBSET (1 .. k - 1)
    <3>1. \A i \in 1 .. k - 1 : Good(i)
      <4> HIDE DEF Good
      <4> QED BY <2>1, <1>3
    <3> HIDE DEF Good, Taken
    <3>2. QED
      BY <3>1, <1>2
  <2>3. /\ B[k] \in (1 .. k) \ Taken(k)
        /\ \A c \in (1 .. k) \ Taken(k) : B[k] <= c
    <3> HIDE DEF Taken
    <3>1. B[k] = Lowest((1 .. k) \ Taken(k))
      BY <1>1
    <3>2. /\ Lowest((1 .. k) \ Taken(k)) \in (1 .. k) \ Taken(k)
          /\ \A c \in (1 .. k) \ Taken(k) : Lowest((1 .. k) \ Taken(k)) <= c
      BY <2>1, <2>2, LowestFree
    <3>3. QED
      BY <3>1, <3>2
  <2>4. \A i \in Conflicting(ids, p, k) : B[i] # B[k]
    <3>1. \A i \in Conflicting(ids, p, k) : B[i] \in Taken(k)
      OBVIOUS
    <3> HIDE DEF Taken
    <3>2. QED
      BY <3>1, <2>3
  <2>5. ASSUME NEW c \in 1 .. B[k] - 1 PROVE \E i \in 1 .. k - 1 : B[i] = c
    <3>1. c \in 1 .. k /\ ~(B[k] <= c)
      <4> HIDE DEF Taken
      <4> QED BY <2>1, <2>3
    <3>2. c \in Taken(k)
      <4> HIDE DEF Taken
      <4> QED BY <3>1, <2>3
    <3>3. PICK i \in Conflicting(ids, p, k) : c = B[i]
      BY <3>2
    <3>4. i \in 1 .. k - 1
      BY DEF Conflicting
    <3>5. QED
      BY <3>3, <3>4
  <2>6. QED
    BY <2>3, <2>4, <2>5
<1>5. QED
  BY <1>0, <1>4

\* Steps that overlap go to different batches.
LEMMA BatchesApart ==
  ASSUME NEW X, NEW ids \in Seq(X), OneToOne(ids), NEW p
  PROVE  LET batches == PartitionConflictFree(ids, p) IN
         /\ batches \in Seq(Seq(X)) /\ Apart(batches)
         /\ \A b \in DOMAIN batches :
              /\ ToSet(batches[b]) \subseteq ToSet(ids)
              /\ \A x, y \in ToSet(batches[b]) : x # y => ~Overlap(p, x, y)
<1> DEFINE N == Len(ids)
           B == CHOOSE B : BatchesBy(ids, p, B)
           R == {B[k] : k \in DOMAIN ids}
           S(b) == {ids[k] : k \in {k \in DOMAIN ids : B[k] = b}}
           P == PartitionConflictFree(ids, p)
<1>0. N \in Nat /\ DOMAIN ids = 1 .. N
  OBVIOUS
<1>1. BatchesBy(ids, p, B)
  BY BatchesExist
<1>2. P = [b \in R |-> Keep(ids, S(b))]
  BY DEF PartitionConflictFree, BatchesBy, Conflicting
<1> HIDE DEF B, P
<1>3. \A k \in 1 .. N :
           /\ B[k] \in 1 .. k
           /\ \A i \in Conflicting(ids, p, k) : B[i] # B[k]
           /\ \A c \in 1 .. B[k] - 1 : \E i \in 1 .. k - 1 : B[i] = c
  BY <1>0, <1>1, BatchesNumbered
<1>4. PICK m \in 0 .. N : R = 1 .. m
  <2>1. R \in SUBSET (1 .. N)
    <3>1. \A k \in 1 .. N : B[k] \in 1 .. N
      BY <1>0, <1>3
    <3>2. QED
      BY <3>1, <1>0
  <2>2. ASSUME NEW n \in R, n > 1 PROVE n - 1 \in R
    <3>1. PICK k \in 1 .. N : n = B[k]
      BY <1>0
    <3>a. n \in 1 .. N
      <4> HIDE DEF R, N
      <4> QED BY <2>1
    <3>2. n - 1 \in 1 .. B[k] - 1 /\ k \in Nat
      <4> HIDE DEF R
      <4> QED BY <3>1, <3>a, <2>2, <1>0
    <3>3. PICK i \in 1 .. k - 1 : B[i] = n - 1
      BY <3>2, <1>3
    <3>4. i \in 1 .. N
      BY <1>0, <3>2
    <3>5. QED
      BY <3>3, <3>4, <1>0
  <2>3. QED
    <3> HIDE DEF R, N
    <3> QED BY <1>0, <2>1, <2>2, FirstNumbers
<1>5. DOMAIN P = 1 .. m /\ m \in Nat
  BY <1>0, <1>2, <1>4
<1>6. ASSUME NEW b \in 1 .. m
      PROVE  P[b] \in Seq(X) /\ OneToOne(P[b]) /\ ToSet(P[b]) = S(b)
  <2>1. P[b] = Keep(ids, S(b))
    <3> HIDE DEF R, S
    <3> QED BY <1>2, <1>4
  <2>2. S(b) \subseteq ToSet(ids)
    BY DEF ToSet
  <2>3. /\ Keep(ids, S(b)) \in Seq(X) /\ OneToOne(Keep(ids, S(b)))
        /\ ToSet(Keep(ids, S(b))) = ToSet(ids) \intersect S(b)
    <3> HIDE DEF S
    <3> QED BY KeepKeeps
  <2>4. QED
    <3> HIDE DEF S
    <3> QED BY <2>1, <2>2, <2>3
<1>7. P \in Seq(Seq(X))
  <2>1. P = [b \in 1 .. m |-> P[b]]
    <3> HIDE DEF S
    <3> QED BY <1>2, <1>4
  <2>2. QED
    <3> HIDE DEF S
    <3> QED BY <2>1, <1>5, <1>6
<1>8. Apart(P)
  <2> SUFFICES ASSUME NEW a \in 1 .. m, NEW b \in 1 .. m,
                      NEW i \in DOMAIN P[a], NEW j \in DOMAIN P[b], P[a][i] = P[b][j]
               PROVE  a = b /\ i = j
    BY <1>5 DEF Apart
  <2>1. P[a][i] \in S(a) /\ P[a][i] \in S(b)
    <3>1. P[a][i] \in ToSet(P[a]) /\ P[a][i] \in ToSet(P[b])
      BY DEF ToSet
    <3>2. QED
      BY <3>1, <1>6
  <2>2. a = b
    <3>1. PICK k \in DOMAIN ids : P[a][i] = ids[k] /\ B[k] = a
      BY <2>1
    <3>2. PICK l \in DOMAIN ids : P[a][i] = ids[l] /\ B[l] = b
      BY <2>1
    <3>3. k = l
      BY <3>1, <3>2 DEF OneToOne
    <3>4. QED
      BY <3>1, <3>2, <3>3
  <2>3. i = j
    <3> HIDE DEF S
    <3> QED BY <2>2, <1>6 DEF OneToOne
  <2>4. QED
    BY <2>2, <2>3
<1>9. ASSUME NEW b \in 1 .. m
      PROVE  /\ ToSet(P[b]) \subseteq ToSet(ids)
             /\ \A x, y \in ToSet(P[b]) : x # y => ~Overlap(p, x, y)
  <2>1. ToSet(P[b]) = S(b)
    BY <1>6
  <2>2. ToSet(P[b]) \subseteq ToSet(ids)
    BY <2>1 DEF ToSet
  <2>3. ASSUME NEW x \in ToSet(P[b]), NEW y \in ToSet(P[b]), x # y PROVE ~Overlap(p, x, y)
    <3>1. PICK k \in DOMAIN ids : x = ids[k] /\ B[k] = b
      BY <2>1
    <3>2. PICK l \in DOMAIN ids : y = ids[l] /\ B[l] = b
      BY <2>1
    <3>3. k \in 1 .. N /\ l \in 1 .. N /\ k # l
      BY <2>3, <3>1, <3>2, <1>0
    <3>4. k \notin Conflicting(ids, p, l) /\ l \notin Conflicting(ids, p, k)
      BY <3>1, <3>2, <3>3, <1>3
    <3>5. k \in 1 .. l - 1 \/ l \in 1 .. k - 1
      BY <3>3, <1>0
    <3>6. ~Overlap(p, x, y) \/ ~Overlap(p, y, x)
      BY <3>1, <3>2, <3>4, <3>5 DEF Conflicting
    <3>7. QED
      BY <3>6 DEF Overlap
  <2>4. QED
    BY <2>2, <2>3
<1>10. QED
  <2>1. /\ P \in Seq(Seq(X)) /\ Apart(P)
        /\ \A b \in DOMAIN P :
              /\ ToSet(P[b]) \subseteq ToSet(ids)
              /\ \A x, y \in ToSet(P[b]) : x # y => ~Overlap(p, x, y)
    BY <1>5, <1>7, <1>8, <1>9
  <2>2. QED
    BY <2>1 DEF P

LEMMA Quotient ==
  ASSUME NEW a \in Nat, NEW n \in Nat \ {0}
  PROVE  a \div n \in Nat /\ (a \div n) * n <= a
OBVIOUS

LEMMA SubSeqIs ==
  ASSUME NEW X, NEW s \in Seq(X), NEW a \in 1 .. Len(s), NEW b \in 1 .. Len(s), a <= b
  PROVE  /\ SubSeq(s, a, b) \in Seq(X) /\ Len(SubSeq(s, a, b)) = b - a + 1
         /\ \A i \in DOMAIN SubSeq(s, a, b) :
              i \in Nat /\ a + i - 1 \in a .. b /\ SubSeq(s, a, b)[i] = s[a + i - 1]
<1>1. a \in Nat /\ b \in Nat /\ Len(s) \in Nat
  OBVIOUS
<1>2. SubSeq(s, a, b) \in Seq(X) /\ Len(SubSeq(s, a, b)) = b - a + 1
  BY <1>1
<1>3. DOMAIN SubSeq(s, a, b) = 1 .. b - a + 1
  BY <1>2
<1>4. \A i \in 1 .. b - a + 1 : i \in Nat /\ a + i - 1 \in a .. b /\ SubSeq(s, a, b)[i] = s[a + i - 1]
  BY <1>1
<1>5. QED
  BY <1>2, <1>3, <1>4

LEMMA Multiples ==
  ASSUME NEW n \in Nat \ {0}, NEW a \in Nat, NEW b \in Nat
  PROVE  /\ a * n \in Nat
         /\ a <= b => a * n <= b * n
         /\ (a + 1) * n = a * n + n
OBVIOUS

LEMMA IsSequence ==
  ASSUME NEW X, NEW q \in Nat, NEW f, f = [k \in 1 .. q |-> f[k]], \A k \in 1 .. q : f[k] \in X
  PROVE  f \in Seq(X)
OBVIOUS

\* A batch cut into chunks of at most n.
LEMMA ChunksApart ==
  ASSUME NEW X, NEW batch \in Seq(X), OneToOne(batch), NEW n \in Nat \ {0}
  PROVE  LET chunks == Chunks(batch, n) IN
         /\ chunks \in Seq(Seq(X)) /\ Apart(chunks)
         /\ \A k \in DOMAIN chunks :
              /\ chunks[k] # <<>> /\ Len(chunks[k]) <= n
              /\ ToSet(chunks[k]) \subseteq ToSet(batch)
<1> DEFINE L == Len(batch)
           q == (L + n - 1) \div n
           from(k) == (k - 1) * n + 1
           to(k) == IF k * n < L THEN k * n ELSE L
           C == Chunks(batch, n)
<1>0. L \in Nat /\ n \in Nat /\ n >= 1 /\ L + n - 1 \in Nat
  OBVIOUS
<1>1. q \in Nat /\ q * n <= L + n - 1
  <2> HIDE DEF L
  <2> QED BY <1>0, Quotient
<1>2. C = [k \in 1 .. q |-> SubSeq(batch, from(k), to(k))]
  BY DEF Chunks
<1> HIDE DEF q, C
<1>3. ASSUME NEW k \in 1 .. q
      PROVE  /\ from(k) \in 1 .. L /\ to(k) \in 1 .. L /\ from(k) <= to(k)
             /\ to(k) < from(k) + n
             /\ \A b \in 1 .. q : k < b => to(k) < from(b)
  <2> HIDE DEF L
  <2>1. k \in Nat /\ k - 1 \in Nat /\ k <= q /\ (k - 1) + 1 = k
    BY <1>1
  <2>2. k * n <= q * n /\ k * n \in Nat
    BY <2>1, <1>1, Multiples
  <2>3. k * n = (k - 1) * n + n /\ (k - 1) * n \in Nat
    BY <2>1, Multiples
  <2>4. \A b \in 1 .. q : k < b => k * n <= (b - 1) * n /\ (b - 1) * n \in Nat
    <3> TAKE b \in 1 .. q
    <3>1. b - 1 \in Nat /\ (k < b => k <= b - 1)
      BY <1>1, <2>1
    <3>2. QED
      BY <3>1, <2>1, Multiples
  <2>5. from(k) \in 1 .. L /\ to(k) \in 1 .. L /\ from(k) <= to(k) /\ to(k) < from(k) + n
    BY <1>0, <1>1, <2>2, <2>3
  <2>6. \A b \in 1 .. q : k < b => to(k) < from(b)
    BY <1>0, <2>2, <2>4
  <2>7. QED
    BY <2>5, <2>6
<1>4. ASSUME NEW k \in 1 .. q
      PROVE  /\ C[k] \in Seq(X) /\ Len(C[k]) = to(k) - from(k) + 1
             /\ \A i \in DOMAIN C[k] : /\ i \in Nat /\ from(k) + i - 1 \in from(k) .. to(k)
                                       /\ C[k][i] = batch[from(k) + i - 1]
  <2>1. C[k] = SubSeq(batch, from(k), to(k))
    <3> HIDE DEF from, to
    <3> QED BY <1>2
  <2>2. from(k) \in 1 .. L /\ to(k) \in 1 .. L /\ from(k) <= to(k)
    BY <1>3
  <2> HIDE DEF from, to
  <2>3. QED
    BY <2>1, <2>2, SubSeqIs
<1> HIDE DEF from, to
<1>5. DOMAIN C = 1 .. q /\ C \in Seq(Seq(X))
  <2>1. DOMAIN C = 1 .. q /\ C = [k \in 1 .. q |-> C[k]]
    BY <1>2
  <2>2. \A k \in 1 .. q : C[k] \in Seq(X)
    BY <1>4
  <2>3. QED
    BY <2>1, <2>2, <1>1, IsSequence
<1>6. ASSUME NEW k \in 1 .. q PROVE ToSet(C[k]) \subseteq ToSet(batch)
  <2>1. \A i \in DOMAIN C[k] : C[k][i] \in ToSet(batch)
    <3> TAKE i \in DOMAIN C[k]
    <3>1. from(k) + i - 1 \in from(k) .. to(k) /\ C[k][i] = batch[from(k) + i - 1]
      BY <1>4
    <3>2. from(k) \in 1 .. L /\ to(k) \in 1 .. L
      BY <1>3
    <3>3. from(k) + i - 1 \in DOMAIN batch
      BY <3>1, <3>2, <1>0
    <3>4. QED
      BY <3>1, <3>3 DEF ToSet
  <2>2. QED
    BY <2>1 DEF ToSet
<1>7. Apart(C)
  <2> SUFFICES ASSUME NEW a \in 1 .. q, NEW b \in 1 .. q,
                      NEW i \in DOMAIN C[a], NEW j \in DOMAIN C[b], C[a][i] = C[b][j]
               PROVE  a = b /\ i = j
    BY <1>5 DEF Apart
  <2>1. /\ from(a) + i - 1 \in from(a) .. to(a) /\ from(b) + j - 1 \in from(b) .. to(b)
        /\ from(a) \in 1 .. L /\ to(a) \in 1 .. L /\ from(b) \in 1 .. L /\ to(b) \in 1 .. L
        /\ i \in Nat /\ j \in Nat
        /\ C[a][i] = batch[from(a) + i - 1] /\ C[b][j] = batch[from(b) + j - 1]
    BY <1>3, <1>4
  <2>2. from(a) + i - 1 \in DOMAIN batch /\ from(b) + j - 1 \in DOMAIN batch
    BY <2>1, <1>0
  <2>3. from(a) + i - 1 = from(b) + j - 1
    BY <2>1, <2>2 DEF OneToOne
  <2>4. ~(a < b) /\ ~(b < a)
    <3>1. (a < b => to(a) < from(b)) /\ (b < a => to(b) < from(a))
      BY <1>3
    <3> HIDE DEF from, to
    <3>2. QED
      BY <3>1, <2>1, <2>3, <1>0
  <2>5. a = b
    BY <2>4, <1>1
  <2>6. QED
    BY <2>1, <2>3, <2>5, <1>0
<1>8. ASSUME NEW k \in 1 .. q PROVE C[k] # <<>> /\ Len(C[k]) <= n
  <2>1. Len(C[k]) > 0 /\ Len(C[k]) <= n
    BY <1>0, <1>3, <1>4
  <2>2. QED
    BY <2>1
<1>9. QED
  <2>1. /\ C \in Seq(Seq(X)) /\ Apart(C)
        /\ \A k \in DOMAIN C : C[k] # <<>> /\ Len(C[k]) <= n /\ ToSet(C[k]) \subseteq ToSet(batch)
    BY <1>5, <1>6, <1>7, <1>8
  <2>2. QED
    BY <2>1 DEF C

\* The chunks of a wave: every step of ids in at most one, and no two steps of
\* one chunk, which run at the same time, work on one file.
LEMMA WaveIsCut ==
  ASSUME NEW X, NEW ids \in Seq(X), OneToOne(ids), NEW p, NEW n \in Nat \ {0}
  PROVE  LET todo == WaveChunks(ids, p, n) IN
         /\ todo \in Seq(Seq(X)) /\ Apart(todo)
         /\ \A k \in DOMAIN todo :
              /\ ToSet(todo[k]) \subseteq ToSet(ids) /\ Len(todo[k]) <= n
              /\ \A x, y \in ToSet(todo[k]) : x # y => ~Overlap(p, x, y)
<1> DEFINE P == PartitionConflictFree(ids, p)
           CC == [b \in DOMAIN P |-> Chunks(P[b], n)]
           F == WaveChunks(ids, p, n)
<1>1. /\ P \in Seq(Seq(X)) /\ Apart(P)
      /\ \A b \in DOMAIN P :
            /\ ToSet(P[b]) \subseteq ToSet(ids)
            /\ \A x, y \in ToSet(P[b]) : x # y => ~Overlap(p, x, y)
  BY BatchesApart
<1>2. F = FlattenSeq(CC)
  BY DEF WaveChunks
<1> HIDE DEF P, F
<1>3. DOMAIN P = 1 .. Len(P) /\ Len(P) \in Nat /\ \A b \in DOMAIN P : P[b] \in Seq(X)
  BY <1>1
<1>4. \A b \in DOMAIN P : OneToOne(P[b])
  BY <1>1 DEF Apart, OneToOne
<1>5. ASSUME NEW b \in DOMAIN P
      PROVE  /\ CC[b] \in Seq(Seq(X)) /\ Apart(CC[b])
             /\ \A k \in DOMAIN CC[b] :
                  /\ CC[b][k] # <<>> /\ Len(CC[b][k]) <= n
                  /\ ToSet(CC[b][k]) \subseteq ToSet(P[b])
  <2>1. CC[b] = Chunks(P[b], n)
    OBVIOUS
  <2>2. P[b] \in Seq(X) /\ OneToOne(P[b])
    BY <1>3, <1>4
  <2> HIDE DEF CC
  <2>3. QED
    BY <2>1, <2>2, ChunksApart
<1>6. DOMAIN CC = DOMAIN P /\ CC = [b \in 1 .. Len(P) |-> CC[b]]
  BY <1>3
<1> HIDE DEF CC
<1>7. CC \in Seq(Seq(Seq(X)))
  BY <1>3, <1>5, <1>6, IsSequence
\* What is in a chunk tells the chunk.
<1>8. ASSUME NEW a \in DOMAIN P, NEW b \in DOMAIN P, NEW u \in DOMAIN CC[a], NEW v \in DOMAIN CC[b],
             NEW i \in DOMAIN CC[a][u], NEW j \in DOMAIN CC[b][v], CC[a][u][i] = CC[b][v][j]
      PROVE  a = b /\ u = v /\ i = j
  <2>1. CC[a][u][i] \in ToSet(P[a]) /\ CC[b][v][j] \in ToSet(P[b])
    <3>1. CC[a][u][i] \in ToSet(CC[a][u]) /\ CC[b][v][j] \in ToSet(CC[b][v])
      BY DEF ToSet
    <3>2. ToSet(CC[a][u]) \subseteq ToSet(P[a]) /\ ToSet(CC[b][v]) \subseteq ToSet(P[b])
      BY <1>5
    <3>3. QED
      BY <3>1, <3>2
  <2>2. a = b
    <3>1. PICK x \in DOMAIN P[a] : CC[a][u][i] = P[a][x]
      BY <2>1 DEF ToSet
    <3>2. PICK y \in DOMAIN P[b] : CC[b][v][j] = P[b][y]
      BY <2>1 DEF ToSet
    <3>3. P[a][x] = P[b][y]
      BY <3>1, <3>2, <1>8
    <3>4. QED
      BY <3>3, <1>1 DEF Apart
  <2>3. Apart(CC[a])
    BY <1>5
  <2>4. QED
    BY <2>2, <2>3, <1>8 DEF Apart
<1>9. Apart(CC)
  <2> SUFFICES ASSUME NEW a \in DOMAIN P, NEW b \in DOMAIN P,
                      NEW u \in DOMAIN CC[a], NEW v \in DOMAIN CC[b], CC[a][u] = CC[b][v]
               PROVE  a = b /\ u = v
    BY <1>6 DEF Apart
  <2>1. CC[a][u] \in Seq(X) /\ CC[a][u] # <<>>
    <3>1. CC[a] \in Seq(Seq(X)) /\ CC[a][u] # <<>>
      BY <1>5
    <3>2. QED
      BY <3>1
  <2>2. 1 \in DOMAIN CC[a][u]
    BY <2>1
  <2>3. QED
    BY <2>2, <1>8
<1>10. F \in Seq(Seq(X)) /\ Flattens(CC, Len(CC), F)
  BY <1>2, <1>7, <1>9, FlattenFlattens
<1>11. ASSUME NEW x \in DOMAIN F PROVE \E a \in DOMAIN P : \E u \in DOMAIN CC[a] : F[x] = CC[a][u]
  <2>1. F[x] \in ToSet(F)
    BY DEF ToSet
  <2>2. F[x] \in UNION {ToSet(CC[a]) : a \in 1 .. Len(CC)}
    BY <2>1, <1>10 DEF Flattens
  <2>3. PICK a \in 1 .. Len(CC) : F[x] \in ToSet(CC[a])
    BY <2>2
  <2>4. a \in DOMAIN P
    BY <1>3, <1>6, <1>7
  <2>5. QED
    BY <2>3, <2>4 DEF ToSet
<1>12. Apart(F)
  <2> SUFFICES ASSUME NEW x \in DOMAIN F, NEW y \in DOMAIN F,
                      NEW i \in DOMAIN F[x], NEW j \in DOMAIN F[y], F[x][i] = F[y][j]
               PROVE  x = y /\ i = j
    BY DEF Apart
  <2>1. PICK a \in DOMAIN P : \E u \in DOMAIN CC[a] : F[x] = CC[a][u]
    BY <1>11
  <2>2. PICK u \in DOMAIN CC[a] : F[x] = CC[a][u]
    BY <2>1
  <2>3. PICK b \in DOMAIN P : \E v \in DOMAIN CC[b] : F[y] = CC[b][v]
    BY <1>11
  <2>4. PICK v \in DOMAIN CC[b] : F[y] = CC[b][v]
    BY <2>3
  <2>5. a = b /\ u = v /\ i = j
    BY <2>2, <2>4, <1>8
  <2>6. QED
    BY <2>2, <2>4, <2>5, <1>10 DEF Flattens, OneToOne
<1>13. ASSUME NEW k \in DOMAIN F
       PROVE  /\ ToSet(F[k]) \subseteq ToSet(ids) /\ Len(F[k]) <= n
              /\ \A x, y \in ToSet(F[k]) : x # y => ~Overlap(p, x, y)
  <2>1. PICK a \in DOMAIN P : \E u \in DOMAIN CC[a] : F[k] = CC[a][u]
    BY <1>11
  <2>2. ToSet(F[k]) \subseteq ToSet(P[a]) /\ Len(F[k]) <= n
    BY <2>1, <1>5
  <2>3. QED
    BY <2>2, <1>1
<1>14. QED
  <2>1. /\ F \in Seq(Seq(X)) /\ Apart(F)
        /\ \A k \in DOMAIN F :
              /\ ToSet(F[k]) \subseteq ToSet(ids) /\ Len(F[k]) <= n
              /\ \A x, y \in ToSet(F[k]) : x # y => ~Overlap(p, x, y)
    BY <1>10, <1>12, <1>13
  <2>2. QED
    BY <2>1 DEF F

-----------------------------------------------------------------------------
(* The shape of a task's record.                                           *)

States == {"None", "Planning", "Implementing", "Verifying", "Completed", "Failed",
           "WaitingForUser", "WaitingForPermission"}

PlanningAt == {"propose", "plan_call", "judge", "accept"}
WorkingAt  == {"begin", "call", "act", "issue", "exec", "turn", "choose", "wave", "fold"}
Pcs        == {"off", "top", "move"} \union PlanningAt \union WorkingAt

Verdicts == {"none", "running", "ok", "bad", "err"}

Acts == StepActions \union {Submitted(p) : p \in Submissions} \union {NotAPlan}

Kinds == {"model_call", "turn_call", "plan_completion", "step_completion", "turn_completion",
          "plan_accepted", "plan_rejected", "plan_checkpoint", "plan_step_started",
          "plan_step_completed", "plan_scope_expansion", "subtask_started", "note", "tool",
          "tool_result", "tool_denied", "permission_ask", "user_response"}

Names == STRING \union {None}

Entries == [kind : Kinds, step : Names, act : Acts, turn : Nat, of : Nat]

Locals == [step : Names, act : Acts, tries : Nat, to : States, then : {"off", "top"},
           todo : Seq(Seq(Names)), kids : Seq(Children)]

Solos == UNION {{SoloPlan(p, s) : s \in StepIds(p)} : p \in Submissions}

TypeOK ==
  /\ journal \in [Tasks -> Seq(Entries)]
  /\ state \in [Tasks -> States]
  /\ plan \in [Tasks -> Plans]
  /\ settings \in Settings
  /\ pc \in [Tasks -> Pcs]
  /\ at \in [Tasks -> Locals]
  /\ verdict \in [Tasks -> Verdicts]
  /\ replies \in Nat
  /\ crashes \in Nat

\* Where a driver that is out of every handler goes next.
Moving(s, then) == [Idle EXCEPT !.to = s, !.then = then]

\* What journal j, state s, plan p, place c, locals l and verdict v of task t
\* have to do with each other.
ShapeOf(t, j, s, p, c, l, v) ==
  /\ c \in {"off", "top"} => l = Idle
  /\ c = "move" =>
       \/ l = Moving("Implementing", "top")
       \/ \E to \in {"Failed", "Verifying", "WaitingForUser", "WaitingForPermission"} :
            l = Moving(to, "off")
  /\ c \in PlanningAt => t = Root /\ s = "Planning" /\ l.kids = <<>>
  /\ c \in WorkingAt => s = "Implementing"
  /\ s = "Failed" => c = "off"
  /\ c \in {"plan_call", "call", "turn"} => Places(j, ModelCall) # {}
  /\ c \in {"begin", "call", "act"} => l.step \in StepIds(p)
  /\ c \in WorkingAt \ {"wave", "fold"} => l.kids = <<>>
  /\ c \in {"wave", "fold"} =>
       /\ t = Root
       /\ l.todo \in Seq(Seq(StepIds(p)))
  /\ c = "fold" => l.todo # <<>> /\ Len(l.kids) = Len(Head(l.todo))
  /\ t = Root => p \in Submissions \union {NoPlan} /\ v # "running" /\ s # "None"
  /\ t # Root => /\ p \in Solos \union {NoPlan}
                 /\ s # "Planning"
                 /\ s = "None" => c = "off" /\ j = <<>> /\ p = NoPlan /\ v = "none"

Shape(t) == ShapeOf(t, journal[t], state[t], plan[t], pc[t], at[t], verdict[t])

Shaped == TypeOK /\ \A t \in Tasks : Shape(t)

-----------------------------------------------------------------------------

LEMMA TasksAre == Root \in Tasks /\ Root \notin Children /\ \A t \in Tasks : t # Root => t \in Children
BY PlanStepsAssumption DEF Root, Tasks, Children

LEMMA ActsAre ==
  /\ Nothing \in Acts /\ NotAPlan \in Acts /\ Finish \in Acts /\ Ask \in Acts
  /\ \A p \in Submissions : Submitted(p) \in Acts
  /\ \A a \in Acts : a.kind = "plan" => a.plan \in Submissions
<1>1. Nothing \in Acts /\ NotAPlan \in Acts
  BY DEF Acts, Nothing, NotAPlan
<1>2. Finish \in Acts /\ Ask \in Acts
  BY DEF Acts, StepActions
<1>3. \A p \in Submissions : Submitted(p) \in Acts
  BY DEF Acts
<1>4. ASSUME NEW a \in Acts, a.kind = "plan" PROVE a.plan \in Submissions
  <2>1. a \notin StepActions
    BY <1>4 DEF StepActions, ToolCall, Finish, Ask
  <2>2. a # NotAPlan
    BY <1>4 DEF NotAPlan
  <2>3. PICK p \in Submissions : a = Submitted(p)
    BY <2>1, <2>2 DEF Acts
  <2>4. QED
    BY <2>3 DEF Submitted
<1>5. QED
  BY <1>1, <1>2, <1>3, <1>4

LEMMA EntryTyped ==
  ASSUME NEW k \in Kinds, NEW s \in Names, NEW a \in Acts, NEW n \in Nat, NEW i \in Nat
  PROVE  Entry(k, s, a, n, i) \in Entries
BY DEF Entry, Entries

LEMMA AboutTyped ==
  ASSUME NEW k \in Kinds, NEW s \in Names
  PROVE  About(k, s) \in Entries
<1>1. 0 \in Nat /\ Nothing \in Acts
  BY ActsAre
<1>2. QED
  BY <1>1, EntryTyped DEF About

LEMMA PlainTyped ==
  ASSUME NEW k \in Kinds
  PROVE  Plain(k) \in Entries
<1>1. 0 \in Nat /\ Nothing \in Acts /\ None \in Names
  BY ActsAre DEF Names
<1>2. QED
  BY <1>1, EntryTyped DEF Plain

LEMMA OutcomeTyped ==
  ASSUME NEW k \in Kinds, NEW i \in Nat
  PROVE  Outcome(k, i) \in Entries
<1>1. 0 \in Nat /\ Nothing \in Acts /\ None \in Names
  BY ActsAre DEF Names
<1>2. QED
  BY <1>1, EntryTyped DEF Outcome

LEMMA IdleTyped ==
  /\ Idle \in Locals
  /\ \A s \in States, then \in {"off", "top"} : Moving(s, then) \in Locals
<1>1. Idle \in Locals
  <2>a. None \in Names
    BY DEF Names
  <2>1. "None" \in States /\ "off" \in {"off", "top"} /\ 0 \in Nat
    BY DEF States
  <2>2. <<>> \in Seq(Seq(Names)) /\ <<>> \in Seq(Children)
    OBVIOUS
  <2>3. QED
    BY <2>a, <2>1, <2>2, ActsAre DEF Idle, Locals
<1>2. ASSUME NEW s \in States, NEW then \in {"off", "top"} PROVE Moving(s, then) \in Locals
  BY <1>1 DEF Moving, Locals
<1>3. QED
  BY <1>1, <1>2

LEMMA MovingIs ==
  ASSUME NEW s \in States, NEW then \in {"off", "top"}
  PROVE  /\ Moving(s, then).to = s /\ Moving(s, then).then = then
         /\ Moving(s, then).kids = <<>> /\ Idle.kids = <<>>
BY DEF Moving, Idle

\* Positions.
LEMMA LastOfIs ==
  ASSUME NEW n \in Nat, NEW S \in SUBSET (1 .. n)
  PROVE  /\ LastOf(S) \in 0 .. n
         /\ S = {} => LastOf(S) = 0
         /\ S # {} => LastOf(S) \in S /\ LastOf(S) # 0 /\ \A k \in S : k <= LastOf(S)
<1>1. CASE S = {}
  BY <1>1 DEF LastOf
<1>2. CASE S # {}
  <2> DEFINE D == {n - x : x \in S}
  <2>1. \A x \in S : x \in Nat /\ x <= n /\ n - x \in Nat /\ x # 0
    OBVIOUS
  <2>2. D \in SUBSET Nat /\ D # {}
    BY <1>2, <2>1
  <2>3. PICK d \in D : \A y \in D : d <= y
    <3> HIDE DEF D
    <3> QED BY <2>2, LeastNumber
  <2>4. PICK m \in S : d = n - m
    OBVIOUS
  <2>5. \A k \in S : k <= m
    <3> TAKE k \in S
    <3>1. n - m <= n - k
      BY <2>3, <2>4
    <3>2. QED
      BY <3>1, <2>1
  <2>6. LastOf(S) \in S /\ \A k \in S : k <= LastOf(S)
    BY <1>2, <2>5 DEF LastOf
  <2>7. LastOf(S) \in 1 .. n
    BY <2>6
  <2>8. QED
    BY <1>2, <2>6, <2>7
<1>3. QED
  BY <1>1, <1>2

LEMMA FirstOfIs ==
  ASSUME NEW S \in SUBSET Nat, 0 \notin S
  PROVE  /\ FirstOf(S) \in Nat
         /\ S = {} => FirstOf(S) = 0
         /\ S # {} => FirstOf(S) \in S /\ FirstOf(S) # 0 /\ \A k \in S : FirstOf(S) <= k
<1>1. CASE S = {}
  BY <1>1 DEF FirstOf
<1>2. CASE S # {}
  <2>1. \E x \in S : \A y \in S : x <= y
    BY <1>2, LeastNumber
  <2>2. FirstOf(S) \in S /\ \A k \in S : FirstOf(S) <= k
    BY <1>2, <2>1 DEF FirstOf
  <2>3. QED
    BY <1>2, <2>2
<1>3. QED
  BY <1>1, <1>2

\* A journal with one more entry.
LEMMA Appended ==
  ASSUME NEW X, NEW j \in Seq(X), NEW e \in X
  PROVE  /\ Append(j, e) \in Seq(X) /\ Len(Append(j, e)) = Len(j) + 1
         /\ Append(j, e)[Len(j) + 1] = e
         /\ \A i \in DOMAIN j : Append(j, e)[i] = j[i] /\ i \in Nat /\ i <= Len(j)
         /\ DOMAIN Append(j, e) = DOMAIN j \union {Len(j) + 1}
         /\ Len(j) + 1 \notin DOMAIN j /\ Len(j) \in Nat
<1>1. /\ Append(j, e) \in Seq(X) /\ Len(Append(j, e)) = Len(j) + 1
      /\ Append(j, e)[Len(j) + 1] = e /\ Len(j) \in Nat
      /\ DOMAIN j = 1 .. Len(j) /\ DOMAIN Append(j, e) = 1 .. Len(j) + 1
      /\ \A i \in 1 .. Len(j) : Append(j, e)[i] = j[i]
  OBVIOUS
<1>2. 1 .. Len(j) + 1 = (1 .. Len(j)) \union {Len(j) + 1} /\ Len(j) + 1 \notin 1 .. Len(j)
      /\ \A i \in 1 .. Len(j) : i \in Nat /\ i <= Len(j)
  BY <1>1
<1>3. QED
  BY <1>1, <1>2

LEMMA PlacesAppended ==
  ASSUME NEW X, NEW j \in Seq(X), NEW e \in X, NEW kinds
  PROVE  Places(Append(j, e), kinds)
           = Places(j, kinds) \union (IF e.kind \in kinds THEN {Len(j) + 1} ELSE {})
<1>1. /\ Append(j, e)[Len(j) + 1] = e
      /\ \A i \in DOMAIN j : Append(j, e)[i] = j[i]
      /\ DOMAIN Append(j, e) = DOMAIN j \union {Len(j) + 1}
  BY Appended
<1>2. \A i \in DOMAIN Append(j, e) :
        Append(j, e)[i].kind \in kinds
          <=> (i \in DOMAIN j /\ j[i].kind \in kinds) \/ (i = Len(j) + 1 /\ e.kind \in kinds)
  BY <1>1, Appended
<1>3. QED
  BY <1>1, <1>2 DEF Places

LEMMA PlacesAre ==
  ASSUME NEW X, NEW j \in Seq(X), NEW kinds
  PROVE  Places(j, kinds) \in SUBSET (1 .. Len(j)) /\ Len(j) \in Nat /\ 0 \notin Places(j, kinds)
         /\ Places(j, kinds) \in SUBSET Nat /\ Places(j, kinds) \subseteq DOMAIN j
<1>1. DOMAIN j = 1 .. Len(j) /\ Len(j) \in Nat /\ \A i \in 1 .. Len(j) : i \in Nat /\ i # 0
  OBVIOUS
<1>2. QED
  BY <1>1 DEF Places

LEMMA TwoAppended ==
  ASSUME NEW X, NEW j \in Seq(X), NEW a \in X, NEW b \in X
  PROVE  j \o <<a, b>> = Append(Append(j, a), b)
OBVIOUS


-----------------------------------------------------------------------------
(* What each handler does to the record of the task it runs for.           *)

Becomes(t, j, s, p, c, l, v) ==
  /\ journal' = [journal EXCEPT ![t] = j]
  /\ state'   = [state EXCEPT ![t] = s]
  /\ plan'    = [plan EXCEPT ![t] = p]
  /\ pc'      = [pc EXCEPT ![t] = c]
  /\ at'      = [at EXCEPT ![t] = l]
  /\ verdict' = [verdict EXCEPT ![t] = v]

\* The ways the locals are written.
WithAct(l, a)    == [l EXCEPT !.act = a]
WithTries(l, n)  == [l EXCEPT !.tries = n]
WithStep(l, s)   == [l EXCEPT !.step = s]
WithTodo(l, w)   == [l EXCEPT !.todo = w]
WithKids(l, k)   == [l EXCEPT !.kids = k]
Again(l)         == [l EXCEPT !.tries = @ + 1, !.act = Nothing]
LessOne(l)       == [l EXCEPT !.kids = Tail(@), !.todo = <<Tail(Head(@))>> \o Tail(@)]

LEMMA Unwritten ==
  ASSUME Shaped, NEW t \in Tasks
  PROVE  /\ journal = [journal EXCEPT ![t] = journal[t]] /\ state = [state EXCEPT ![t] = state[t]]
         /\ plan = [plan EXCEPT ![t] = plan[t]] /\ pc = [pc EXCEPT ![t] = pc[t]]
         /\ at = [at EXCEPT ![t] = at[t]] /\ verdict = [verdict EXCEPT ![t] = verdict[t]]
BY DEF Shaped, TypeOK

LEMMA MoveIs ==
  ASSUME Shaped, NEW t \in Tasks, Move(t)
  PROVE  /\ \/ /\ at[t].then = "off"
               /\ Becomes(t, journal[t], at[t].to, plan[t], "off", Idle, IF InWave(t) THEN "bad" ELSE verdict[t])
            \/ /\ at[t].then # "off"
               /\ Becomes(t, journal[t], at[t].to, plan[t], at[t].then, Idle, verdict[t])
         /\ UNCHANGED settings /\ UNCHANGED <<replies, crashes>>
BY Unwritten DEF Move, Becomes, Leave, Goto

LEMMA PassPlanningIs ==
  ASSUME Shaped, NEW t \in Tasks, PassPlanning(t)
  PROVE  /\ Becomes(t, journal[t], state[t], plan[t], "move", Moving("Implementing", "top"), verdict[t])
         /\ UNCHANGED settings /\ UNCHANGED <<replies, crashes>>
BY Unwritten DEF PassPlanning, Becomes, Moving, MoveTo

LEMMA EnterPlanningIs ==
  ASSUME Shaped, NEW t \in Tasks, EnterPlanning(t)
  PROVE  /\ Becomes(t, journal[t], state[t], plan[t], "propose", WithTries(Idle, PlanRejectionCount(journal[t])), verdict[t])
         /\ UNCHANGED settings /\ UNCHANGED <<replies, crashes>>
BY Unwritten DEF EnterPlanning, Becomes, WithTries, Goto

LEMMA LeavePlanningIs ==
  ASSUME Shaped, NEW t \in Tasks, LeavePlanning(t)
  PROVE  /\ \/ /\ HasAcceptedPlan(journal[t])
               /\ Becomes(t, journal[t], state[t], plan[t], "move", Moving("Implementing", "top"), verdict[t])
            \/ /\ ~HasAcceptedPlan(journal[t]) /\ PlanRejectionCount(journal[t]) >= MaxRepairs
               /\ Becomes(t, Append(journal[t], Plain("note")), state[t], plan[t], "move", Moving("Failed", "off"), verdict[t])
         /\ UNCHANGED settings /\ UNCHANGED <<replies, crashes>>
BY Unwritten DEF LeavePlanning, Becomes, Moving, MoveTo, Write

LEMMA ProposeIs ==
  ASSUME Shaped, NEW t \in Tasks, Propose(t)
  PROVE  /\ \/ /\ UnprocessedPlanSubmission(journal[t]) # 0
               /\ Becomes(t, journal[t], state[t], plan[t], "judge", WithAct(at[t], journal[t][UnprocessedPlanSubmission(journal[t])].act), verdict[t])
            \/ /\ UnprocessedPlanSubmission(journal[t]) = 0
               /\ Becomes(t, Append(journal[t], Entry("model_call", None, Nothing, CountModelCalls(journal[t]), 0)), state[t], plan[t], "plan_call", at[t], verdict[t])
         /\ UNCHANGED settings /\ UNCHANGED <<replies, crashes>>
BY Unwritten DEF Propose, Becomes, WithAct, Goto, Write

LEMMA PlanAnsweredIs ==
  ASSUME Shaped, NEW t \in Tasks, PlanAnswered(t)
  PROVE  /\ \E sub \in {Submitted(p) : p \in Submissions} \union {NotAPlan} :
              Becomes(t, Append(journal[t], Entry("plan_completion", None, sub, CallTurn(t), 0)), state[t], plan[t], "judge", WithAct(at[t], sub), verdict[t])
         /\ UNCHANGED settings /\ UNCHANGED <<replies, crashes>>
BY Unwritten DEF PlanAnswered, Becomes, WithAct, Goto, Write

LEMMA SavePlanIs ==
  ASSUME Shaped, NEW t \in Tasks, SavePlan(t)
  PROVE  /\ Becomes(t, journal[t], state[t], at[t].act.plan, "accept", at[t], verdict[t])
         /\ UNCHANGED settings /\ UNCHANGED <<replies, crashes>>
BY Unwritten DEF SavePlan, Becomes, Goto

LEMMA AcceptPlanIs ==
  ASSUME Shaped, NEW t \in Tasks, AcceptPlan(t)
  PROVE  /\ Becomes(t, Append(journal[t], Plain("plan_accepted")), state[t], plan[t], "move", Moving("Implementing", "top"), verdict[t])
         /\ UNCHANGED settings /\ UNCHANGED <<replies, crashes>>
BY Unwritten DEF AcceptPlan, Becomes, Moving, MoveTo, Write

LEMMA RejectPlanIs ==
  ASSUME Shaped, NEW t \in Tasks, RejectPlan(t)
  PROVE  /\ \/ /\ at[t].tries + 1 >= MaxRepairs
               /\ Becomes(t, Append(Append(journal[t], Plain("plan_rejected")), Plain("note")), state[t], plan[t], "move", Moving("Failed", "off"), verdict[t])
            \/ /\ ~(at[t].tries + 1 >= MaxRepairs)
               /\ Becomes(t, Append(journal[t], Plain("plan_rejected")), state[t], plan[t], "propose", Again(at[t]), verdict[t])
         /\ UNCHANGED settings /\ UNCHANGED <<replies, crashes>>
<1>1. journal[t] \in Seq(Entries) /\ "plan_rejected" \in Kinds /\ "note" \in Kinds /\ None \in Names /\ 0 \in Nat
  BY DEF Shaped, TypeOK, Kinds, Names
<1>2. Plain("plan_rejected") \in Entries /\ Plain("note") \in Entries
  BY <1>1, PlainTyped
<1>3. journal[t] \o <<Plain("plan_rejected"), Plain("note")>>
        = Append(Append(journal[t], Plain("plan_rejected")), Plain("note"))
  BY <1>1, <1>2, TwoAppended
<1>4. QED
  BY <1>3, Unwritten DEF RejectPlan, Becomes, Moving, Again, MoveTo, Goto, Write

LEMMA WaveChildDoneIs ==
  ASSUME Shaped, NEW t \in Tasks, WaveChildDone(t)
  PROVE  /\ Becomes(t, journal[t], "Completed", plan[t], "off", Idle, "ok")
         /\ UNCHANGED settings /\ UNCHANGED <<replies, crashes>>
BY Unwritten DEF WaveChildDone, Becomes, Leave, InWave

LEMMA ReissueCallIs ==
  ASSUME Shaped, NEW t \in Tasks, ReissueCall(t)
  PROVE  /\ /\ InterruptedToolCall(journal[t]) # 0
            /\ Becomes(t, Append(journal[t], Entry("tool", None, journal[t][InterruptedToolCall(journal[t])].act, 0, 0)), state[t], plan[t], "exec", WithAct(at[t], journal[t][InterruptedToolCall(journal[t])].act), verdict[t])
         /\ UNCHANGED settings /\ UNCHANGED <<replies, crashes>>
BY Unwritten DEF ReissueCall, Becomes, WithAct, Goto, Write

LEMMA PlanSpoiledIs ==
  ASSUME Shaped, NEW t \in Tasks, PlanSpoiled(t)
  PROVE  /\ Becomes(t, Append(journal[t], Plain("note")), state[t], plan[t], "move", Moving("Failed", "off"), verdict[t])
         /\ UNCHANGED settings /\ UNCHANGED <<replies, crashes>>
BY Unwritten DEF PlanSpoiled, Becomes, Moving, MoveTo, Write

LEMMA StepsDoneIs ==
  ASSUME Shaped, NEW t \in Tasks, StepsDone(t)
  PROVE  /\ Becomes(t, journal[t], state[t], plan[t], "move", Moving("Verifying", "off"), verdict[t])
         /\ UNCHANGED settings /\ UNCHANGED <<replies, crashes>>
BY Unwritten DEF StepsDone, Becomes, Moving, MoveTo

LEMMA BeginStepIs ==
  ASSUME Shaped, NEW t \in Tasks, BeginStep(t)
  PROVE  /\ Becomes(t, journal[t], state[t], plan[t], "begin", WithStep(at[t], NextStep(t)), verdict[t])
         /\ UNCHANGED settings /\ UNCHANGED <<replies, crashes>>
BY Unwritten DEF BeginStep, Becomes, WithStep, Goto

LEMMA BeginWaveIs ==
  ASSUME Shaped, NEW t \in Tasks, BeginWave(t)
  PROVE  /\ /\ Len(RestOfGroup(t)) > 1
            /\ Becomes(t, journal[t], state[t], plan[t], "wave", WithTodo(at[t], WaveChunks(RestOfGroup(t), plan[t], MaxParallel)), verdict[t])
         /\ UNCHANGED settings /\ UNCHANGED <<replies, crashes>>
BY Unwritten DEF BeginWave, Becomes, WithTodo, Goto

LEMMA TakeCheckpointIs ==
  ASSUME Shaped, NEW t \in Tasks, TakeCheckpoint(t)
  PROVE  /\ Becomes(t, Append(journal[t], About("plan_checkpoint", at[t].step)), state[t], plan[t], pc[t], at[t], verdict[t])
         /\ UNCHANGED settings /\ UNCHANGED <<replies, crashes>>
BY Unwritten DEF TakeCheckpoint, Becomes, Write

LEMMA StartStepIs ==
  ASSUME Shaped, NEW t \in Tasks, StartStep(t)
  PROVE  /\ Becomes(t, Append(journal[t], About("plan_step_started", at[t].step)), state[t], plan[t], pc[t], at[t], verdict[t])
         /\ UNCHANGED settings /\ UNCHANGED <<replies, crashes>>
BY Unwritten DEF StartStep, Becomes, Write

LEMMA ForceCompleteIs ==
  ASSUME Shaped, NEW t \in Tasks, ForceComplete(t)
  PROVE  /\ Becomes(t, Append(journal[t], About("plan_step_completed", at[t].step)), state[t], plan[t], "top", Idle, verdict[t])
         /\ UNCHANGED settings /\ UNCHANGED <<replies, crashes>>
BY Unwritten DEF ForceComplete, Becomes, Write, Goto

LEMMA ReplayActionIs ==
  ASSUME Shaped, NEW t \in Tasks, ReplayAction(t)
  PROVE  /\ /\ UnprocessedStepAction(journal[t], at[t].step) # 0
            /\ Becomes(t, journal[t], state[t], plan[t], "act", WithAct(at[t], journal[t][UnprocessedStepAction(journal[t], at[t].step)].act), verdict[t])
         /\ UNCHANGED settings /\ UNCHANGED <<replies, crashes>>
BY Unwritten DEF ReplayAction, Becomes, WithAct, Goto

LEMMA RequestActionIs ==
  ASSUME Shaped, NEW t \in Tasks, RequestAction(t)
  PROVE  /\ Becomes(t, Append(journal[t], Entry("model_call", at[t].step, Nothing, CountModelCalls(journal[t]), 0)), state[t], plan[t], "call", at[t], verdict[t])
         /\ UNCHANGED settings /\ UNCHANGED <<replies, crashes>>
BY Unwritten DEF RequestAction, Becomes, Write, Goto

LEMMA StepAnsweredIs ==
  ASSUME Shaped, NEW t \in Tasks, StepAnswered(t)
  PROVE  /\ \E a \in Decisions[at[t].step] :
              Becomes(t, Append(journal[t], Entry("step_completion", at[t].step, a, CallTurn(t), 0)), state[t], plan[t], "act", WithAct(at[t], a), verdict[t])
         /\ UNCHANGED settings /\ UNCHANGED <<replies, crashes>>
BY Unwritten DEF StepAnswered, Becomes, WithAct, Goto, Write

LEMMA NoteScopeExpansionIs ==
  ASSUME Shaped, NEW t \in Tasks, NoteScopeExpansion(t)
  PROVE  /\ Becomes(t, Append(journal[t], Plain("plan_scope_expansion")), state[t], plan[t], "issue", at[t], verdict[t])
         /\ UNCHANGED settings /\ UNCHANGED <<replies, crashes>>
BY Unwritten DEF NoteScopeExpansion, Becomes, Goto, Write

LEMMA IssueCallIs ==
  ASSUME Shaped, NEW t \in Tasks, IssueCall(t)
  PROVE  /\ Becomes(t, Append(journal[t], Entry("tool", None, at[t].act, 0, 0)), state[t], plan[t], "exec", at[t], verdict[t])
         /\ UNCHANGED settings /\ UNCHANGED <<replies, crashes>>
BY Unwritten DEF IssueCall, Becomes, Goto, Write

LEMMA FinishStepIs ==
  ASSUME Shaped, NEW t \in Tasks, FinishStep(t)
  PROVE  /\ Becomes(t, Append(journal[t], About("plan_step_completed", at[t].step)), state[t], plan[t], "top", Idle, verdict[t])
         /\ UNCHANGED settings /\ UNCHANGED <<replies, crashes>>
BY Unwritten DEF FinishStep, Becomes, Write, Goto

LEMMA AskUserIs ==
  ASSUME Shaped, NEW t \in Tasks, AskUser(t)
  PROVE  /\ Becomes(t, journal[t], state[t], plan[t], "move", Moving("WaitingForUser", "off"), verdict[t])
         /\ UNCHANGED settings /\ UNCHANGED <<replies, crashes>>
BY Unwritten DEF AskUser, Becomes, Moving, MoveTo

LEMMA ToolEndsIs ==
  ASSUME Shaped, NEW t \in Tasks, ToolEnds(t)
  PROVE  /\ \/ Becomes(t, Append(journal[t], Outcome("tool_result", LastToolCall(journal[t]))), state[t], plan[t], "top", Idle, verdict[t])
            \/ /\ at[t].act.file # NoFile
               /\ Becomes(t, Append(journal[t], Outcome("permission_ask", LastToolCall(journal[t]))), state[t], plan[t], "move", Moving("WaitingForPermission", "off"), verdict[t])
            \/ /\ at[t].act.file # NoFile
               /\ Becomes(t, Append(journal[t], Outcome("tool_denied", LastToolCall(journal[t]))), state[t], plan[t], "move", Moving("Failed", "off"), verdict[t])
         /\ UNCHANGED settings /\ UNCHANGED <<replies, crashes>>
BY Unwritten DEF ToolEnds, Becomes, Moving, MoveTo, Goto, Write

LEMMA RequestTurnIs ==
  ASSUME Shaped, NEW t \in Tasks, RequestTurn(t)
  PROVE  /\ Becomes(t, Append(journal[t], Entry("turn_call", None, Nothing, CountModelCalls(journal[t]), 0)), state[t], plan[t], "turn", at[t], verdict[t])
         /\ UNCHANGED settings /\ UNCHANGED <<replies, crashes>>
BY Unwritten DEF RequestTurn, Becomes, Write, Goto

LEMMA TurnAnsweredIs ==
  ASSUME Shaped, NEW t \in Tasks, TurnAnswered(t)
  PROVE  /\ \E a \in TurnDecisions :
              Becomes(t, Append(journal[t], Entry("turn_completion", None, a, CallTurn(t), 0)), state[t], plan[t], "choose", WithAct(at[t], a), verdict[t])
         /\ UNCHANGED settings /\ UNCHANGED <<replies, crashes>>
BY Unwritten DEF TurnAnswered, Becomes, WithAct, Goto, Write

LEMMA FinishTurnsIs ==
  ASSUME Shaped, NEW t \in Tasks, FinishTurns(t)
  PROVE  /\ Becomes(t, journal[t], state[t], plan[t], "move", Moving("Verifying", "off"), verdict[t])
         /\ UNCHANGED settings /\ UNCHANGED <<replies, crashes>>
BY Unwritten DEF FinishTurns, Becomes, Moving, MoveTo

LEMMA FaultIs ==
  ASSUME Shaped, NEW t \in Tasks, Fault(t)
  PROVE  /\ \/ /\ InWave(t)
               /\ Becomes(t, journal[t], state[t], plan[t], "off", Idle, "err")
            \/ /\ ~InWave(t)
               /\ Becomes(t, Append(journal[t], Plain("note")), state[t], plan[t], "move", Moving("Failed", "off"), verdict[t])
         /\ UNCHANGED settings /\ UNCHANGED <<replies, crashes>>
BY Unwritten DEF Fault, Becomes, Moving, Leave, MoveTo, Write

LEMMA JoinChunkIs ==
  ASSUME Shaped, NEW t \in Tasks, JoinChunk(t)
  PROVE  /\ Becomes(t, journal[t], state[t], plan[t], "fold", at[t], verdict[t])
         /\ UNCHANGED settings /\ UNCHANGED <<replies, crashes>>
BY Unwritten DEF JoinChunk, Becomes, Goto

LEMMA FoldFailureIs ==
  ASSUME Shaped, NEW t \in Tasks, FoldFailure(t)
  PROVE  /\ Becomes(t, Append(journal[t], Plain("note")), state[t], plan[t], "move", Moving("Failed", "off"), verdict[t])
         /\ UNCHANGED settings /\ UNCHANGED <<replies, crashes>>
BY Unwritten DEF FoldFailure, Becomes, Moving, MoveTo, Write

LEMMA FoldCheckpointIs ==
  ASSUME Shaped, NEW t \in Tasks, FoldCheckpoint(t)
  PROVE  /\ \/ /\ NeedsCheckpoint(t, Folded(t))
               /\ Becomes(t, Append(journal[t], About("plan_checkpoint", Folded(t))), state[t], plan[t], pc[t], at[t], verdict[t])
            \/ /\ ~NeedsCheckpoint(t, Folded(t))
               /\ Becomes(t, Append(journal[t], About("plan_step_started", Folded(t))), state[t], plan[t], pc[t], at[t], verdict[t])
         /\ UNCHANGED settings /\ UNCHANGED <<replies, crashes>>
BY Unwritten DEF FoldCheckpoint, Becomes, Write

LEMMA FoldCompleteIs ==
  ASSUME Shaped, NEW t \in Tasks, FoldComplete(t)
  PROVE  /\ Becomes(t, Append(journal[t], About("plan_step_completed", Folded(t))), state[t], plan[t], pc[t], LessOne(at[t]), verdict[t])
         /\ UNCHANGED settings /\ UNCHANGED <<replies, crashes>>
BY Unwritten DEF FoldComplete, Becomes, LessOne, Write

LEMMA NextChunkIs ==
  ASSUME Shaped, NEW t \in Tasks, NextChunk(t)
  PROVE  /\ \/ /\ Len(at[t].todo) > 1
               /\ Becomes(t, journal[t], state[t], plan[t], "wave", WithTodo(at[t], Tail(at[t].todo)), verdict[t])
            \/ /\ ~(Len(at[t].todo) > 1)
               /\ Becomes(t, journal[t], state[t], plan[t], "top", Idle, verdict[t])
         /\ UNCHANGED settings /\ UNCHANGED <<replies, crashes>>
BY Unwritten DEF NextChunk, Becomes, WithTodo, Goto

LEMMA ApproveIs ==
  ASSUME Shaped, NEW t \in Tasks, Approve(t)
  PROVE  /\ Becomes(t, Append(journal[t], Outcome("tool_result", PendingToolCall(journal[t]))), state[t], plan[t], "move", Moving("Implementing", "top"), verdict[t])
         /\ UNCHANGED settings /\ replies' = replies + 1 /\ UNCHANGED crashes
BY Unwritten DEF Approve, Becomes, Moving, MoveTo, Write

LEMMA DenyIs ==
  ASSUME Shaped, NEW t \in Tasks, Deny(t)
  PROVE  /\ Becomes(t, Append(journal[t], Outcome("tool_denied", PendingToolCall(journal[t]))), state[t], plan[t], "move", Moving("Failed", "off"), verdict[t])
         /\ UNCHANGED settings /\ replies' = replies + 1 /\ UNCHANGED crashes
BY Unwritten DEF Deny, Becomes, Moving, MoveTo, Write

LEMMA RespondIs ==
  ASSUME Shaped, NEW t \in Tasks, Respond(t)
  PROVE  /\ Becomes(t, Append(journal[t], Plain("user_response")), state[t], plan[t], "move", Moving("Implementing", "top"), verdict[t])
         /\ UNCHANGED settings /\ replies' = replies + 1 /\ UNCHANGED crashes
BY Unwritten DEF Respond, Becomes, Moving, MoveTo, Write


LEMMA BecameAt ==
  ASSUME Shaped, NEW t \in Tasks, NEW j, NEW s, NEW p, NEW c, NEW l, NEW v,
         Becomes(t, j, s, p, c, l, v)
  PROVE  /\ journal'[t] = j /\ state'[t] = s /\ plan'[t] = p
         /\ pc'[t] = c /\ at'[t] = l /\ verdict'[t] = v
         /\ \A u \in Tasks : u # t =>
              /\ journal'[u] = journal[u] /\ state'[u] = state[u] /\ plan'[u] = plan[u]
              /\ pc'[u] = pc[u] /\ at'[u] = at[u] /\ verdict'[u] = verdict[u]
BY DEF Shaped, TypeOK, Becomes

LEMMA Became ==
  ASSUME Shaped, NEW t \in Tasks,
         NEW j \in Seq(Entries), NEW s \in States, NEW p \in Plans,
         NEW c \in Pcs, NEW l \in Locals, NEW v \in Verdicts,
         Becomes(t, j, s, p, c, l, v), ShapeOf(t, j, s, p, c, l, v),
         settings' \in Settings, replies' \in Nat, crashes' \in Nat
  PROVE  Shaped'
<1>1. TypeOK'
  BY DEF Shaped, TypeOK, Becomes
<1>2. \A u \in Tasks : Shape(u)'
  <2> TAKE u \in Tasks
  <2>1. CASE u = t
    BY <2>1, BecameAt DEF Shape
  <2>2. CASE u # t
    <3>1. Shape(u)
      BY DEF Shaped
    <3>2. QED
      BY <2>2, <3>1, BecameAt DEF Shape
  <2>3. QED
    BY <2>1, <2>2
<1>3. QED
  BY <1>1, <1>2 DEF Shaped

\* What TypeOK says of one task.
LEMMA TaskTyped ==
  ASSUME Shaped, NEW t \in Tasks
  PROVE  /\ journal[t] \in Seq(Entries) /\ state[t] \in States /\ plan[t] \in Plans
         /\ pc[t] \in Pcs /\ at[t] \in Locals /\ verdict[t] \in Verdicts
         /\ settings \in Settings /\ replies \in Nat /\ crashes \in Nat /\ replies + 1 \in Nat
         /\ ShapeOf(t, journal[t], state[t], plan[t], pc[t], at[t], verdict[t])
BY DEF Shaped, TypeOK, Shape

\* The fields of the locals, and how they are written.
LEMMA LocalFields ==
  ASSUME NEW l \in Locals
  PROVE  /\ l.step \in Names /\ l.act \in Acts /\ l.tries \in Nat /\ l.to \in States
         /\ l.then \in {"off", "top"} /\ l.todo \in Seq(Seq(Names)) /\ l.kids \in Seq(Children)
BY DEF Locals

LEMMA WithActIs ==
  ASSUME NEW l \in Locals, NEW a \in Acts
  PROVE  /\ WithAct(l, a) \in Locals
         /\ WithAct(l, a).act = a /\ WithAct(l, a).step = l.step /\ WithAct(l, a).tries = l.tries
         /\ WithAct(l, a).kids = l.kids /\ WithAct(l, a).todo = l.todo
BY DEF Locals, WithAct

LEMMA WithTriesIs ==
  ASSUME NEW l \in Locals, NEW n \in Nat
  PROVE  /\ WithTries(l, n) \in Locals
         /\ WithTries(l, n).tries = n /\ WithTries(l, n).kids = l.kids
BY DEF Locals, WithTries

LEMMA AgainIs ==
  ASSUME NEW l \in Locals
  PROVE  /\ Again(l) \in Locals
         /\ Again(l).tries = l.tries + 1 /\ Again(l).act = Nothing /\ Again(l).kids = l.kids
<1>1. Nothing \in Acts /\ l.tries + 1 \in Nat
  BY ActsAre DEF Locals
<1>2. QED
  BY <1>1 DEF Locals, Again

LEMMA WithStepIs ==
  ASSUME NEW l \in Locals, NEW s \in Names
  PROVE  /\ WithStep(l, s) \in Locals
         /\ WithStep(l, s).step = s /\ WithStep(l, s).kids = l.kids
BY DEF Locals, WithStep

LEMMA WithTodoIs ==
  ASSUME NEW l \in Locals, NEW w \in Seq(Seq(Names))
  PROVE  /\ WithTodo(l, w) \in Locals
         /\ WithTodo(l, w).todo = w /\ WithTodo(l, w).kids = l.kids
BY DEF Locals, WithTodo

LEMMA WithKidsIs ==
  ASSUME NEW l \in Locals, NEW k \in Seq(Children)
  PROVE  /\ WithKids(l, k) \in Locals
         /\ WithKids(l, k).kids = k /\ WithKids(l, k).todo = l.todo
BY DEF Locals, WithKids

LEMMA LessOneIs ==
  ASSUME NEW l \in Locals, l.kids # <<>>, l.todo # <<>>, Head(l.todo) # <<>>
  PROVE  /\ LessOne(l) \in Locals
         /\ LessOne(l).kids = Tail(l.kids)
         /\ LessOne(l).todo = <<Tail(Head(l.todo))>> \o Tail(l.todo)
<1>1. l.kids \in Seq(Children) /\ l.todo \in Seq(Seq(Names))
  BY DEF Locals
<1>2. Tail(l.kids) \in Seq(Children)
  BY <1>1
<1>3. Head(l.todo) \in Seq(Names) /\ Tail(l.todo) \in Seq(Seq(Names))
  BY <1>1
<1>4. <<Tail(Head(l.todo))>> \in Seq(Seq(Names))
  BY <1>3
<1>5. <<Tail(Head(l.todo))>> \o Tail(l.todo) \in Seq(Seq(Names))
  BY <1>3, <1>4
<1>6. QED
  BY <1>2, <1>5 DEF Locals, LessOne

\* The plans there are.
LEMMA StepOfIs ==
  ASSUME NEW p \in ExecutionPlan, NEW id \in StepIds(p)
  PROVE  StepOf(p, id) \in PlanStep /\ StepOf(p, id).id = id
<1> DEFINE S == {i \in DOMAIN p.steps : p.steps[i].id = id}
           k == CHOOSE i \in DOMAIN p.steps :
               /\ p.steps[i].id = id
               /\ \A x \in DOMAIN p.steps : p.steps[x].id = id => i <= x
<1>0. p.steps \in Seq(PlanStep)
  BY DEF ExecutionPlan
<1>1. S # {} /\ S \in SUBSET Nat
  BY <1>0 DEF StepIds
<1>2. \E i \in S : \A x \in S : i <= x
  <2> HIDE DEF S
  <2> QED BY <1>1, LeastNumber
<1>3. k \in DOMAIN p.steps /\ p.steps[k].id = id
  BY <1>2
<1>4. StepOf(p, id) = p.steps[k]
  BY DEF StepOf
<1> HIDE DEF k
<1>5. QED
  BY <1>0, <1>3, <1>4

LEMMA SoloIs ==
  ASSUME NEW p \in ExecutionPlan, NEW s \in StepIds(p)
  PROVE  /\ SoloPlan(p, s) \in ExecutionPlan /\ StepIds(SoloPlan(p, s)) = {s}
         /\ SoloPlan(p, s).steps # <<>>
<1> DEFINE x == [StepOf(p, s) EXCEPT !.deps = {}]
<1>1. x \in PlanStep /\ x.id = s
  BY StepOfIs DEF PlanStep
<1>2. SoloPlan(p, s) = [p EXCEPT !.steps = <<x>>]
  BY DEF SoloPlan
<1> HIDE DEF x
<1>3. <<x>> \in Seq(PlanStep)
  BY <1>1
<1>4. SoloPlan(p, s) \in ExecutionPlan /\ SoloPlan(p, s).steps = <<x>>
  BY <1>2, <1>3 DEF ExecutionPlan
<1>5. StepIds(SoloPlan(p, s)) = {s}
  BY <1>1, <1>4 DEF StepIds
<1>6. QED
  BY <1>4, <1>5

LEMMA PlansAre ==
  /\ Plans = Submissions \union {NoPlan} \union Solos
  /\ NoPlan \notin Solos /\ StepIds(NoPlan) = {}
  /\ \A p \in Plans : p \in ExecutionPlan /\ StepIds(p) \subseteq DOMAIN Decisions \ {None}
                      /\ StepIds(p) \subseteq Names
  /\ \A p \in Solos : \E s \in Names : StepIds(p) = {s}
<1>1. Plans = Submissions \union {NoPlan} \union Solos
  BY DEF Plans, Solos
<1>2. NoPlan \in ExecutionPlan /\ StepIds(NoPlan) = {}
  BY DEF NoPlan, ExecutionPlan, StepIds
<1>3. ASSUME NEW p \in ExecutionPlan PROVE StepIds(p) \subseteq Names
  <2>1. \A i \in DOMAIN p.steps : p.steps[i] \in PlanStep
    <3>1. p.steps \in Seq(PlanStep)
      BY DEF ExecutionPlan
    <3>2. QED
      BY <3>1
  <2>2. \A x \in PlanStep : x.id \in STRING
    BY DEF PlanStep
  <2>3. QED
    BY <2>1, <2>2 DEF StepIds, Names
<1>4. \A p \in Submissions : p \in ExecutionPlan /\ StepIds(p) \subseteq DOMAIN Decisions \ {None}
  BY PlanStepsAssumption
<1>5. ASSUME NEW p \in Solos
      PROVE  /\ p \in ExecutionPlan /\ p.steps # <<>>
             /\ StepIds(p) \subseteq DOMAIN Decisions \ {None}
             /\ \E s \in Names : StepIds(p) = {s}
  <2>1. PICK q \in Submissions : \E s \in StepIds(q) : p = SoloPlan(q, s)
    BY DEF Solos
  <2>2. PICK s \in StepIds(q) : p = SoloPlan(q, s)
    BY <2>1
  <2>3. q \in ExecutionPlan /\ s \in DOMAIN Decisions \ {None} /\ s \in Names
    BY <1>3, <1>4
  <2>4. QED
    BY <2>2, <2>3, SoloIs
<1>6. NoPlan \notin Solos
  BY <1>5 DEF NoPlan
<1>7. QED
  BY <1>1, <1>2, <1>3, <1>4, <1>5, <1>6

LEMMA Computed ==
  ASSUME NEW p \in Plans
  PROVE  /\ \A m \in BOOLEAN : ErrorsOf[p][m] = Validate(p, m)
         /\ OrderOf[p] = ScheduleOrder(p)
         /\ \A s \in ToSet(ScheduleOrder(p)) : GroupOf[p][s] = GroupFor(p, s)
BY DEF ErrorsOf, OrderOf, GroupOf

\* The step a driver turns to, and what is left of its group.
LEMMA NextStepReady ==
  ASSUME Shaped, NEW t \in Tasks,
         ErrorsOf[plan[t]][settings.manual] = {}, NextStep(t) # None
  PROVE  /\ NextStep(t) \in StepIds(plan[t]) /\ NextStep(t) \notin CompletedPlanSteps(journal[t])
         /\ RestOfGroup(t) \in Seq(StepIds(plan[t])) /\ OneToOne(RestOfGroup(t))
         /\ ToSet(RestOfGroup(t)) \intersect CompletedPlanSteps(journal[t]) = {}
         /\ \A x \in ToSet(RestOfGroup(t)) \union {NextStep(t)} :
              StepOf(plan[t], x).deps \subseteq CompletedPlanSteps(journal[t])
<1> DEFINE p == plan[t]
           done == CompletedPlanSteps(journal[t])
<1>1. p \in Plans /\ p \in ExecutionPlan /\ settings.manual \in BOOLEAN
  BY TaskTyped, PlansAre DEF Settings
<1>2. Validate(p, settings.manual) = {} /\ OrderOf[p] = ScheduleOrder(p)
  BY <1>1, Computed
<1>3. NextStep(t) = NextIncomplete(ScheduleOrder(p), done)
  BY <1>2 DEF NextStep
<1> HIDE DEF p, done
<1>4. NextIncomplete(ScheduleOrder(p), done) # NoStep
  BY <1>3 DEF None, NoStep
<1> DEFINE s == NextIncomplete(ScheduleOrder(p), done)
           rest == Keep(GroupFor(p, s), StepIds(p) \ done)
<1>5. /\ s \in StepIds(p) /\ s \notin done /\ s \in ToSet(ScheduleOrder(p))
      /\ rest \in Seq(StepIds(p)) /\ OneToOne(rest)
      /\ ToSet(rest) \intersect done = {}
      /\ \A x \in ToSet(rest) \union {s} : StepOf(p, x).deps \subseteq done
  BY <1>1, <1>2, <1>4, GroupIsReady
<1>6. GroupOf[p][s] = GroupFor(p, s)
  <2> HIDE DEF s
  <2> QED BY <1>1, <1>5, Computed
<1>7. RestOfGroup(t) = rest /\ NextStep(t) = s
  BY <1>3, <1>6 DEF RestOfGroup, p, done
<1> HIDE DEF s, rest
<1>8. QED
  BY <1>5, <1>7 DEF p, done

LEMMA CountTyped ==
  ASSUME NEW X, NEW j \in Seq(X), NEW kinds
  PROVE  /\ IsFiniteSet(Places(j, kinds)) /\ Cardinality(Places(j, kinds)) \in Nat
         /\ CountModelCalls(j) \in Nat /\ PlanRejectionCount(j) \in Nat
<1>1. ASSUME NEW S \in SUBSET (1 .. Len(j)) PROVE IsFiniteSet(S) /\ Cardinality(S) \in Nat
  <2>1. IsFiniteSet(1 .. Len(j))
    BY FS_Interval
  <2>2. IsFiniteSet(S)
    BY <2>1, FS_Subset
  <2>3. QED
    BY <2>2, FS_CardinalityType
<1>2. \A K : Places(j, K) \in SUBSET (1 .. Len(j))
  BY PlacesAre
<1>3. Places(j, ModelCompletion) \ {Len(j)} \in SUBSET (1 .. Len(j))
  BY <1>2
<1>4. QED
  BY <1>1, <1>2, <1>3 DEF CountModelCalls, PlanRejectionCount

LEMMA CallTurnTyped ==
  ASSUME Shaped, NEW t \in Tasks, pc[t] \in {"plan_call", "call", "turn"}
  PROVE  CallTurn(t) \in Nat
<1>1. journal[t] \in Seq(Entries) /\ Places(journal[t], ModelCall) # {}
  BY TaskTyped DEF ShapeOf
<1>2. Places(journal[t], ModelCall) \in SUBSET (1 .. Len(journal[t])) /\ Len(journal[t]) \in Nat
      /\ Places(journal[t], ModelCall) \subseteq DOMAIN journal[t]
  BY <1>1, PlacesAre
<1>3. LastOf(Places(journal[t], ModelCall)) \in DOMAIN journal[t]
  BY <1>1, <1>2, LastOfIs
<1>4. journal[t][LastOf(Places(journal[t], ModelCall))] \in Entries
  BY <1>1, <1>3
<1>5. QED
  BY <1>4 DEF CallTurn, Entries

LEMMA PlacesForAre ==
  ASSUME NEW X, NEW j \in Seq(X), NEW kinds, NEW s
  PROVE  /\ PlacesFor(j, kinds, s) \in SUBSET (1 .. Len(j)) /\ Len(j) \in Nat
         /\ PlacesFor(j, kinds, s) \in SUBSET Nat /\ 0 \notin PlacesFor(j, kinds, s)
         /\ PlacesFor(j, kinds, s) \subseteq DOMAIN j
BY PlacesAre DEF PlacesFor

LEMMA CallPlaced ==
  ASSUME NEW j \in Seq(Entries), NEW s \in Names, NEW n \in Nat
  PROVE  /\ Places(Append(j, Entry("model_call", s, Nothing, n, 0)), ModelCall) # {}
         /\ Places(Append(j, Entry("turn_call", s, Nothing, n, 0)), ModelCall) # {}
<1>1. ASSUME NEW e \in Entries, e.kind \in ModelCall PROVE Places(Append(j, e), ModelCall) # {}
  <2>1. Places(Append(j, e), ModelCall) = Places(j, ModelCall) \union {Len(j) + 1}
    BY <1>1, PlacesAppended
  <2>2. QED
    BY <2>1
<1>k. "model_call" \in Kinds /\ "turn_call" \in Kinds /\ 0 \in Nat /\ Nothing \in Acts
  BY ActsAre DEF Kinds
<1>2. /\ Entry("model_call", s, Nothing, n, 0) \in Entries
      /\ Entry("turn_call", s, Nothing, n, 0) \in Entries
  BY <1>k, EntryTyped
<1>3. /\ Entry("model_call", s, Nothing, n, 0).kind \in ModelCall
      /\ Entry("turn_call", s, Nothing, n, 0).kind \in ModelCall
  BY DEF Entry, ModelCall
<1>4. QED
  BY <1>1, <1>2, <1>3

\* The step a wave folds next.
LEMMA FoldedIs ==
  ASSUME Shaped, NEW t \in Tasks, Folding(t)
  PROVE  /\ at[t].todo \in Seq(Seq(Names)) /\ at[t].todo # <<>>
         /\ Head(at[t].todo) \in Seq(Names) /\ Head(at[t].todo) # <<>>
         /\ Folded(t) \in Names
         /\ at[t].kids \in Seq(Children) /\ at[t].kids # <<>>
         /\ Len(at[t].kids) = Len(Head(at[t].todo))
<1>1. at[t].todo \in Seq(Seq(Names)) /\ at[t].kids \in Seq(Children) /\ at[t].kids # <<>>
  BY TaskTyped, LocalFields DEF Folding
<1>2. at[t].todo # <<>> /\ Len(at[t].kids) = Len(Head(at[t].todo))
  BY TaskTyped DEF Folding, ShapeOf, WorkingAt
<1>3. Head(at[t].todo) \in Seq(Names)
  BY <1>1, <1>2
<1>4. Head(at[t].todo) # <<>>
  BY <1>1, <1>2, <1>3
<1>5. QED
  BY <1>1, <1>2, <1>3, <1>4 DEF Folded

LEMMA PassPlanningShaped ==
  ASSUME Shaped, NEW t \in Tasks, PassPlanning(t)
  PROVE  Shaped'
<1>0. /\ settings' \in Settings /\ replies' \in Nat /\ crashes' \in Nat
      /\ ShapeOf(t, journal[t], state[t], plan[t], pc[t], at[t], verdict[t])
  BY TaskTyped, PassPlanningIs
<1>1. ASSUME Becomes(t, journal[t], state[t], plan[t], "move", Moving("Implementing", "top"), verdict[t])
      PROVE  Shaped'
  <2>1. journal[t] \in Seq(Entries)
    BY TaskTyped
  <2>2. state[t] \in States /\ plan[t] \in Plans /\ "move" \in Pcs
    BY TaskTyped DEF States, Pcs, PlanningAt, WorkingAt
  <2>3. Moving("Implementing", "top") \in Locals
    BY IdleTyped DEF States
  <2>4. verdict[t] \in Verdicts
    BY TaskTyped DEF Verdicts
  <2>5. ShapeOf(t, journal[t], state[t], plan[t], "move", Moving("Implementing", "top"), verdict[t])
    BY <1>0, <2>1, MovingIs, TaskTyped, LocalFields, ActsAre DEF ShapeOf, PassPlanning, PlanningAt, WorkingAt, States, InWave
  <2>6. QED
    BY <1>0, <1>1, <2>1, <2>2, <2>3, <2>4, <2>5, Became
<1>2. QED
  BY PassPlanningIs, <1>1

LEMMA EnterPlanningShaped ==
  ASSUME Shaped, NEW t \in Tasks, EnterPlanning(t)
  PROVE  Shaped'
<1>0. /\ settings' \in Settings /\ replies' \in Nat /\ crashes' \in Nat
      /\ ShapeOf(t, journal[t], state[t], plan[t], pc[t], at[t], verdict[t])
  BY TaskTyped, EnterPlanningIs
<1>p. CountModelCalls(journal[t]) \in Nat /\ PlanRejectionCount(journal[t]) \in Nat
  BY TaskTyped, CountTyped
<1>1. ASSUME Becomes(t, journal[t], state[t], plan[t], "propose", WithTries(Idle, PlanRejectionCount(journal[t])), verdict[t])
      PROVE  Shaped'
  <2>1. journal[t] \in Seq(Entries)
    BY TaskTyped
  <2>2. state[t] \in States /\ plan[t] \in Plans /\ "propose" \in Pcs
    BY TaskTyped, <1>p DEF States, Pcs, PlanningAt, WorkingAt
  <2>3. WithTries(Idle, PlanRejectionCount(journal[t])) \in Locals
    BY TaskTyped, IdleTyped, WithTriesIs, <1>p
  <2>f. WithTries(Idle, PlanRejectionCount(journal[t])).kids = Idle.kids
    BY TaskTyped, IdleTyped, WithTriesIs, <1>p
  <2>4. verdict[t] \in Verdicts
    BY TaskTyped DEF Verdicts
  <2>5. ShapeOf(t, journal[t], state[t], plan[t], "propose", WithTries(Idle, PlanRejectionCount(journal[t])), verdict[t])
    BY <1>0, <2>1, MovingIs, TaskTyped, LocalFields, ActsAre, <1>p, <2>f DEF ShapeOf, EnterPlanning, PlanningAt, WorkingAt, States, InWave, AtPlanning
  <2>6. QED
    BY <1>0, <1>1, <2>1, <2>2, <2>3, <2>4, <2>5, Became
<1>2. QED
  BY EnterPlanningIs, <1>1

LEMMA LeavePlanningShaped ==
  ASSUME Shaped, NEW t \in Tasks, LeavePlanning(t)
  PROVE  Shaped'
<1>0. /\ settings' \in Settings /\ replies' \in Nat /\ crashes' \in Nat
      /\ ShapeOf(t, journal[t], state[t], plan[t], pc[t], at[t], verdict[t])
  BY TaskTyped, LeavePlanningIs
<1>1. ASSUME HasAcceptedPlan(journal[t]),
             Becomes(t, journal[t], state[t], plan[t], "move", Moving("Implementing", "top"), verdict[t])
      PROVE  Shaped'
  <2>1. journal[t] \in Seq(Entries)
    BY TaskTyped
  <2>2. state[t] \in States /\ plan[t] \in Plans /\ "move" \in Pcs
    BY TaskTyped DEF States, Pcs, PlanningAt, WorkingAt
  <2>3. Moving("Implementing", "top") \in Locals
    BY IdleTyped, <1>1 DEF States
  <2>4. verdict[t] \in Verdicts
    BY TaskTyped DEF Verdicts
  <2>5. ShapeOf(t, journal[t], state[t], plan[t], "move", Moving("Implementing", "top"), verdict[t])
    BY <1>0, <2>1, MovingIs, TaskTyped, LocalFields, ActsAre DEF ShapeOf, LeavePlanning, PlanningAt, WorkingAt, States, InWave, AtPlanning
  <2>6. QED
    BY <1>0, <1>1, <2>1, <2>2, <2>3, <2>4, <2>5, Became
<1>2. ASSUME ~HasAcceptedPlan(journal[t]) /\ PlanRejectionCount(journal[t]) >= MaxRepairs,
             Becomes(t, Append(journal[t], Plain("note")), state[t], plan[t], "move", Moving("Failed", "off"), verdict[t])
      PROVE  Shaped'
  <2>k. "note" \in Kinds /\ 0 \in Nat /\ None \in Names
    BY DEF Kinds, Names
  <2>e. Plain("note") \in Entries
    BY <2>k, PlainTyped, TaskTyped, LocalFields, ActsAre, <1>2
  <2>1. Append(journal[t], Plain("note")) \in Seq(Entries)
    BY TaskTyped, <2>e, Appended
  <2>2. state[t] \in States /\ plan[t] \in Plans /\ "move" \in Pcs
    BY TaskTyped DEF States, Pcs, PlanningAt, WorkingAt
  <2>3. Moving("Failed", "off") \in Locals
    BY IdleTyped, <1>2 DEF States
  <2>4. verdict[t] \in Verdicts
    BY TaskTyped DEF Verdicts
  <2>5. ShapeOf(t, Append(journal[t], Plain("note")), state[t], plan[t], "move", Moving("Failed", "off"), verdict[t])
    BY <1>0, <2>1, MovingIs, TaskTyped, LocalFields, ActsAre DEF ShapeOf, LeavePlanning, PlanningAt, WorkingAt, States, InWave, AtPlanning
  <2>6. QED
    BY <1>0, <1>2, <2>1, <2>2, <2>3, <2>4, <2>5, Became
<1>3. QED
  BY LeavePlanningIs, <1>1, <1>2

LEMMA ProposeShaped ==
  ASSUME Shaped, NEW t \in Tasks, Propose(t)
  PROVE  Shaped'
<1>0. /\ settings' \in Settings /\ replies' \in Nat /\ crashes' \in Nat
      /\ ShapeOf(t, journal[t], state[t], plan[t], pc[t], at[t], verdict[t])
  BY TaskTyped, ProposeIs
<1>p. CountModelCalls(journal[t]) \in Nat /\ PlanRejectionCount(journal[t]) \in Nat
  BY TaskTyped, CountTyped
<1>q. UnprocessedPlanSubmission(journal[t]) # 0 => journal[t][UnprocessedPlanSubmission(journal[t])].act \in Acts
  <2>1. journal[t] \in Seq(Entries)
    BY TaskTyped
  <2>2. UnprocessedPlanSubmission(journal[t]) # 0 => UnprocessedPlanSubmission(journal[t]) \in DOMAIN journal[t]
    BY <2>1, PlacesAre,  LastOfIs DEF UnprocessedPlanSubmission
  <2>4. \A i \in DOMAIN journal[t] : journal[t][i] \in Entries
    BY <2>1
  <2>3. \A e \in Entries : e.act \in Acts
    BY DEF Entries
  <2>5. QED
    BY <2>2, <2>3, <2>4
<1>1. ASSUME UnprocessedPlanSubmission(journal[t]) # 0,
             Becomes(t, journal[t], state[t], plan[t], "judge", WithAct(at[t], journal[t][UnprocessedPlanSubmission(journal[t])].act), verdict[t])
      PROVE  Shaped'
  <2>1. journal[t] \in Seq(Entries)
    BY TaskTyped
  <2>2. state[t] \in States /\ plan[t] \in Plans /\ "judge" \in Pcs
    BY TaskTyped, <1>p, <1>q DEF States, Pcs, PlanningAt, WorkingAt
  <2>3. WithAct(at[t], journal[t][UnprocessedPlanSubmission(journal[t])].act) \in Locals
    BY TaskTyped, LocalFields, WithActIs, <1>p, <1>q, <1>1
  <2>f. WithAct(at[t], journal[t][UnprocessedPlanSubmission(journal[t])].act).kids = at[t].kids /\ WithAct(at[t], journal[t][UnprocessedPlanSubmission(journal[t])].act).step = at[t].step
    BY TaskTyped, LocalFields, WithActIs, <1>p, <1>q, <1>1
  <2>4. verdict[t] \in Verdicts
    BY TaskTyped DEF Verdicts
  <2>5. ShapeOf(t, journal[t], state[t], plan[t], "judge", WithAct(at[t], journal[t][UnprocessedPlanSubmission(journal[t])].act), verdict[t])
    BY <1>0, <2>1, MovingIs, TaskTyped, LocalFields, ActsAre, <1>p, <1>q, <2>f DEF ShapeOf, Propose, PlanningAt, WorkingAt, States, InWave
  <2>6. QED
    BY <1>0, <1>1, <2>1, <2>2, <2>3, <2>4, <2>5, Became
<1>2. ASSUME UnprocessedPlanSubmission(journal[t]) = 0,
             Becomes(t, Append(journal[t], Entry("model_call", None, Nothing, CountModelCalls(journal[t]), 0)), state[t], plan[t], "plan_call", at[t], verdict[t])
      PROVE  Shaped'
  <2>k. "model_call" \in Kinds /\ 0 \in Nat /\ None \in Names
    BY DEF Kinds, Names
  <2>e. Entry("model_call", None, Nothing, CountModelCalls(journal[t]), 0) \in Entries
    BY <2>k, EntryTyped, TaskTyped, LocalFields, ActsAre, <1>p, <1>q, <1>2
  <2>1. Append(journal[t], Entry("model_call", None, Nothing, CountModelCalls(journal[t]), 0)) \in Seq(Entries)
    BY TaskTyped, <2>e, Appended
  <2>2. state[t] \in States /\ plan[t] \in Plans /\ "plan_call" \in Pcs
    BY TaskTyped, <1>p, <1>q DEF States, Pcs, PlanningAt, WorkingAt
  <2>3. at[t] \in Locals
    BY TaskTyped, <1>p, <1>q, <1>2
  <2>4. verdict[t] \in Verdicts
    BY TaskTyped DEF Verdicts
  <2>g. Places(Append(journal[t], Entry("model_call", None, Nothing, CountModelCalls(journal[t]), 0)), ModelCall) # {}
    BY CallPlaced, TaskTyped, LocalFields, <2>k, <1>p, <1>q
  <2>5. ShapeOf(t, Append(journal[t], Entry("model_call", None, Nothing, CountModelCalls(journal[t]), 0)), state[t], plan[t], "plan_call", at[t], verdict[t])
    BY <1>0, <2>1, <2>g, MovingIs, TaskTyped, LocalFields, ActsAre, <1>p, <1>q DEF ShapeOf, Propose, PlanningAt, WorkingAt, States, InWave
  <2>6. QED
    BY <1>0, <1>2, <2>1, <2>2, <2>3, <2>4, <2>5, Became
<1>3. QED
  BY ProposeIs, <1>1, <1>2

LEMMA PlanAnsweredShaped ==
  ASSUME Shaped, NEW t \in Tasks, PlanAnswered(t)
  PROVE  Shaped'
<1>0. /\ settings' \in Settings /\ replies' \in Nat /\ crashes' \in Nat
      /\ ShapeOf(t, journal[t], state[t], plan[t], pc[t], at[t], verdict[t])
  BY TaskTyped, PlanAnsweredIs
<1>p. CallTurn(t) \in Nat
  BY CallTurnTyped DEF PlanAnswered
<1>1. ASSUME NEW sub \in {Submitted(p) : p \in Submissions} \union {NotAPlan},
             Becomes(t, Append(journal[t], Entry("plan_completion", None, sub, CallTurn(t), 0)), state[t], plan[t], "judge", WithAct(at[t], sub), verdict[t])
      PROVE  Shaped'
  <2>a. sub \in Acts
    BY ActsAre, <1>p, PlanStepsAssumption DEF Acts
  <2>k. "plan_completion" \in Kinds /\ 0 \in Nat /\ None \in Names
    BY DEF Kinds, Names
  <2>e. Entry("plan_completion", None, sub, CallTurn(t), 0) \in Entries
    BY <2>k, EntryTyped, TaskTyped, LocalFields, ActsAre, <1>p, <2>a
  <2>1. Append(journal[t], Entry("plan_completion", None, sub, CallTurn(t), 0)) \in Seq(Entries)
    BY TaskTyped, <2>e, Appended
  <2>2. state[t] \in States /\ plan[t] \in Plans /\ "judge" \in Pcs
    BY TaskTyped, <1>p DEF States, Pcs, PlanningAt, WorkingAt
  <2>3. WithAct(at[t], sub) \in Locals
    BY TaskTyped, LocalFields, WithActIs, <1>p, <2>a
  <2>f. WithAct(at[t], sub).kids = at[t].kids /\ WithAct(at[t], sub).step = at[t].step
    BY TaskTyped, LocalFields, WithActIs, <1>p, <2>a
  <2>4. verdict[t] \in Verdicts
    BY TaskTyped DEF Verdicts
  <2>5. ShapeOf(t, Append(journal[t], Entry("plan_completion", None, sub, CallTurn(t), 0)), state[t], plan[t], "judge", WithAct(at[t], sub), verdict[t])
    BY <1>0, <2>1, MovingIs, TaskTyped, LocalFields, ActsAre, <1>p, <2>a, <2>f DEF ShapeOf, PlanAnswered, PlanningAt, WorkingAt, States, InWave
  <2>6. QED
    BY <1>0, <1>1, <2>1, <2>2, <2>3, <2>4, <2>5, Became
<1>2. QED
  BY PlanAnsweredIs, <1>1

LEMMA SavePlanShaped ==
  ASSUME Shaped, NEW t \in Tasks, SavePlan(t)
  PROVE  Shaped'
<1>0. /\ settings' \in Settings /\ replies' \in Nat /\ crashes' \in Nat
      /\ ShapeOf(t, journal[t], state[t], plan[t], pc[t], at[t], verdict[t])
  BY TaskTyped, SavePlanIs
<1>p. at[t].act.plan \in Submissions /\ at[t].act.plan \in Plans
  <2>1. at[t].act \in Acts /\ at[t].act.kind = "plan"
    BY TaskTyped, LocalFields DEF SavePlan, Acceptable
  <2>2. QED
    BY <2>1, ActsAre, PlansAre
<1>1. ASSUME Becomes(t, journal[t], state[t], at[t].act.plan, "accept", at[t], verdict[t])
      PROVE  Shaped'
  <2>1. journal[t] \in Seq(Entries)
    BY TaskTyped
  <2>2. state[t] \in States /\ at[t].act.plan \in Plans /\ "accept" \in Pcs
    BY TaskTyped, <1>p DEF States, Pcs, PlanningAt, WorkingAt
  <2>3. at[t] \in Locals
    BY TaskTyped, <1>p
  <2>4. verdict[t] \in Verdicts
    BY TaskTyped DEF Verdicts
  <2>5. ShapeOf(t, journal[t], state[t], at[t].act.plan, "accept", at[t], verdict[t])
    BY <1>0, <2>1, MovingIs, TaskTyped, LocalFields, ActsAre, <1>p DEF ShapeOf, SavePlan, PlanningAt, WorkingAt, States, InWave
  <2>6. QED
    BY <1>0, <1>1, <2>1, <2>2, <2>3, <2>4, <2>5, Became
<1>2. QED
  BY SavePlanIs, <1>1

LEMMA AcceptPlanShaped ==
  ASSUME Shaped, NEW t \in Tasks, AcceptPlan(t)
  PROVE  Shaped'
<1>0. /\ settings' \in Settings /\ replies' \in Nat /\ crashes' \in Nat
      /\ ShapeOf(t, journal[t], state[t], plan[t], pc[t], at[t], verdict[t])
  BY TaskTyped, AcceptPlanIs
<1>1. ASSUME Becomes(t, Append(journal[t], Plain("plan_accepted")), state[t], plan[t], "move", Moving("Implementing", "top"), verdict[t])
      PROVE  Shaped'
  <2>k. "plan_accepted" \in Kinds /\ 0 \in Nat /\ None \in Names
    BY DEF Kinds, Names
  <2>e. Plain("plan_accepted") \in Entries
    BY <2>k, PlainTyped, TaskTyped, LocalFields, ActsAre
  <2>1. Append(journal[t], Plain("plan_accepted")) \in Seq(Entries)
    BY TaskTyped, <2>e, Appended
  <2>2. state[t] \in States /\ plan[t] \in Plans /\ "move" \in Pcs
    BY TaskTyped DEF States, Pcs, PlanningAt, WorkingAt
  <2>3. Moving("Implementing", "top") \in Locals
    BY IdleTyped DEF States
  <2>4. verdict[t] \in Verdicts
    BY TaskTyped DEF Verdicts
  <2>5. ShapeOf(t, Append(journal[t], Plain("plan_accepted")), state[t], plan[t], "move", Moving("Implementing", "top"), verdict[t])
    BY <1>0, <2>1, MovingIs, TaskTyped, LocalFields, ActsAre DEF ShapeOf, AcceptPlan, PlanningAt, WorkingAt, States, InWave
  <2>6. QED
    BY <1>0, <1>1, <2>1, <2>2, <2>3, <2>4, <2>5, Became
<1>2. QED
  BY AcceptPlanIs, <1>1

LEMMA RejectPlanShaped ==
  ASSUME Shaped, NEW t \in Tasks, RejectPlan(t)
  PROVE  Shaped'
<1>0. /\ settings' \in Settings /\ replies' \in Nat /\ crashes' \in Nat
      /\ ShapeOf(t, journal[t], state[t], plan[t], pc[t], at[t], verdict[t])
  BY TaskTyped, RejectPlanIs
<1>1. ASSUME at[t].tries + 1 >= MaxRepairs,
             Becomes(t, Append(Append(journal[t], Plain("plan_rejected")), Plain("note")), state[t], plan[t], "move", Moving("Failed", "off"), verdict[t])
      PROVE  Shaped'
  <2>e. Plain("plan_rejected") \in Entries /\ Plain("note") \in Entries
    BY PlainTyped DEF Kinds
  <2>1. Append(Append(journal[t], Plain("plan_rejected")), Plain("note")) \in Seq(Entries)
    BY TaskTyped, <2>e, Appended
  <2>2. state[t] \in States /\ plan[t] \in Plans /\ "move" \in Pcs
    BY TaskTyped DEF States, Pcs, PlanningAt, WorkingAt
  <2>3. Moving("Failed", "off") \in Locals
    BY IdleTyped, <1>1 DEF States
  <2>4. verdict[t] \in Verdicts
    BY TaskTyped DEF Verdicts
  <2>5. ShapeOf(t, Append(Append(journal[t], Plain("plan_rejected")), Plain("note")), state[t], plan[t], "move", Moving("Failed", "off"), verdict[t])
    BY <1>0, <2>1, MovingIs, TaskTyped, LocalFields, ActsAre DEF ShapeOf, RejectPlan, PlanningAt, WorkingAt, States, InWave
  <2>6. QED
    BY <1>0, <1>1, <2>1, <2>2, <2>3, <2>4, <2>5, Became
<1>2. ASSUME ~(at[t].tries + 1 >= MaxRepairs),
             Becomes(t, Append(journal[t], Plain("plan_rejected")), state[t], plan[t], "propose", Again(at[t]), verdict[t])
      PROVE  Shaped'
  <2>k. "plan_rejected" \in Kinds /\ 0 \in Nat /\ None \in Names
    BY DEF Kinds, Names
  <2>e. Plain("plan_rejected") \in Entries
    BY <2>k, PlainTyped, TaskTyped, LocalFields, ActsAre, <1>2
  <2>1. Append(journal[t], Plain("plan_rejected")) \in Seq(Entries)
    BY TaskTyped, <2>e, Appended
  <2>2. state[t] \in States /\ plan[t] \in Plans /\ "propose" \in Pcs
    BY TaskTyped DEF States, Pcs, PlanningAt, WorkingAt
  <2>3. Again(at[t]) \in Locals
    BY TaskTyped, AgainIs, <1>2
  <2>f. Again(at[t]).kids = at[t].kids
    BY TaskTyped, AgainIs, <1>2
  <2>4. verdict[t] \in Verdicts
    BY TaskTyped DEF Verdicts
  <2>5. ShapeOf(t, Append(journal[t], Plain("plan_rejected")), state[t], plan[t], "propose", Again(at[t]), verdict[t])
    BY <1>0, <2>1, MovingIs, TaskTyped, LocalFields, ActsAre, <2>f DEF ShapeOf, RejectPlan, PlanningAt, WorkingAt, States, InWave
  <2>6. QED
    BY <1>0, <1>2, <2>1, <2>2, <2>3, <2>4, <2>5, Became
<1>3. QED
  BY RejectPlanIs, <1>1, <1>2

LEMMA WaveChildDoneShaped ==
  ASSUME Shaped, NEW t \in Tasks, WaveChildDone(t)
  PROVE  Shaped'
<1>0. /\ settings' \in Settings /\ replies' \in Nat /\ crashes' \in Nat
      /\ ShapeOf(t, journal[t], state[t], plan[t], pc[t], at[t], verdict[t])
  BY TaskTyped, WaveChildDoneIs
<1>1. ASSUME Becomes(t, journal[t], "Completed", plan[t], "off", Idle, "ok")
      PROVE  Shaped'
  <2>1. journal[t] \in Seq(Entries)
    BY TaskTyped
  <2>2. "Completed" \in States /\ plan[t] \in Plans /\ "off" \in Pcs
    BY TaskTyped DEF States, Pcs, PlanningAt, WorkingAt
  <2>3. Idle \in Locals
    BY IdleTyped
  <2>4. "ok" \in Verdicts
    BY TaskTyped DEF Verdicts
  <2>5. ShapeOf(t, journal[t], "Completed", plan[t], "off", Idle, "ok")
    BY <1>0, <2>1, MovingIs, TaskTyped, LocalFields, ActsAre DEF ShapeOf, WaveChildDone, PlanningAt, WorkingAt, States, InWave, AtStep
  <2>6. QED
    BY <1>0, <1>1, <2>1, <2>2, <2>3, <2>4, <2>5, Became
<1>2. QED
  BY WaveChildDoneIs, <1>1

LEMMA ReissueCallShaped ==
  ASSUME Shaped, NEW t \in Tasks, ReissueCall(t)
  PROVE  Shaped'
<1>0. /\ settings' \in Settings /\ replies' \in Nat /\ crashes' \in Nat
      /\ ShapeOf(t, journal[t], state[t], plan[t], pc[t], at[t], verdict[t])
  BY TaskTyped, ReissueCallIs
<1>p. InterruptedToolCall(journal[t]) # 0 => journal[t][InterruptedToolCall(journal[t])].act \in Acts
  <2>1. journal[t] \in Seq(Entries)
    BY TaskTyped
  <2>2. InterruptedToolCall(journal[t]) # 0 => InterruptedToolCall(journal[t]) \in DOMAIN journal[t]
    BY <2>1, PlacesAre,  LastOfIs DEF InterruptedToolCall, LastToolCall
  <2>4. \A i \in DOMAIN journal[t] : journal[t][i] \in Entries
    BY <2>1
  <2>3. \A e \in Entries : e.act \in Acts
    BY DEF Entries
  <2>5. QED
    BY <2>2, <2>3, <2>4
<1>1. ASSUME InterruptedToolCall(journal[t]) # 0,
             Becomes(t, Append(journal[t], Entry("tool", None, journal[t][InterruptedToolCall(journal[t])].act, 0, 0)), state[t], plan[t], "exec", WithAct(at[t], journal[t][InterruptedToolCall(journal[t])].act), verdict[t])
      PROVE  Shaped'
  <2>k. "tool" \in Kinds /\ 0 \in Nat /\ None \in Names
    BY DEF Kinds, Names
  <2>e. Entry("tool", None, journal[t][InterruptedToolCall(journal[t])].act, 0, 0) \in Entries
    BY <2>k, EntryTyped, TaskTyped, LocalFields, ActsAre, <1>p, <1>1
  <2>1. Append(journal[t], Entry("tool", None, journal[t][InterruptedToolCall(journal[t])].act, 0, 0)) \in Seq(Entries)
    BY TaskTyped, <2>e, Appended
  <2>2. state[t] \in States /\ plan[t] \in Plans /\ "exec" \in Pcs
    BY TaskTyped, <1>p DEF States, Pcs, PlanningAt, WorkingAt
  <2>3. WithAct(at[t], journal[t][InterruptedToolCall(journal[t])].act) \in Locals
    BY TaskTyped, LocalFields, WithActIs, <1>p, <1>1
  <2>f. WithAct(at[t], journal[t][InterruptedToolCall(journal[t])].act).kids = at[t].kids /\ WithAct(at[t], journal[t][InterruptedToolCall(journal[t])].act).step = at[t].step
    BY TaskTyped, LocalFields, WithActIs, <1>p, <1>1
  <2>4. verdict[t] \in Verdicts
    BY TaskTyped DEF Verdicts
  <2>5. ShapeOf(t, Append(journal[t], Entry("tool", None, journal[t][InterruptedToolCall(journal[t])].act, 0, 0)), state[t], plan[t], "exec", WithAct(at[t], journal[t][InterruptedToolCall(journal[t])].act), verdict[t])
    BY <1>0, <2>1, MovingIs, TaskTyped, LocalFields, ActsAre, <1>p, <2>f DEF ShapeOf, ReissueCall, PlanningAt, WorkingAt, States, InWave, MayWork, AtStep
  <2>6. QED
    BY <1>0, <1>1, <2>1, <2>2, <2>3, <2>4, <2>5, Became
<1>2. QED
  BY ReissueCallIs, <1>1

LEMMA PlanSpoiledShaped ==
  ASSUME Shaped, NEW t \in Tasks, PlanSpoiled(t)
  PROVE  Shaped'
<1>0. /\ settings' \in Settings /\ replies' \in Nat /\ crashes' \in Nat
      /\ ShapeOf(t, journal[t], state[t], plan[t], pc[t], at[t], verdict[t])
  BY TaskTyped, PlanSpoiledIs
<1>1. ASSUME Becomes(t, Append(journal[t], Plain("note")), state[t], plan[t], "move", Moving("Failed", "off"), verdict[t])
      PROVE  Shaped'
  <2>k. "note" \in Kinds /\ 0 \in Nat /\ None \in Names
    BY DEF Kinds, Names
  <2>e. Plain("note") \in Entries
    BY <2>k, PlainTyped, TaskTyped, LocalFields, ActsAre
  <2>1. Append(journal[t], Plain("note")) \in Seq(Entries)
    BY TaskTyped, <2>e, Appended
  <2>2. state[t] \in States /\ plan[t] \in Plans /\ "move" \in Pcs
    BY TaskTyped DEF States, Pcs, PlanningAt, WorkingAt
  <2>3. Moving("Failed", "off") \in Locals
    BY IdleTyped DEF States
  <2>4. verdict[t] \in Verdicts
    BY TaskTyped DEF Verdicts
  <2>5. ShapeOf(t, Append(journal[t], Plain("note")), state[t], plan[t], "move", Moving("Failed", "off"), verdict[t])
    BY <1>0, <2>1, MovingIs, TaskTyped, LocalFields, ActsAre DEF ShapeOf, PlanSpoiled, PlanningAt, WorkingAt, States, InWave, Undisturbed, MayWork, AtStep
  <2>6. QED
    BY <1>0, <1>1, <2>1, <2>2, <2>3, <2>4, <2>5, Became
<1>2. QED
  BY PlanSpoiledIs, <1>1

LEMMA StepsDoneShaped ==
  ASSUME Shaped, NEW t \in Tasks, StepsDone(t)
  PROVE  Shaped'
<1>0. /\ settings' \in Settings /\ replies' \in Nat /\ crashes' \in Nat
      /\ ShapeOf(t, journal[t], state[t], plan[t], pc[t], at[t], verdict[t])
  BY TaskTyped, StepsDoneIs
<1>1. ASSUME Becomes(t, journal[t], state[t], plan[t], "move", Moving("Verifying", "off"), verdict[t])
      PROVE  Shaped'
  <2>1. journal[t] \in Seq(Entries)
    BY TaskTyped
  <2>2. state[t] \in States /\ plan[t] \in Plans /\ "move" \in Pcs
    BY TaskTyped DEF States, Pcs, PlanningAt, WorkingAt
  <2>3. Moving("Verifying", "off") \in Locals
    BY IdleTyped DEF States
  <2>4. verdict[t] \in Verdicts
    BY TaskTyped DEF Verdicts
  <2>5. ShapeOf(t, journal[t], state[t], plan[t], "move", Moving("Verifying", "off"), verdict[t])
    BY <1>0, <2>1, MovingIs, TaskTyped, LocalFields, ActsAre DEF ShapeOf, StepsDone, PlanningAt, WorkingAt, States, InWave, Undisturbed, MayWork, AtStep
  <2>6. QED
    BY <1>0, <1>1, <2>1, <2>2, <2>3, <2>4, <2>5, Became
<1>2. QED
  BY StepsDoneIs, <1>1

LEMMA BeginStepShaped ==
  ASSUME Shaped, NEW t \in Tasks, BeginStep(t)
  PROVE  Shaped'
<1>0. /\ settings' \in Settings /\ replies' \in Nat /\ crashes' \in Nat
      /\ ShapeOf(t, journal[t], state[t], plan[t], pc[t], at[t], verdict[t])
  BY TaskTyped, BeginStepIs
<1>p. NextStep(t) \in StepIds(plan[t]) /\ NextStep(t) \in Names
  <2>1. NextStep(t) \in StepIds(plan[t])
    BY NextStepReady DEF BeginStep
  <2>2. QED
    BY <2>1, TaskTyped, PlansAre
<1>1. ASSUME Becomes(t, journal[t], state[t], plan[t], "begin", WithStep(at[t], NextStep(t)), verdict[t])
      PROVE  Shaped'
  <2>1. journal[t] \in Seq(Entries)
    BY TaskTyped
  <2>2. state[t] \in States /\ plan[t] \in Plans /\ "begin" \in Pcs
    BY TaskTyped, <1>p DEF States, Pcs, PlanningAt, WorkingAt
  <2>3. WithStep(at[t], NextStep(t)) \in Locals
    BY TaskTyped, WithStepIs, <1>p
  <2>f. WithStep(at[t], NextStep(t)).kids = at[t].kids /\ WithStep(at[t], NextStep(t)).step = NextStep(t)
    BY TaskTyped, WithStepIs, <1>p
  <2>4. verdict[t] \in Verdicts
    BY TaskTyped DEF Verdicts
  <2>5. ShapeOf(t, journal[t], state[t], plan[t], "begin", WithStep(at[t], NextStep(t)), verdict[t])
    BY <1>0, <2>1, MovingIs, TaskTyped, LocalFields, ActsAre, <1>p, <2>f DEF ShapeOf, BeginStep, PlanningAt, WorkingAt, States, InWave, Undisturbed, MayWork, AtStep
  <2>6. QED
    BY <1>0, <1>1, <2>1, <2>2, <2>3, <2>4, <2>5, Became
<1>2. QED
  BY BeginStepIs, <1>1

LEMMA TakeCheckpointShaped ==
  ASSUME Shaped, NEW t \in Tasks, TakeCheckpoint(t)
  PROVE  Shaped'
<1>0. /\ settings' \in Settings /\ replies' \in Nat /\ crashes' \in Nat
      /\ ShapeOf(t, journal[t], state[t], plan[t], pc[t], at[t], verdict[t])
  BY TaskTyped, TakeCheckpointIs
<1>1. ASSUME Becomes(t, Append(journal[t], About("plan_checkpoint", at[t].step)), state[t], plan[t], pc[t], at[t], verdict[t])
      PROVE  Shaped'
  <2>k. "plan_checkpoint" \in Kinds /\ 0 \in Nat /\ None \in Names
    BY DEF Kinds, Names
  <2>e. About("plan_checkpoint", at[t].step) \in Entries
    BY <2>k, AboutTyped, TaskTyped, LocalFields, ActsAre
  <2>1. Append(journal[t], About("plan_checkpoint", at[t].step)) \in Seq(Entries)
    BY TaskTyped, <2>e, Appended
  <2>2. state[t] \in States /\ plan[t] \in Plans /\ pc[t] \in Pcs
    BY TaskTyped DEF States, Pcs, PlanningAt, WorkingAt
  <2>3. at[t] \in Locals
    BY TaskTyped
  <2>4. verdict[t] \in Verdicts
    BY TaskTyped DEF Verdicts
  <2>5. ShapeOf(t, Append(journal[t], About("plan_checkpoint", at[t].step)), state[t], plan[t], pc[t], at[t], verdict[t])
    BY <1>0, <2>1, MovingIs, TaskTyped, LocalFields, ActsAre DEF ShapeOf, TakeCheckpoint, PlanningAt, WorkingAt, States, InWave
  <2>6. QED
    BY <1>0, <1>1, <2>1, <2>2, <2>3, <2>4, <2>5, Became
<1>2. QED
  BY TakeCheckpointIs, <1>1

LEMMA StartStepShaped ==
  ASSUME Shaped, NEW t \in Tasks, StartStep(t)
  PROVE  Shaped'
<1>0. /\ settings' \in Settings /\ replies' \in Nat /\ crashes' \in Nat
      /\ ShapeOf(t, journal[t], state[t], plan[t], pc[t], at[t], verdict[t])
  BY TaskTyped, StartStepIs
<1>1. ASSUME Becomes(t, Append(journal[t], About("plan_step_started", at[t].step)), state[t], plan[t], pc[t], at[t], verdict[t])
      PROVE  Shaped'
  <2>k. "plan_step_started" \in Kinds /\ 0 \in Nat /\ None \in Names
    BY DEF Kinds, Names
  <2>e. About("plan_step_started", at[t].step) \in Entries
    BY <2>k, AboutTyped, TaskTyped, LocalFields, ActsAre
  <2>1. Append(journal[t], About("plan_step_started", at[t].step)) \in Seq(Entries)
    BY TaskTyped, <2>e, Appended
  <2>2. state[t] \in States /\ plan[t] \in Plans /\ pc[t] \in Pcs
    BY TaskTyped DEF States, Pcs, PlanningAt, WorkingAt
  <2>3. at[t] \in Locals
    BY TaskTyped
  <2>4. verdict[t] \in Verdicts
    BY TaskTyped DEF Verdicts
  <2>5. ShapeOf(t, Append(journal[t], About("plan_step_started", at[t].step)), state[t], plan[t], pc[t], at[t], verdict[t])
    BY <1>0, <2>1, MovingIs, TaskTyped, LocalFields, ActsAre DEF ShapeOf, StartStep, PlanningAt, WorkingAt, States, InWave
  <2>6. QED
    BY <1>0, <1>1, <2>1, <2>2, <2>3, <2>4, <2>5, Became
<1>2. QED
  BY StartStepIs, <1>1

LEMMA ForceCompleteShaped ==
  ASSUME Shaped, NEW t \in Tasks, ForceComplete(t)
  PROVE  Shaped'
<1>0. /\ settings' \in Settings /\ replies' \in Nat /\ crashes' \in Nat
      /\ ShapeOf(t, journal[t], state[t], plan[t], pc[t], at[t], verdict[t])
  BY TaskTyped, ForceCompleteIs
<1>1. ASSUME Becomes(t, Append(journal[t], About("plan_step_completed", at[t].step)), state[t], plan[t], "top", Idle, verdict[t])
      PROVE  Shaped'
  <2>k. "plan_step_completed" \in Kinds /\ 0 \in Nat /\ None \in Names
    BY DEF Kinds, Names
  <2>e. About("plan_step_completed", at[t].step) \in Entries
    BY <2>k, AboutTyped, TaskTyped, LocalFields, ActsAre
  <2>1. Append(journal[t], About("plan_step_completed", at[t].step)) \in Seq(Entries)
    BY TaskTyped, <2>e, Appended
  <2>2. state[t] \in States /\ plan[t] \in Plans /\ "top" \in Pcs
    BY TaskTyped DEF States, Pcs, PlanningAt, WorkingAt
  <2>3. Idle \in Locals
    BY IdleTyped
  <2>4. verdict[t] \in Verdicts
    BY TaskTyped DEF Verdicts
  <2>5. ShapeOf(t, Append(journal[t], About("plan_step_completed", at[t].step)), state[t], plan[t], "top", Idle, verdict[t])
    BY <1>0, <2>1, MovingIs, TaskTyped, LocalFields, ActsAre DEF ShapeOf, ForceComplete, PlanningAt, WorkingAt, States, InWave, Begun
  <2>6. QED
    BY <1>0, <1>1, <2>1, <2>2, <2>3, <2>4, <2>5, Became
<1>2. QED
  BY ForceCompleteIs, <1>1

LEMMA ReplayActionShaped ==
  ASSUME Shaped, NEW t \in Tasks, ReplayAction(t)
  PROVE  Shaped'
<1>0. /\ settings' \in Settings /\ replies' \in Nat /\ crashes' \in Nat
      /\ ShapeOf(t, journal[t], state[t], plan[t], pc[t], at[t], verdict[t])
  BY TaskTyped, ReplayActionIs
<1>p. UnprocessedStepAction(journal[t], at[t].step) # 0 => journal[t][UnprocessedStepAction(journal[t], at[t].step)].act \in Acts
  <2>1. journal[t] \in Seq(Entries)
    BY TaskTyped
  <2>2. UnprocessedStepAction(journal[t], at[t].step) # 0 => UnprocessedStepAction(journal[t], at[t].step) \in DOMAIN journal[t]
    BY <2>1, PlacesAre, PlacesForAre, LastOfIs DEF UnprocessedStepAction
  <2>4. \A i \in DOMAIN journal[t] : journal[t][i] \in Entries
    BY <2>1
  <2>3. \A e \in Entries : e.act \in Acts
    BY DEF Entries
  <2>5. QED
    BY <2>2, <2>3, <2>4
<1>1. ASSUME UnprocessedStepAction(journal[t], at[t].step) # 0,
             Becomes(t, journal[t], state[t], plan[t], "act", WithAct(at[t], journal[t][UnprocessedStepAction(journal[t], at[t].step)].act), verdict[t])
      PROVE  Shaped'
  <2>1. journal[t] \in Seq(Entries)
    BY TaskTyped
  <2>2. state[t] \in States /\ plan[t] \in Plans /\ "act" \in Pcs
    BY TaskTyped, <1>p DEF States, Pcs, PlanningAt, WorkingAt
  <2>3. WithAct(at[t], journal[t][UnprocessedStepAction(journal[t], at[t].step)].act) \in Locals
    BY TaskTyped, LocalFields, WithActIs, <1>p, <1>1
  <2>f. WithAct(at[t], journal[t][UnprocessedStepAction(journal[t], at[t].step)].act).kids = at[t].kids /\ WithAct(at[t], journal[t][UnprocessedStepAction(journal[t], at[t].step)].act).step = at[t].step
    BY TaskTyped, LocalFields, WithActIs, <1>p, <1>1
  <2>4. verdict[t] \in Verdicts
    BY TaskTyped DEF Verdicts
  <2>5. ShapeOf(t, journal[t], state[t], plan[t], "act", WithAct(at[t], journal[t][UnprocessedStepAction(journal[t], at[t].step)].act), verdict[t])
    BY <1>0, <2>1, MovingIs, TaskTyped, LocalFields, ActsAre, <1>p, <2>f DEF ShapeOf, ReplayAction, PlanningAt, WorkingAt, States, InWave, Begun
  <2>6. QED
    BY <1>0, <1>1, <2>1, <2>2, <2>3, <2>4, <2>5, Became
<1>2. QED
  BY ReplayActionIs, <1>1

LEMMA RequestActionShaped ==
  ASSUME Shaped, NEW t \in Tasks, RequestAction(t)
  PROVE  Shaped'
<1>0. /\ settings' \in Settings /\ replies' \in Nat /\ crashes' \in Nat
      /\ ShapeOf(t, journal[t], state[t], plan[t], pc[t], at[t], verdict[t])
  BY TaskTyped, RequestActionIs
<1>p. CountModelCalls(journal[t]) \in Nat /\ PlanRejectionCount(journal[t]) \in Nat
  BY TaskTyped, CountTyped
<1>1. ASSUME Becomes(t, Append(journal[t], Entry("model_call", at[t].step, Nothing, CountModelCalls(journal[t]), 0)), state[t], plan[t], "call", at[t], verdict[t])
      PROVE  Shaped'
  <2>k. "model_call" \in Kinds /\ 0 \in Nat /\ None \in Names
    BY DEF Kinds, Names
  <2>e. Entry("model_call", at[t].step, Nothing, CountModelCalls(journal[t]), 0) \in Entries
    BY <2>k, EntryTyped, TaskTyped, LocalFields, ActsAre, <1>p
  <2>1. Append(journal[t], Entry("model_call", at[t].step, Nothing, CountModelCalls(journal[t]), 0)) \in Seq(Entries)
    BY TaskTyped, <2>e, Appended
  <2>2. state[t] \in States /\ plan[t] \in Plans /\ "call" \in Pcs
    BY TaskTyped, <1>p DEF States, Pcs, PlanningAt, WorkingAt
  <2>3. at[t] \in Locals
    BY TaskTyped, <1>p
  <2>4. verdict[t] \in Verdicts
    BY TaskTyped DEF Verdicts
  <2>g. Places(Append(journal[t], Entry("model_call", at[t].step, Nothing, CountModelCalls(journal[t]), 0)), ModelCall) # {}
    BY CallPlaced, TaskTyped, LocalFields, <2>k, <1>p
  <2>5. ShapeOf(t, Append(journal[t], Entry("model_call", at[t].step, Nothing, CountModelCalls(journal[t]), 0)), state[t], plan[t], "call", at[t], verdict[t])
    BY <1>0, <2>1, <2>g, MovingIs, TaskTyped, LocalFields, ActsAre, <1>p DEF ShapeOf, RequestAction, PlanningAt, WorkingAt, States, InWave, Begun
  <2>6. QED
    BY <1>0, <1>1, <2>1, <2>2, <2>3, <2>4, <2>5, Became
<1>2. QED
  BY RequestActionIs, <1>1

LEMMA StepAnsweredShaped ==
  ASSUME Shaped, NEW t \in Tasks, StepAnswered(t)
  PROVE  Shaped'
<1>0. /\ settings' \in Settings /\ replies' \in Nat /\ crashes' \in Nat
      /\ ShapeOf(t, journal[t], state[t], plan[t], pc[t], at[t], verdict[t])
  BY TaskTyped, StepAnsweredIs
<1>p. CallTurn(t) \in Nat /\ at[t].step \in DOMAIN Decisions /\ Decisions[at[t].step] \subseteq Acts
  <2>1. CallTurn(t) \in Nat
    BY CallTurnTyped DEF StepAnswered
  <2>2. at[t].step \in DOMAIN Decisions
    BY TaskTyped, PlansAre DEF StepAnswered, ShapeOf
  <2>3. QED
    BY <2>1, <2>2, PlanStepsAssumption DEF Acts
<1>1. ASSUME NEW a \in Decisions[at[t].step],
             Becomes(t, Append(journal[t], Entry("step_completion", at[t].step, a, CallTurn(t), 0)), state[t], plan[t], "act", WithAct(at[t], a), verdict[t])
      PROVE  Shaped'
  <2>a. a \in Acts
    BY ActsAre, <1>p, PlanStepsAssumption DEF Acts
  <2>k. "step_completion" \in Kinds /\ 0 \in Nat /\ None \in Names
    BY DEF Kinds, Names
  <2>e. Entry("step_completion", at[t].step, a, CallTurn(t), 0) \in Entries
    BY <2>k, EntryTyped, TaskTyped, LocalFields, ActsAre, <1>p, <2>a
  <2>1. Append(journal[t], Entry("step_completion", at[t].step, a, CallTurn(t), 0)) \in Seq(Entries)
    BY TaskTyped, <2>e, Appended
  <2>2. state[t] \in States /\ plan[t] \in Plans /\ "act" \in Pcs
    BY TaskTyped, <1>p DEF States, Pcs, PlanningAt, WorkingAt
  <2>3. WithAct(at[t], a) \in Locals
    BY TaskTyped, LocalFields, WithActIs, <1>p, <2>a
  <2>f. WithAct(at[t], a).kids = at[t].kids /\ WithAct(at[t], a).step = at[t].step
    BY TaskTyped, LocalFields, WithActIs, <1>p, <2>a
  <2>4. verdict[t] \in Verdicts
    BY TaskTyped DEF Verdicts
  <2>5. ShapeOf(t, Append(journal[t], Entry("step_completion", at[t].step, a, CallTurn(t), 0)), state[t], plan[t], "act", WithAct(at[t], a), verdict[t])
    BY <1>0, <2>1, MovingIs, TaskTyped, LocalFields, ActsAre, <1>p, <2>a, <2>f DEF ShapeOf, StepAnswered, PlanningAt, WorkingAt, States, InWave
  <2>6. QED
    BY <1>0, <1>1, <2>1, <2>2, <2>3, <2>4, <2>5, Became
<1>2. QED
  BY StepAnsweredIs, <1>1

LEMMA NoteScopeExpansionShaped ==
  ASSUME Shaped, NEW t \in Tasks, NoteScopeExpansion(t)
  PROVE  Shaped'
<1>0. /\ settings' \in Settings /\ replies' \in Nat /\ crashes' \in Nat
      /\ ShapeOf(t, journal[t], state[t], plan[t], pc[t], at[t], verdict[t])
  BY TaskTyped, NoteScopeExpansionIs
<1>1. ASSUME Becomes(t, Append(journal[t], Plain("plan_scope_expansion")), state[t], plan[t], "issue", at[t], verdict[t])
      PROVE  Shaped'
  <2>k. "plan_scope_expansion" \in Kinds /\ 0 \in Nat /\ None \in Names
    BY DEF Kinds, Names
  <2>e. Plain("plan_scope_expansion") \in Entries
    BY <2>k, PlainTyped, TaskTyped, LocalFields, ActsAre
  <2>1. Append(journal[t], Plain("plan_scope_expansion")) \in Seq(Entries)
    BY TaskTyped, <2>e, Appended
  <2>2. state[t] \in States /\ plan[t] \in Plans /\ "issue" \in Pcs
    BY TaskTyped DEF States, Pcs, PlanningAt, WorkingAt
  <2>3. at[t] \in Locals
    BY TaskTyped
  <2>4. verdict[t] \in Verdicts
    BY TaskTyped DEF Verdicts
  <2>5. ShapeOf(t, Append(journal[t], Plain("plan_scope_expansion")), state[t], plan[t], "issue", at[t], verdict[t])
    BY <1>0, <2>1, MovingIs, TaskTyped, LocalFields, ActsAre DEF ShapeOf, NoteScopeExpansion, PlanningAt, WorkingAt, States, InWave
  <2>6. QED
    BY <1>0, <1>1, <2>1, <2>2, <2>3, <2>4, <2>5, Became
<1>2. QED
  BY NoteScopeExpansionIs, <1>1

LEMMA IssueCallShaped ==
  ASSUME Shaped, NEW t \in Tasks, IssueCall(t)
  PROVE  Shaped'
<1>0. /\ settings' \in Settings /\ replies' \in Nat /\ crashes' \in Nat
      /\ ShapeOf(t, journal[t], state[t], plan[t], pc[t], at[t], verdict[t])
  BY TaskTyped, IssueCallIs
<1>1. ASSUME Becomes(t, Append(journal[t], Entry("tool", None, at[t].act, 0, 0)), state[t], plan[t], "exec", at[t], verdict[t])
      PROVE  Shaped'
  <2>k. "tool" \in Kinds /\ 0 \in Nat /\ None \in Names
    BY DEF Kinds, Names
  <2>e. Entry("tool", None, at[t].act, 0, 0) \in Entries
    BY <2>k, EntryTyped, TaskTyped, LocalFields, ActsAre
  <2>1. Append(journal[t], Entry("tool", None, at[t].act, 0, 0)) \in Seq(Entries)
    BY TaskTyped, <2>e, Appended
  <2>2. state[t] \in States /\ plan[t] \in Plans /\ "exec" \in Pcs
    BY TaskTyped DEF States, Pcs, PlanningAt, WorkingAt
  <2>3. at[t] \in Locals
    BY TaskTyped
  <2>4. verdict[t] \in Verdicts
    BY TaskTyped DEF Verdicts
  <2>5. ShapeOf(t, Append(journal[t], Entry("tool", None, at[t].act, 0, 0)), state[t], plan[t], "exec", at[t], verdict[t])
    BY <1>0, <2>1, MovingIs, TaskTyped, LocalFields, ActsAre DEF ShapeOf, IssueCall, PlanningAt, WorkingAt, States, InWave
  <2>6. QED
    BY <1>0, <1>1, <2>1, <2>2, <2>3, <2>4, <2>5, Became
<1>2. QED
  BY IssueCallIs, <1>1

LEMMA FinishStepShaped ==
  ASSUME Shaped, NEW t \in Tasks, FinishStep(t)
  PROVE  Shaped'
<1>0. /\ settings' \in Settings /\ replies' \in Nat /\ crashes' \in Nat
      /\ ShapeOf(t, journal[t], state[t], plan[t], pc[t], at[t], verdict[t])
  BY TaskTyped, FinishStepIs
<1>1. ASSUME Becomes(t, Append(journal[t], About("plan_step_completed", at[t].step)), state[t], plan[t], "top", Idle, verdict[t])
      PROVE  Shaped'
  <2>k. "plan_step_completed" \in Kinds /\ 0 \in Nat /\ None \in Names
    BY DEF Kinds, Names
  <2>e. About("plan_step_completed", at[t].step) \in Entries
    BY <2>k, AboutTyped, TaskTyped, LocalFields, ActsAre
  <2>1. Append(journal[t], About("plan_step_completed", at[t].step)) \in Seq(Entries)
    BY TaskTyped, <2>e, Appended
  <2>2. state[t] \in States /\ plan[t] \in Plans /\ "top" \in Pcs
    BY TaskTyped DEF States, Pcs, PlanningAt, WorkingAt
  <2>3. Idle \in Locals
    BY IdleTyped
  <2>4. verdict[t] \in Verdicts
    BY TaskTyped DEF Verdicts
  <2>5. ShapeOf(t, Append(journal[t], About("plan_step_completed", at[t].step)), state[t], plan[t], "top", Idle, verdict[t])
    BY <1>0, <2>1, MovingIs, TaskTyped, LocalFields, ActsAre DEF ShapeOf, FinishStep, PlanningAt, WorkingAt, States, InWave
  <2>6. QED
    BY <1>0, <1>1, <2>1, <2>2, <2>3, <2>4, <2>5, Became
<1>2. QED
  BY FinishStepIs, <1>1

LEMMA AskUserShaped ==
  ASSUME Shaped, NEW t \in Tasks, AskUser(t)
  PROVE  Shaped'
<1>0. /\ settings' \in Settings /\ replies' \in Nat /\ crashes' \in Nat
      /\ ShapeOf(t, journal[t], state[t], plan[t], pc[t], at[t], verdict[t])
  BY TaskTyped, AskUserIs
<1>1. ASSUME Becomes(t, journal[t], state[t], plan[t], "move", Moving("WaitingForUser", "off"), verdict[t])
      PROVE  Shaped'
  <2>1. journal[t] \in Seq(Entries)
    BY TaskTyped
  <2>2. state[t] \in States /\ plan[t] \in Plans /\ "move" \in Pcs
    BY TaskTyped DEF States, Pcs, PlanningAt, WorkingAt
  <2>3. Moving("WaitingForUser", "off") \in Locals
    BY IdleTyped DEF States
  <2>4. verdict[t] \in Verdicts
    BY TaskTyped DEF Verdicts
  <2>5. ShapeOf(t, journal[t], state[t], plan[t], "move", Moving("WaitingForUser", "off"), verdict[t])
    BY <1>0, <2>1, MovingIs, TaskTyped, LocalFields, ActsAre DEF ShapeOf, AskUser, PlanningAt, WorkingAt, States, InWave
  <2>6. QED
    BY <1>0, <1>1, <2>1, <2>2, <2>3, <2>4, <2>5, Became
<1>2. QED
  BY AskUserIs, <1>1

LEMMA ToolEndsShaped ==
  ASSUME Shaped, NEW t \in Tasks, ToolEnds(t)
  PROVE  Shaped'
<1>0. /\ settings' \in Settings /\ replies' \in Nat /\ crashes' \in Nat
      /\ ShapeOf(t, journal[t], state[t], plan[t], pc[t], at[t], verdict[t])
  BY TaskTyped, ToolEndsIs
<1>p. LastToolCall(journal[t]) \in Nat
  <2>1. journal[t] \in Seq(Entries)
    BY TaskTyped
  <2>2. QED
    BY <2>1, PlacesAre, LastOfIs DEF LastToolCall
<1>1. ASSUME Becomes(t, Append(journal[t], Outcome("tool_result", LastToolCall(journal[t]))), state[t], plan[t], "top", Idle, verdict[t])
      PROVE  Shaped'
  <2>k. "tool_result" \in Kinds /\ 0 \in Nat /\ None \in Names
    BY DEF Kinds, Names
  <2>e. Outcome("tool_result", LastToolCall(journal[t])) \in Entries
    BY <2>k, OutcomeTyped, TaskTyped, LocalFields, ActsAre, <1>p
  <2>1. Append(journal[t], Outcome("tool_result", LastToolCall(journal[t]))) \in Seq(Entries)
    BY TaskTyped, <2>e, Appended
  <2>2. state[t] \in States /\ plan[t] \in Plans /\ "top" \in Pcs
    BY TaskTyped, <1>p DEF States, Pcs, PlanningAt, WorkingAt
  <2>3. Idle \in Locals
    BY IdleTyped, <1>p
  <2>4. verdict[t] \in Verdicts
    BY TaskTyped DEF Verdicts
  <2>5. ShapeOf(t, Append(journal[t], Outcome("tool_result", LastToolCall(journal[t]))), state[t], plan[t], "top", Idle, verdict[t])
    BY <1>0, <2>1, MovingIs, TaskTyped, LocalFields, ActsAre, <1>p DEF ShapeOf, ToolEnds, PlanningAt, WorkingAt, States, InWave
  <2>6. QED
    BY <1>0, <1>1, <2>1, <2>2, <2>3, <2>4, <2>5, Became
<1>2. ASSUME at[t].act.file # NoFile,
             Becomes(t, Append(journal[t], Outcome("permission_ask", LastToolCall(journal[t]))), state[t], plan[t], "move", Moving("WaitingForPermission", "off"), verdict[t])
      PROVE  Shaped'
  <2>k. "permission_ask" \in Kinds /\ 0 \in Nat /\ None \in Names
    BY DEF Kinds, Names
  <2>e. Outcome("permission_ask", LastToolCall(journal[t])) \in Entries
    BY <2>k, OutcomeTyped, TaskTyped, LocalFields, ActsAre, <1>p, <1>2
  <2>1. Append(journal[t], Outcome("permission_ask", LastToolCall(journal[t]))) \in Seq(Entries)
    BY TaskTyped, <2>e, Appended
  <2>2. state[t] \in States /\ plan[t] \in Plans /\ "move" \in Pcs
    BY TaskTyped, <1>p DEF States, Pcs, PlanningAt, WorkingAt
  <2>3. Moving("WaitingForPermission", "off") \in Locals
    BY IdleTyped, <1>p, <1>2 DEF States
  <2>4. verdict[t] \in Verdicts
    BY TaskTyped DEF Verdicts
  <2>5. ShapeOf(t, Append(journal[t], Outcome("permission_ask", LastToolCall(journal[t]))), state[t], plan[t], "move", Moving("WaitingForPermission", "off"), verdict[t])
    BY <1>0, <2>1, MovingIs, TaskTyped, LocalFields, ActsAre, <1>p DEF ShapeOf, ToolEnds, PlanningAt, WorkingAt, States, InWave
  <2>6. QED
    BY <1>0, <1>2, <2>1, <2>2, <2>3, <2>4, <2>5, Became
<1>3. ASSUME at[t].act.file # NoFile,
             Becomes(t, Append(journal[t], Outcome("tool_denied", LastToolCall(journal[t]))), state[t], plan[t], "move", Moving("Failed", "off"), verdict[t])
      PROVE  Shaped'
  <2>k. "tool_denied" \in Kinds /\ 0 \in Nat /\ None \in Names
    BY DEF Kinds, Names
  <2>e. Outcome("tool_denied", LastToolCall(journal[t])) \in Entries
    BY <2>k, OutcomeTyped, TaskTyped, LocalFields, ActsAre, <1>p, <1>3
  <2>1. Append(journal[t], Outcome("tool_denied", LastToolCall(journal[t]))) \in Seq(Entries)
    BY TaskTyped, <2>e, Appended
  <2>2. state[t] \in States /\ plan[t] \in Plans /\ "move" \in Pcs
    BY TaskTyped, <1>p DEF States, Pcs, PlanningAt, WorkingAt
  <2>3. Moving("Failed", "off") \in Locals
    BY IdleTyped, <1>p, <1>3 DEF States
  <2>4. verdict[t] \in Verdicts
    BY TaskTyped DEF Verdicts
  <2>5. ShapeOf(t, Append(journal[t], Outcome("tool_denied", LastToolCall(journal[t]))), state[t], plan[t], "move", Moving("Failed", "off"), verdict[t])
    BY <1>0, <2>1, MovingIs, TaskTyped, LocalFields, ActsAre, <1>p DEF ShapeOf, ToolEnds, PlanningAt, WorkingAt, States, InWave
  <2>6. QED
    BY <1>0, <1>3, <2>1, <2>2, <2>3, <2>4, <2>5, Became
<1>4. QED
  BY ToolEndsIs, <1>1, <1>2, <1>3

LEMMA RequestTurnShaped ==
  ASSUME Shaped, NEW t \in Tasks, RequestTurn(t)
  PROVE  Shaped'
<1>0. /\ settings' \in Settings /\ replies' \in Nat /\ crashes' \in Nat
      /\ ShapeOf(t, journal[t], state[t], plan[t], pc[t], at[t], verdict[t])
  BY TaskTyped, RequestTurnIs
<1>p. CountModelCalls(journal[t]) \in Nat /\ PlanRejectionCount(journal[t]) \in Nat
  BY TaskTyped, CountTyped
<1>1. ASSUME Becomes(t, Append(journal[t], Entry("turn_call", None, Nothing, CountModelCalls(journal[t]), 0)), state[t], plan[t], "turn", at[t], verdict[t])
      PROVE  Shaped'
  <2>k. "turn_call" \in Kinds /\ 0 \in Nat /\ None \in Names
    BY DEF Kinds, Names
  <2>e. Entry("turn_call", None, Nothing, CountModelCalls(journal[t]), 0) \in Entries
    BY <2>k, EntryTyped, TaskTyped, LocalFields, ActsAre, <1>p
  <2>1. Append(journal[t], Entry("turn_call", None, Nothing, CountModelCalls(journal[t]), 0)) \in Seq(Entries)
    BY TaskTyped, <2>e, Appended
  <2>2. state[t] \in States /\ plan[t] \in Plans /\ "turn" \in Pcs
    BY TaskTyped, <1>p DEF States, Pcs, PlanningAt, WorkingAt
  <2>3. at[t] \in Locals
    BY TaskTyped, <1>p
  <2>4. verdict[t] \in Verdicts
    BY TaskTyped DEF Verdicts
  <2>g. Places(Append(journal[t], Entry("turn_call", None, Nothing, CountModelCalls(journal[t]), 0)), ModelCall) # {}
    BY CallPlaced, TaskTyped, LocalFields, <2>k, <1>p
  <2>5. ShapeOf(t, Append(journal[t], Entry("turn_call", None, Nothing, CountModelCalls(journal[t]), 0)), state[t], plan[t], "turn", at[t], verdict[t])
    BY <1>0, <2>1, <2>g, MovingIs, TaskTyped, LocalFields, ActsAre, <1>p DEF ShapeOf, RequestTurn, PlanningAt, WorkingAt, States, InWave, AtStep
  <2>6. QED
    BY <1>0, <1>1, <2>1, <2>2, <2>3, <2>4, <2>5, Became
<1>2. QED
  BY RequestTurnIs, <1>1

LEMMA TurnAnsweredShaped ==
  ASSUME Shaped, NEW t \in Tasks, TurnAnswered(t)
  PROVE  Shaped'
<1>0. /\ settings' \in Settings /\ replies' \in Nat /\ crashes' \in Nat
      /\ ShapeOf(t, journal[t], state[t], plan[t], pc[t], at[t], verdict[t])
  BY TaskTyped, TurnAnsweredIs
<1>p. CallTurn(t) \in Nat /\ TurnDecisions \subseteq Acts
  <2>1. CallTurn(t) \in Nat
    BY CallTurnTyped DEF TurnAnswered
  <2>2. QED
    BY <2>1, PlanStepsAssumption DEF Acts
<1>1. ASSUME NEW a \in TurnDecisions,
             Becomes(t, Append(journal[t], Entry("turn_completion", None, a, CallTurn(t), 0)), state[t], plan[t], "choose", WithAct(at[t], a), verdict[t])
      PROVE  Shaped'
  <2>a. a \in Acts
    BY ActsAre, <1>p, PlanStepsAssumption DEF Acts
  <2>k. "turn_completion" \in Kinds /\ 0 \in Nat /\ None \in Names
    BY DEF Kinds, Names
  <2>e. Entry("turn_completion", None, a, CallTurn(t), 0) \in Entries
    BY <2>k, EntryTyped, TaskTyped, LocalFields, ActsAre, <1>p, <2>a
  <2>1. Append(journal[t], Entry("turn_completion", None, a, CallTurn(t), 0)) \in Seq(Entries)
    BY TaskTyped, <2>e, Appended
  <2>2. state[t] \in States /\ plan[t] \in Plans /\ "choose" \in Pcs
    BY TaskTyped, <1>p DEF States, Pcs, PlanningAt, WorkingAt
  <2>3. WithAct(at[t], a) \in Locals
    BY TaskTyped, LocalFields, WithActIs, <1>p, <2>a
  <2>f. WithAct(at[t], a).kids = at[t].kids /\ WithAct(at[t], a).step = at[t].step
    BY TaskTyped, LocalFields, WithActIs, <1>p, <2>a
  <2>4. verdict[t] \in Verdicts
    BY TaskTyped DEF Verdicts
  <2>5. ShapeOf(t, Append(journal[t], Entry("turn_completion", None, a, CallTurn(t), 0)), state[t], plan[t], "choose", WithAct(at[t], a), verdict[t])
    BY <1>0, <2>1, MovingIs, TaskTyped, LocalFields, ActsAre, <1>p, <2>a, <2>f DEF ShapeOf, TurnAnswered, PlanningAt, WorkingAt, States, InWave
  <2>6. QED
    BY <1>0, <1>1, <2>1, <2>2, <2>3, <2>4, <2>5, Became
<1>2. QED
  BY TurnAnsweredIs, <1>1

LEMMA FinishTurnsShaped ==
  ASSUME Shaped, NEW t \in Tasks, FinishTurns(t)
  PROVE  Shaped'
<1>0. /\ settings' \in Settings /\ replies' \in Nat /\ crashes' \in Nat
      /\ ShapeOf(t, journal[t], state[t], plan[t], pc[t], at[t], verdict[t])
  BY TaskTyped, FinishTurnsIs
<1>1. ASSUME Becomes(t, journal[t], state[t], plan[t], "move", Moving("Verifying", "off"), verdict[t])
      PROVE  Shaped'
  <2>1. journal[t] \in Seq(Entries)
    BY TaskTyped
  <2>2. state[t] \in States /\ plan[t] \in Plans /\ "move" \in Pcs
    BY TaskTyped DEF States, Pcs, PlanningAt, WorkingAt
  <2>3. Moving("Verifying", "off") \in Locals
    BY IdleTyped DEF States
  <2>4. verdict[t] \in Verdicts
    BY TaskTyped DEF Verdicts
  <2>5. ShapeOf(t, journal[t], state[t], plan[t], "move", Moving("Verifying", "off"), verdict[t])
    BY <1>0, <2>1, MovingIs, TaskTyped, LocalFields, ActsAre DEF ShapeOf, FinishTurns, PlanningAt, WorkingAt, States, InWave
  <2>6. QED
    BY <1>0, <1>1, <2>1, <2>2, <2>3, <2>4, <2>5, Became
<1>2. QED
  BY FinishTurnsIs, <1>1

LEMMA FaultShaped ==
  ASSUME Shaped, NEW t \in Tasks, Fault(t)
  PROVE  Shaped'
<1>0. /\ settings' \in Settings /\ replies' \in Nat /\ crashes' \in Nat
      /\ ShapeOf(t, journal[t], state[t], plan[t], pc[t], at[t], verdict[t])
  BY TaskTyped, FaultIs
<1>1. ASSUME InWave(t),
             Becomes(t, journal[t], state[t], plan[t], "off", Idle, "err")
      PROVE  Shaped'
  <2>1. journal[t] \in Seq(Entries)
    BY TaskTyped
  <2>2. state[t] \in States /\ plan[t] \in Plans /\ "off" \in Pcs
    BY TaskTyped DEF States, Pcs, PlanningAt, WorkingAt
  <2>3. Idle \in Locals
    BY IdleTyped, <1>1
  <2>4. "err" \in Verdicts
    BY TaskTyped DEF Verdicts
  <2>5. ShapeOf(t, journal[t], state[t], plan[t], "off", Idle, "err")
    BY <1>0, <2>1, MovingIs, TaskTyped, LocalFields, ActsAre DEF ShapeOf, Fault, PlanningAt, WorkingAt, States, InWave
  <2>6. QED
    BY <1>0, <1>1, <2>1, <2>2, <2>3, <2>4, <2>5, Became
<1>2. ASSUME ~InWave(t),
             Becomes(t, Append(journal[t], Plain("note")), state[t], plan[t], "move", Moving("Failed", "off"), verdict[t])
      PROVE  Shaped'
  <2>k. "note" \in Kinds /\ 0 \in Nat /\ None \in Names
    BY DEF Kinds, Names
  <2>e. Plain("note") \in Entries
    BY <2>k, PlainTyped, TaskTyped, LocalFields, ActsAre, <1>2
  <2>1. Append(journal[t], Plain("note")) \in Seq(Entries)
    BY TaskTyped, <2>e, Appended
  <2>2. state[t] \in States /\ plan[t] \in Plans /\ "move" \in Pcs
    BY TaskTyped DEF States, Pcs, PlanningAt, WorkingAt
  <2>3. Moving("Failed", "off") \in Locals
    BY IdleTyped, <1>2 DEF States
  <2>4. verdict[t] \in Verdicts
    BY TaskTyped DEF Verdicts
  <2>5. ShapeOf(t, Append(journal[t], Plain("note")), state[t], plan[t], "move", Moving("Failed", "off"), verdict[t])
    BY <1>0, <2>1, MovingIs, TaskTyped, LocalFields, ActsAre DEF ShapeOf, Fault, PlanningAt, WorkingAt, States, InWave
  <2>6. QED
    BY <1>0, <1>2, <2>1, <2>2, <2>3, <2>4, <2>5, Became
<1>3. QED
  BY FaultIs, <1>1, <1>2

LEMMA JoinChunkShaped ==
  ASSUME Shaped, NEW t \in Tasks, JoinChunk(t)
  PROVE  Shaped'
<1>0. /\ settings' \in Settings /\ replies' \in Nat /\ crashes' \in Nat
      /\ ShapeOf(t, journal[t], state[t], plan[t], pc[t], at[t], verdict[t])
  BY TaskTyped, JoinChunkIs
<1>1. ASSUME Becomes(t, journal[t], state[t], plan[t], "fold", at[t], verdict[t])
      PROVE  Shaped'
  <2>1. journal[t] \in Seq(Entries)
    BY TaskTyped
  <2>2. state[t] \in States /\ plan[t] \in Plans /\ "fold" \in Pcs
    BY TaskTyped DEF States, Pcs, PlanningAt, WorkingAt
  <2>3. at[t] \in Locals
    BY TaskTyped
  <2>4. verdict[t] \in Verdicts
    BY TaskTyped DEF Verdicts
  <2>5. ShapeOf(t, journal[t], state[t], plan[t], "fold", at[t], verdict[t])
    BY <1>0, <2>1, MovingIs, TaskTyped, LocalFields, ActsAre DEF ShapeOf, JoinChunk, PlanningAt, WorkingAt, States, InWave
  <2>6. QED
    BY <1>0, <1>1, <2>1, <2>2, <2>3, <2>4, <2>5, Became
<1>2. QED
  BY JoinChunkIs, <1>1

LEMMA FoldFailureShaped ==
  ASSUME Shaped, NEW t \in Tasks, FoldFailure(t)
  PROVE  Shaped'
<1>0. /\ settings' \in Settings /\ replies' \in Nat /\ crashes' \in Nat
      /\ ShapeOf(t, journal[t], state[t], plan[t], pc[t], at[t], verdict[t])
  BY TaskTyped, FoldFailureIs
<1>1. ASSUME Becomes(t, Append(journal[t], Plain("note")), state[t], plan[t], "move", Moving("Failed", "off"), verdict[t])
      PROVE  Shaped'
  <2>k. "note" \in Kinds /\ 0 \in Nat /\ None \in Names
    BY DEF Kinds, Names
  <2>e. Plain("note") \in Entries
    BY <2>k, PlainTyped, TaskTyped, LocalFields, ActsAre
  <2>1. Append(journal[t], Plain("note")) \in Seq(Entries)
    BY TaskTyped, <2>e, Appended
  <2>2. state[t] \in States /\ plan[t] \in Plans /\ "move" \in Pcs
    BY TaskTyped DEF States, Pcs, PlanningAt, WorkingAt
  <2>3. Moving("Failed", "off") \in Locals
    BY IdleTyped DEF States
  <2>4. verdict[t] \in Verdicts
    BY TaskTyped DEF Verdicts
  <2>5. ShapeOf(t, Append(journal[t], Plain("note")), state[t], plan[t], "move", Moving("Failed", "off"), verdict[t])
    BY <1>0, <2>1, MovingIs, TaskTyped, LocalFields, ActsAre DEF ShapeOf, FoldFailure, PlanningAt, WorkingAt, States, InWave, Folding
  <2>6. QED
    BY <1>0, <1>1, <2>1, <2>2, <2>3, <2>4, <2>5, Became
<1>2. QED
  BY FoldFailureIs, <1>1

LEMMA FoldCheckpointShaped ==
  ASSUME Shaped, NEW t \in Tasks, FoldCheckpoint(t)
  PROVE  Shaped'
<1>0. /\ settings' \in Settings /\ replies' \in Nat /\ crashes' \in Nat
      /\ ShapeOf(t, journal[t], state[t], plan[t], pc[t], at[t], verdict[t])
  BY TaskTyped, FoldCheckpointIs
<1>p. Folded(t) \in Names
  BY FoldedIs DEF FoldCheckpoint, FoldComplete
<1>1. ASSUME NeedsCheckpoint(t, Folded(t)),
             Becomes(t, Append(journal[t], About("plan_checkpoint", Folded(t))), state[t], plan[t], pc[t], at[t], verdict[t])
      PROVE  Shaped'
  <2>k. "plan_checkpoint" \in Kinds /\ 0 \in Nat /\ None \in Names
    BY DEF Kinds, Names
  <2>e. About("plan_checkpoint", Folded(t)) \in Entries
    BY <2>k, AboutTyped, TaskTyped, LocalFields, ActsAre, <1>p, <1>1
  <2>1. Append(journal[t], About("plan_checkpoint", Folded(t))) \in Seq(Entries)
    BY TaskTyped, <2>e, Appended
  <2>2. state[t] \in States /\ plan[t] \in Plans /\ pc[t] \in Pcs
    BY TaskTyped, <1>p DEF States, Pcs, PlanningAt, WorkingAt
  <2>3. at[t] \in Locals
    BY TaskTyped, <1>p, <1>1
  <2>4. verdict[t] \in Verdicts
    BY TaskTyped DEF Verdicts
  <2>5. ShapeOf(t, Append(journal[t], About("plan_checkpoint", Folded(t))), state[t], plan[t], pc[t], at[t], verdict[t])
    BY <1>0, <2>1, MovingIs, TaskTyped, LocalFields, ActsAre, <1>p DEF ShapeOf, FoldCheckpoint, PlanningAt, WorkingAt, States, InWave, Folding
  <2>6. QED
    BY <1>0, <1>1, <2>1, <2>2, <2>3, <2>4, <2>5, Became
<1>2. ASSUME ~NeedsCheckpoint(t, Folded(t)),
             Becomes(t, Append(journal[t], About("plan_step_started", Folded(t))), state[t], plan[t], pc[t], at[t], verdict[t])
      PROVE  Shaped'
  <2>k. "plan_step_started" \in Kinds /\ 0 \in Nat /\ None \in Names
    BY DEF Kinds, Names
  <2>e. About("plan_step_started", Folded(t)) \in Entries
    BY <2>k, AboutTyped, TaskTyped, LocalFields, ActsAre, <1>p, <1>2
  <2>1. Append(journal[t], About("plan_step_started", Folded(t))) \in Seq(Entries)
    BY TaskTyped, <2>e, Appended
  <2>2. state[t] \in States /\ plan[t] \in Plans /\ pc[t] \in Pcs
    BY TaskTyped, <1>p DEF States, Pcs, PlanningAt, WorkingAt
  <2>3. at[t] \in Locals
    BY TaskTyped, <1>p, <1>2
  <2>4. verdict[t] \in Verdicts
    BY TaskTyped DEF Verdicts
  <2>5. ShapeOf(t, Append(journal[t], About("plan_step_started", Folded(t))), state[t], plan[t], pc[t], at[t], verdict[t])
    BY <1>0, <2>1, MovingIs, TaskTyped, LocalFields, ActsAre, <1>p DEF ShapeOf, FoldCheckpoint, PlanningAt, WorkingAt, States, InWave, Folding
  <2>6. QED
    BY <1>0, <1>2, <2>1, <2>2, <2>3, <2>4, <2>5, Became
<1>3. QED
  BY FoldCheckpointIs, <1>1, <1>2

LEMMA ApproveShaped ==
  ASSUME Shaped, NEW t \in Tasks, Approve(t)
  PROVE  Shaped'
<1>0. /\ settings' \in Settings /\ replies' \in Nat /\ crashes' \in Nat
      /\ ShapeOf(t, journal[t], state[t], plan[t], pc[t], at[t], verdict[t])
  BY TaskTyped, ApproveIs
<1>p. PendingToolCall(journal[t]) \in Nat
  <2>1. journal[t] \in Seq(Entries)
    BY TaskTyped
  <2>2. QED
    BY <2>1, PlacesAre, LastOfIs DEF PendingToolCall, LastToolCall
<1>1. ASSUME Becomes(t, Append(journal[t], Outcome("tool_result", PendingToolCall(journal[t]))), state[t], plan[t], "move", Moving("Implementing", "top"), verdict[t])
      PROVE  Shaped'
  <2>k. "tool_result" \in Kinds /\ 0 \in Nat /\ None \in Names
    BY DEF Kinds, Names
  <2>e. Outcome("tool_result", PendingToolCall(journal[t])) \in Entries
    BY <2>k, OutcomeTyped, TaskTyped, LocalFields, ActsAre, <1>p
  <2>1. Append(journal[t], Outcome("tool_result", PendingToolCall(journal[t]))) \in Seq(Entries)
    BY TaskTyped, <2>e, Appended
  <2>2. state[t] \in States /\ plan[t] \in Plans /\ "move" \in Pcs
    BY TaskTyped, <1>p DEF States, Pcs, PlanningAt, WorkingAt
  <2>3. Moving("Implementing", "top") \in Locals
    BY IdleTyped, <1>p DEF States
  <2>4. verdict[t] \in Verdicts
    BY TaskTyped DEF Verdicts
  <2>5. ShapeOf(t, Append(journal[t], Outcome("tool_result", PendingToolCall(journal[t]))), state[t], plan[t], "move", Moving("Implementing", "top"), verdict[t])
    BY <1>0, <2>1, MovingIs, TaskTyped, LocalFields, ActsAre, <1>p DEF ShapeOf, Approve, PlanningAt, WorkingAt, States, InWave, MayReply
  <2>6. QED
    BY <1>0, <1>1, <2>1, <2>2, <2>3, <2>4, <2>5, Became
<1>2. QED
  BY ApproveIs, <1>1

LEMMA DenyShaped ==
  ASSUME Shaped, NEW t \in Tasks, Deny(t)
  PROVE  Shaped'
<1>0. /\ settings' \in Settings /\ replies' \in Nat /\ crashes' \in Nat
      /\ ShapeOf(t, journal[t], state[t], plan[t], pc[t], at[t], verdict[t])
  BY TaskTyped, DenyIs
<1>p. PendingToolCall(journal[t]) \in Nat
  <2>1. journal[t] \in Seq(Entries)
    BY TaskTyped
  <2>2. QED
    BY <2>1, PlacesAre, LastOfIs DEF PendingToolCall, LastToolCall
<1>1. ASSUME Becomes(t, Append(journal[t], Outcome("tool_denied", PendingToolCall(journal[t]))), state[t], plan[t], "move", Moving("Failed", "off"), verdict[t])
      PROVE  Shaped'
  <2>k. "tool_denied" \in Kinds /\ 0 \in Nat /\ None \in Names
    BY DEF Kinds, Names
  <2>e. Outcome("tool_denied", PendingToolCall(journal[t])) \in Entries
    BY <2>k, OutcomeTyped, TaskTyped, LocalFields, ActsAre, <1>p
  <2>1. Append(journal[t], Outcome("tool_denied", PendingToolCall(journal[t]))) \in Seq(Entries)
    BY TaskTyped, <2>e, Appended
  <2>2. state[t] \in States /\ plan[t] \in Plans /\ "move" \in Pcs
    BY TaskTyped, <1>p DEF States, Pcs, PlanningAt, WorkingAt
  <2>3. Moving("Failed", "off") \in Locals
    BY IdleTyped, <1>p DEF States
  <2>4. verdict[t] \in Verdicts
    BY TaskTyped DEF Verdicts
  <2>5. ShapeOf(t, Append(journal[t], Outcome("tool_denied", PendingToolCall(journal[t]))), state[t], plan[t], "move", Moving("Failed", "off"), verdict[t])
    BY <1>0, <2>1, MovingIs, TaskTyped, LocalFields, ActsAre, <1>p DEF ShapeOf, Deny, PlanningAt, WorkingAt, States, InWave, MayReply
  <2>6. QED
    BY <1>0, <1>1, <2>1, <2>2, <2>3, <2>4, <2>5, Became
<1>2. QED
  BY DenyIs, <1>1

LEMMA RespondShaped ==
  ASSUME Shaped, NEW t \in Tasks, Respond(t)
  PROVE  Shaped'
<1>0. /\ settings' \in Settings /\ replies' \in Nat /\ crashes' \in Nat
      /\ ShapeOf(t, journal[t], state[t], plan[t], pc[t], at[t], verdict[t])
  BY TaskTyped, RespondIs
<1>1. ASSUME Becomes(t, Append(journal[t], Plain("user_response")), state[t], plan[t], "move", Moving("Implementing", "top"), verdict[t])
      PROVE  Shaped'
  <2>k. "user_response" \in Kinds /\ 0 \in Nat /\ None \in Names
    BY DEF Kinds, Names
  <2>e. Plain("user_response") \in Entries
    BY <2>k, PlainTyped, TaskTyped, LocalFields, ActsAre
  <2>1. Append(journal[t], Plain("user_response")) \in Seq(Entries)
    BY TaskTyped, <2>e, Appended
  <2>2. state[t] \in States /\ plan[t] \in Plans /\ "move" \in Pcs
    BY TaskTyped DEF States, Pcs, PlanningAt, WorkingAt
  <2>3. Moving("Implementing", "top") \in Locals
    BY IdleTyped DEF States
  <2>4. verdict[t] \in Verdicts
    BY TaskTyped DEF Verdicts
  <2>5. ShapeOf(t, Append(journal[t], Plain("user_response")), state[t], plan[t], "move", Moving("Implementing", "top"), verdict[t])
    BY <1>0, <2>1, MovingIs, TaskTyped, LocalFields, ActsAre DEF ShapeOf, Respond, PlanningAt, WorkingAt, States, InWave, MayReply
  <2>6. QED
    BY <1>0, <1>1, <2>1, <2>2, <2>3, <2>4, <2>5, Became
<1>2. QED
  BY RespondIs, <1>1


\* Only Root waves: the plan of a child has one step.
LEMMA RootWaves ==
  ASSUME Shaped, NEW t \in Tasks,
         ErrorsOf[plan[t]][settings.manual] = {}, NextStep(t) # None, Len(RestOfGroup(t)) > 1
  PROVE  t = Root
<1>1. SUFFICES ASSUME t # Root PROVE FALSE
  OBVIOUS
<1>2. plan[t] \in Solos
  <2>1. plan[t] \in Solos \union {NoPlan}
    BY <1>1, TaskTyped DEF ShapeOf
  <2>2. plan[t] # NoPlan
    BY NextStepReady, PlansAre
  <2>3. QED
    BY <2>1, <2>2
<1>3. PICK s \in Names : StepIds(plan[t]) = {s}
  BY <1>2, PlansAre
<1>4. RestOfGroup(t) \in Seq({s}) /\ OneToOne(RestOfGroup(t))
  BY <1>3, NextStepReady
<1>5. /\ 1 \in DOMAIN RestOfGroup(t) /\ 2 \in DOMAIN RestOfGroup(t)
      /\ RestOfGroup(t)[1] = s /\ RestOfGroup(t)[2] = s
  BY <1>4
<1>6. QED
  BY <1>4, <1>5 DEF OneToOne

\* What a wave sets out to do.
LEMMA TodoIs ==
  ASSUME Shaped, NEW t \in Tasks,
         ErrorsOf[plan[t]][settings.manual] = {}, NextStep(t) # None
  PROVE  LET todo == WaveChunks(RestOfGroup(t), plan[t], MaxParallel) IN
         /\ todo \in Seq(Seq(Names)) /\ todo \in Seq(Seq(StepIds(plan[t]))) /\ Apart(todo)
         /\ \A k \in DOMAIN todo : ToSet(todo[k]) \subseteq ToSet(RestOfGroup(t))
<1>1. RestOfGroup(t) \in Seq(StepIds(plan[t])) /\ OneToOne(RestOfGroup(t))
  BY NextStepReady
<1>2. StepIds(plan[t]) \subseteq Names
  BY TaskTyped, PlansAre
<1>3. RestOfGroup(t) \in Seq(Names)
  BY <1>1, <1>2
<1>4. MaxParallel \in Nat \ {0}
  BY PlanStepsAssumption
<1>5. QED
  BY <1>1, <1>3, <1>4, WaveIsCut

LEMMA Shortened ==
  ASSUME NEW X, NEW w \in Seq(Seq(X)), w # <<>>
  PROVE  /\ Tail(w) \in Seq(Seq(X)) /\ Head(w) \in Seq(X)
         /\ Head(w) # <<>> => <<Tail(Head(w))>> \o Tail(w) \in Seq(Seq(X))
<1>1. Tail(w) \in Seq(Seq(X)) /\ Head(w) \in Seq(X)
  OBVIOUS
<1>2. ASSUME Head(w) # <<>> PROVE <<Tail(Head(w))>> \o Tail(w) \in Seq(Seq(X))
  <2>1. Tail(Head(w)) \in Seq(X)
    BY <1>1, <1>2
  <2>2. <<Tail(Head(w))>> \in Seq(Seq(X))
    BY <2>1
  <2>3. QED
    BY <1>1, <2>2
<1>3. QED
  BY <1>1, <1>2

LEMMA BeginWaveShaped ==
  ASSUME Shaped, NEW t \in Tasks, BeginWave(t)
  PROVE  Shaped'
<1> DEFINE w == WaveChunks(RestOfGroup(t), plan[t], MaxParallel)
<1>1. w \in Seq(Seq(Names)) /\ w \in Seq(Seq(StepIds(plan[t]))) /\ t = Root
  BY TodoIs, RootWaves DEF BeginWave
<1> HIDE DEF w
<1>2. Becomes(t, journal[t], state[t], plan[t], "wave", WithTodo(at[t], w), verdict[t])
  BY BeginWaveIs DEF w
<1>3. /\ settings' \in Settings /\ replies' \in Nat /\ crashes' \in Nat
      /\ ShapeOf(t, journal[t], state[t], plan[t], pc[t], at[t], verdict[t])
  BY TaskTyped, BeginWaveIs
<1>4. WithTodo(at[t], w) \in Locals /\ WithTodo(at[t], w).todo = w
  BY <1>1, TaskTyped, WithTodoIs
<1>5. /\ journal[t] \in Seq(Entries) /\ state[t] \in States /\ plan[t] \in Plans
      /\ "wave" \in Pcs /\ verdict[t] \in Verdicts
  BY TaskTyped DEF Pcs, WorkingAt
<1>6. state[t] = "Implementing"
  BY DEF BeginWave, Undisturbed, MayWork, AtStep
<1>7. ShapeOf(t, journal[t], state[t], plan[t], "wave", WithTodo(at[t], w), verdict[t])
  BY <1>1, <1>3, <1>4, <1>6 DEF ShapeOf, PlanningAt, WorkingAt
<1>8. QED
  BY <1>2, <1>3, <1>4, <1>5, <1>7, Became

LEMMA FoldCompleteShaped ==
  ASSUME Shaped, NEW t \in Tasks, FoldComplete(t)
  PROVE  Shaped'
<1> DEFINE j == Append(journal[t], About("plan_step_completed", Folded(t)))
           l == LessOne(at[t])
<1>1. Becomes(t, j, state[t], plan[t], pc[t], l, verdict[t])
  BY FoldCompleteIs
<1>2. /\ settings' \in Settings /\ replies' \in Nat /\ crashes' \in Nat
      /\ ShapeOf(t, journal[t], state[t], plan[t], pc[t], at[t], verdict[t])
  BY TaskTyped, FoldCompleteIs
<1>3. Folding(t)
  BY DEF FoldComplete
<1>4. /\ at[t].todo \in Seq(Seq(Names)) /\ at[t].todo # <<>>
      /\ Head(at[t].todo) \in Seq(Names) /\ Head(at[t].todo) # <<>> /\ Folded(t) \in Names
      /\ at[t].kids \in Seq(Children) /\ at[t].kids # <<>>
      /\ Len(at[t].kids) = Len(Head(at[t].todo))
  BY <1>3, FoldedIs
<1>5. /\ l \in Locals /\ l.kids = Tail(at[t].kids)
      /\ l.todo = <<Tail(Head(at[t].todo))>> \o Tail(at[t].todo)
  BY <1>4, TaskTyped, LessOneIs
<1>6. l.todo # <<>> /\ Head(l.todo) = Tail(Head(at[t].todo))
  <2>1. Tail(at[t].todo) \in Seq(Seq(Names)) /\ Tail(Head(at[t].todo)) \in Seq(Names)
    BY <1>4
  <2>2. QED
    BY <1>5, <2>1
<1>7. Len(l.kids) = Len(Head(l.todo))
  BY <1>4, <1>5, <1>6
<1>8. j \in Seq(Entries)
  <2>1. "plan_step_completed" \in Kinds
    BY DEF Kinds
  <2>2. About("plan_step_completed", Folded(t)) \in Entries
    BY <2>1, <1>4, AboutTyped
  <2>3. QED
    BY <2>2, TaskTyped, Appended
<1>9. state[t] \in States /\ plan[t] \in Plans /\ pc[t] \in Pcs /\ verdict[t] \in Verdicts
  BY TaskTyped
<1>10. l.todo \in Seq(Seq(StepIds(plan[t])))
  <2>1. at[t].todo \in Seq(Seq(StepIds(plan[t])))
    BY <1>2, <1>3 DEF ShapeOf, Folding
  <2>2. QED
    BY <2>1, <1>4, <1>5, Shortened
<1>11. ShapeOf(t, j, state[t], plan[t], pc[t], l, verdict[t])
  <2> HIDE DEF j, l
  <2> QED BY <1>2, <1>3, <1>6, <1>7, <1>10 DEF ShapeOf, Folding, PlanningAt, WorkingAt
<1> HIDE DEF j, l
<1>12. QED
  BY <1>1, <1>2, <1>5, <1>8, <1>9, <1>11, Became

LEMMA NextChunkShaped ==
  ASSUME Shaped, NEW t \in Tasks, NextChunk(t)
  PROVE  Shaped'
<1>1. /\ settings' \in Settings /\ replies' \in Nat /\ crashes' \in Nat
      /\ ShapeOf(t, journal[t], state[t], plan[t], pc[t], at[t], verdict[t])
  BY TaskTyped, NextChunkIs
<1>2. /\ journal[t] \in Seq(Entries) /\ state[t] \in States /\ plan[t] \in Plans
      /\ "wave" \in Pcs /\ "top" \in Pcs /\ verdict[t] \in Verdicts
  BY TaskTyped DEF Pcs, WorkingAt
<1>3. t = Root /\ state[t] = "Implementing" /\ at[t].todo \in Seq(Seq(StepIds(plan[t]))) /\ at[t].todo # <<>>
      /\ at[t].todo \in Seq(Seq(Names))
  BY <1>1, TaskTyped, LocalFields DEF NextChunk, ShapeOf, WorkingAt
<1>4. ASSUME Becomes(t, journal[t], state[t], plan[t], "wave", WithTodo(at[t], Tail(at[t].todo)), verdict[t])
      PROVE  Shaped'
  <2>1. Tail(at[t].todo) \in Seq(Seq(Names)) /\ Tail(at[t].todo) \in Seq(Seq(StepIds(plan[t])))
    BY <1>3, Shortened
  <2>2. WithTodo(at[t], Tail(at[t].todo)) \in Locals
        /\ WithTodo(at[t], Tail(at[t].todo)).todo = Tail(at[t].todo)
    BY <2>1, TaskTyped, WithTodoIs
  <2>3. ShapeOf(t, journal[t], state[t], plan[t], "wave", WithTodo(at[t], Tail(at[t].todo)), verdict[t])
    BY <1>1, <1>3, <2>1, <2>2 DEF ShapeOf, PlanningAt, WorkingAt
  <2>4. QED
    BY <1>1, <1>2, <1>4, <2>2, <2>3, Became
<1>5. ASSUME Becomes(t, journal[t], state[t], plan[t], "top", Idle, verdict[t]) PROVE Shaped'
  <2>1. ShapeOf(t, journal[t], state[t], plan[t], "top", Idle, verdict[t])
    BY <1>1, <1>3 DEF ShapeOf, PlanningAt, WorkingAt
  <2>2. QED
    BY <1>1, <1>2, <1>5, <2>1, IdleTyped, Became
<1>6. QED
  BY NextChunkIs, <1>4, <1>5

LEMMA MoveShaped ==
  ASSUME Shaped, NEW t \in Tasks, Move(t)
  PROVE  Shaped'
<1>1. /\ settings' \in Settings /\ replies' \in Nat /\ crashes' \in Nat
      /\ ShapeOf(t, journal[t], state[t], plan[t], pc[t], at[t], verdict[t])
  BY TaskTyped, MoveIs
<1>2. pc[t] = "move"
  BY DEF Move
<1>3. PICK to \in {"Implementing", "Failed", "Verifying", "WaitingForUser", "WaitingForPermission"},
           then \in {"off", "top"} : at[t] = Moving(to, then) /\ (to = "Failed" => then = "off")
  BY <1>1, <1>2 DEF ShapeOf
<1>4. to \in States /\ "off" \in Pcs /\ then \in Pcs
  BY DEF States, Pcs
<1>5. at[t].to = to /\ at[t].then = then
  BY <1>3, <1>4, MovingIs
<1>6. /\ journal[t] \in Seq(Entries) /\ plan[t] \in Plans /\ verdict[t] \in Verdicts
  BY TaskTyped
<1>7. ASSUME NEW c \in {"off", "top"}, NEW v \in Verdicts, v # "running" \/ v = verdict[t],
             to = "Failed" => c = "off",
             Becomes(t, journal[t], to, plan[t], c, Idle, v)
      PROVE  Shaped'
  <2>1. ShapeOf(t, journal[t], to, plan[t], c, Idle, v)
    BY <1>1, <1>2, <1>7 DEF ShapeOf, PlanningAt, WorkingAt
  <2>2. c \in Pcs
    BY DEF Pcs
  <2>3. QED
    BY <1>1, <1>4, <1>6, <1>7, <2>1, <2>2, IdleTyped, Became
<1>8. CASE at[t].then = "off"
  <2> DEFINE v == IF InWave(t) THEN "bad" ELSE verdict[t]
  <2>1. v \in Verdicts /\ (v # "running" \/ v = verdict[t])
    BY <1>6 DEF Verdicts
  <2>2. Becomes(t, journal[t], to, plan[t], "off", Idle, v)
    BY <1>5, <1>8, MoveIs
  <2> HIDE DEF v
  <2>3. QED
    BY <2>1, <2>2, <1>7
<1>9. CASE at[t].then # "off"
  <2>1. Becomes(t, journal[t], to, plan[t], then, Idle, verdict[t])
    BY <1>5, <1>9, MoveIs
  <2>2. QED
    BY <2>1, <1>3, <1>6, <1>7
<1>10. QED
  BY <1>8, <1>9

\* A wave creates its next child: c, for the step s.
Spawns(c, s) ==
  /\ journal' = [journal EXCEPT ![Root] = Append(journal[Root], About("subtask_started", s))]
  /\ state'   = [state EXCEPT ![c] = "Implementing"]
  /\ plan'    = [plan EXCEPT ![c] = SoloPlan(plan[Root], s)]
  /\ pc'      = [pc EXCEPT ![c] = "top"]
  /\ at'      = [at EXCEPT ![Root] = WithKids(at[Root], Append(at[Root].kids, c))]
  /\ verdict' = [verdict EXCEPT ![c] = "running"]

\* The step the next child of a wave is created for.
SpawnedFor == Head(at[Root].todo)[Len(at[Root].kids) + 1]

LEMMA SpawnChildIs ==
  ASSUME Shaped, NEW t \in Tasks, SpawnChild(t)
  PROVE  /\ t = Root /\ pc[Root] = "wave"
         /\ at[Root].todo # <<>> /\ Len(at[Root].kids) < Len(Head(at[Root].todo))
         /\ SpawnedFor \in StepIds(plan[Root])
         /\ Len(at[Root].kids) + 1 \in DOMAIN Head(at[Root].todo)
         /\ \E c \in Children : state[c] = "None" /\ Spawns(c, SpawnedFor)
         /\ UNCHANGED settings /\ UNCHANGED <<replies, crashes>>
<1>1. t = Root /\ pc[Root] = "wave" /\ at[Root].todo \in Seq(Seq(StepIds(plan[Root])))
  BY TaskTyped DEF SpawnChild, ShapeOf
<1>2. at[Root].todo # <<>> /\ Len(at[Root].kids) < Len(Head(at[Root].todo))
  BY <1>1 DEF SpawnChild
<1>3. at[Root].kids \in Seq(Children)
  BY TaskTyped, TasksAre, LocalFields
<1>4. SpawnedFor \in StepIds(plan[Root]) /\ Len(at[Root].kids) + 1 \in DOMAIN Head(at[Root].todo)
  <2>1. Head(at[Root].todo) \in Seq(StepIds(plan[Root]))
    BY <1>1, <1>2
  <2>2. Len(at[Root].kids) + 1 \in DOMAIN Head(at[Root].todo)
    BY <2>1, <1>2, <1>3
  <2>3. QED
    BY <2>1, <2>2 DEF SpawnedFor
<1>5. FirstOf(Unborn) \in Unborn
  <2>1. Unborn \in SUBSET Nat /\ 0 \notin Unborn
    BY PlanStepsAssumption DEF Unborn, Children
  <2>2. QED
    BY <2>1, FirstOfIs DEF SpawnChild
<1> DEFINE c == FirstOf(Unborn)
<1>6. c \in Children /\ state[c] = "None"
  BY <1>5 DEF Unborn
<1>7. Spawns(c, SpawnedFor)
  BY <1>1 DEF SpawnChild, Spawns, SpawnedFor, Write, WithKids
<1>8. QED
  BY <1>1, <1>2, <1>4, <1>6, <1>7 DEF SpawnChild

LEMMA SpawnedAt ==
  ASSUME Shaped, NEW c \in Children, NEW s, Spawns(c, s)
  PROVE  /\ c # Root /\ c \in Tasks /\ Root \in Tasks
         /\ journal'[Root] = Append(journal[Root], About("subtask_started", s))
         /\ state'[Root] = state[Root] /\ plan'[Root] = plan[Root] /\ pc'[Root] = pc[Root]
         /\ at'[Root] = WithKids(at[Root], Append(at[Root].kids, c)) /\ verdict'[Root] = verdict[Root]
         /\ journal'[c] = journal[c] /\ state'[c] = "Implementing"
         /\ plan'[c] = SoloPlan(plan[Root], s) /\ pc'[c] = "top" /\ at'[c] = at[c]
         /\ verdict'[c] = "running"
         /\ \A u \in Tasks : u # c /\ u # Root =>
              /\ journal'[u] = journal[u] /\ state'[u] = state[u] /\ plan'[u] = plan[u]
              /\ pc'[u] = pc[u] /\ at'[u] = at[u] /\ verdict'[u] = verdict[u]
<1>1. c # Root /\ c \in Tasks /\ Root \in Tasks
  BY TasksAre DEF Tasks
<1>2. QED
  BY <1>1 DEF Shaped, TypeOK, Spawns

LEMMA SpawnChildShaped ==
  ASSUME Shaped, NEW t \in Tasks, SpawnChild(t)
  PROVE  Shaped'
<1> DEFINE s == SpawnedFor
           j == Append(journal[Root], About("subtask_started", s))
           l(c) == WithKids(at[Root], Append(at[Root].kids, c))
<1>1. /\ pc[Root] = "wave" /\ s \in StepIds(plan[Root])
      /\ UNCHANGED settings /\ UNCHANGED <<replies, crashes>>
  BY SpawnChildIs
<1>2. PICK c \in Children : state[c] = "None" /\ Spawns(c, s)
  BY SpawnChildIs
<1> HIDE DEF s
<1>3. Root \in Tasks /\ c \in Tasks /\ c # Root
  BY TasksAre DEF Tasks
<1>4. plan[Root] \in Submissions /\ s \in Names
  <2>1. plan[Root] \in Submissions \union {NoPlan}
    BY <1>3, TaskTyped DEF ShapeOf
  <2>2. StepIds(NoPlan) = {} /\ StepIds(plan[Root]) \subseteq Names
    BY <1>3, TaskTyped, PlansAre
  <2>3. QED
    BY <1>1, <2>1, <2>2
<1>5. SoloPlan(plan[Root], s) \in Solos /\ SoloPlan(plan[Root], s) \in Plans
  BY <1>1, <1>4, PlansAre DEF Solos
<1>6. j \in Seq(Entries)
  <2>1. "subtask_started" \in Kinds
    BY DEF Kinds
  <2>2. About("subtask_started", s) \in Entries
    BY <2>1, <1>4, AboutTyped
  <2>3. QED
    BY <2>2, <1>3, TaskTyped, Appended
<1>7. l(c) \in Locals /\ l(c).todo = at[Root].todo
  <2>1. Append(at[Root].kids, c) \in Seq(Children)
    BY <1>3, TaskTyped, LocalFields
  <2>2. QED
    BY <2>1, <1>3, TaskTyped, WithKidsIs
<1>8. TypeOK'
  <2>1. "Implementing" \in States /\ "top" \in Pcs /\ "running" \in Verdicts
    BY DEF States, Pcs, Verdicts
  <2>2. TypeOK
    BY DEF Shaped
  <2> HIDE DEF j, l
  <2>3. journal' = [journal EXCEPT ![Root] = j] /\ at' = [at EXCEPT ![Root] = l(c)]
    BY <1>2 DEF Spawns, j, l
  <2>4. QED
    BY <1>1, <1>2, <1>3, <1>5, <1>6, <1>7, <2>1, <2>2, <2>3 DEF TypeOK, Spawns
<1>9. ASSUME NEW u \in Tasks PROVE Shape(u)'
  <2>1. ShapeOf(u, journal[u], state[u], plan[u], pc[u], at[u], verdict[u])
    BY TaskTyped
  <2>2. CASE u = Root
    <3>1. ShapeOf(Root, j, state[Root], plan[Root], pc[Root], l(c), verdict[Root])
      <4> HIDE DEF j, l
      <4> QED BY <1>1, <1>7, <2>1, <2>2 DEF ShapeOf, PlanningAt, WorkingAt
    <3>2. QED
      BY <2>2, <3>1, <1>2, SpawnedAt DEF Shape
  <2>3. CASE u = c
    <3>1. pc[c] = "off" /\ journal[c] = <<>> /\ at[c] = Idle
      BY <1>2, <1>3, <2>1, <2>3 DEF ShapeOf
    <3>2. ShapeOf(c, <<>>, "Implementing", SoloPlan(plan[Root], s), "top", Idle, "running")
      BY <1>3, <1>5 DEF ShapeOf, PlanningAt, WorkingAt
    <3>3. QED
      BY <2>3, <3>1, <3>2, <1>2, SpawnedAt DEF Shape
  <2>4. CASE u # Root /\ u # c
    BY <2>1, <2>4, <1>2, SpawnedAt DEF Shape
  <2>5. QED
    BY <2>2, <2>3, <2>4
<1>10. QED
  BY <1>8, <1>9 DEF Shaped

LEMMA ResumeIs ==
  ASSUME Shaped, Resume
  PROVE  /\ Becomes(Root, Append(journal[Root], Plain("note")), state[Root], plan[Root], "top",
                    at[Root], verdict[Root])
         /\ UNCHANGED settings /\ UNCHANGED <<replies, crashes>> /\ at[Root] = Idle
<1>1. Root \in Tasks
  BY TasksAre
<1>2. at[Root] = Idle
  BY <1>1, TaskTyped DEF Resume, ShapeOf
<1>3. QED
  BY <1>1, <1>2, Unwritten DEF Resume, Becomes, Goto, Write

LEMMA ResumeShaped ==
  ASSUME Shaped, Resume
  PROVE  Shaped'
<1> DEFINE j == Append(journal[Root], Plain("note"))
<1>1. /\ Becomes(Root, j, state[Root], plan[Root], "top", at[Root], verdict[Root])
      /\ UNCHANGED settings /\ UNCHANGED <<replies, crashes>> /\ at[Root] = Idle
  BY ResumeIs
<1>2. /\ Root \in Tasks /\ settings \in Settings /\ replies \in Nat /\ crashes \in Nat
      /\ ShapeOf(Root, journal[Root], state[Root], plan[Root], pc[Root], at[Root], verdict[Root])
      /\ journal[Root] \in Seq(Entries) /\ state[Root] \in States /\ plan[Root] \in Plans
      /\ "top" \in Pcs /\ verdict[Root] \in Verdicts /\ at[Root] \in Locals
  BY TasksAre, TaskTyped DEF Pcs
<1>3. j \in Seq(Entries)
  <2>1. "note" \in Kinds
    BY DEF Kinds
  <2>2. QED
    BY <1>2, <2>1, PlainTyped, Appended
<1> HIDE DEF j
<1>4. ShapeOf(Root, j, state[Root], plan[Root], "top", at[Root], verdict[Root])
  BY <1>1, <1>2 DEF ShapeOf, PlanningAt, WorkingAt, Resume
<1>5. QED
  BY <1>1, <1>2, <1>3, <1>4, Became

LEMMA KillShaped ==
  ASSUME Shaped, Kill
  PROVE  Shaped'
<1>1. TypeOK'
  <2>1. "off" \in Pcs /\ "none" \in Verdicts /\ Idle \in Locals
    BY IdleTyped DEF Pcs, Verdicts
  <2>2. TypeOK
    BY DEF Shaped
  <2>3. QED
    BY <2>1, <2>2 DEF TypeOK, Kill
<1>2. ASSUME NEW t \in Tasks PROVE Shape(t)'
  <2>1. ShapeOf(t, journal[t], state[t], plan[t], pc[t], at[t], verdict[t])
    BY TaskTyped
  <2>2. ShapeOf(t, journal[t], state[t], plan[t], "off", Idle, "none")
    BY <2>1 DEF ShapeOf, PlanningAt, WorkingAt
  <2>3. QED
    BY <2>2 DEF Shape, Kill
<1>3. QED
  BY <1>1, <1>2 DEF Shaped

LEMMA InitShaped ==
  ASSUME Init
  PROVE  Shaped
<1>1. TypeOK
  <2>1. /\ "off" \in Pcs /\ "top" \in Pcs /\ "none" \in Verdicts /\ Idle \in Locals
        /\ "Planning" \in States /\ "None" \in States /\ NoPlan \in Plans
    BY IdleTyped, PlansAre DEF Pcs, Verdicts, States
  <2>2. <<>> \in Seq(Entries)
    OBVIOUS
  <2>3. QED
    BY <2>1, <2>2 DEF TypeOK, Init
<1>2. ASSUME NEW t \in Tasks PROVE Shape(t)
  <2>1. CASE t = Root
    <3>1. ShapeOf(Root, <<>>, "Planning", NoPlan, "top", Idle, "none")
      BY DEF ShapeOf, PlanningAt, WorkingAt
    <3>2. QED
      BY <2>1, <3>1 DEF Shape, Init
  <2>2. CASE t # Root
    <3>1. ShapeOf(t, <<>>, "None", NoPlan, "off", Idle, "none")
      BY <2>2 DEF ShapeOf, PlanningAt, WorkingAt
    <3>2. QED
      BY <2>2, <3>1 DEF Shape, Init
  <2>3. QED
    BY <2>1, <2>2
<1>3. QED
  BY <1>1, <1>2 DEF Shaped

\* The records stay well-formed: whatever the interleaving of a task, its
\* waves, the user and kills, a driver in a handler has the state, the plan
\* and the locals that handler relies on, only the task itself plans or
\* waves, and a task not created yet has no trace.
THEOREM RecordsAreWellFormed == Spec => []Shaped
<1>1. Init => Shaped
  BY InitShaped
<1>2. Shaped /\ [Next]_vars => Shaped'
  <2> SUFFICES ASSUME Shaped, [Next]_vars PROVE Shaped'
    OBVIOUS
  <2>1. ASSUME NEW t \in Tasks, Driver(t) PROVE Shaped'
    <3>1. CASE Planning(t)
      BY <3>1, PassPlanningShaped, EnterPlanningShaped, LeavePlanningShaped, ProposeShaped,
         PlanAnsweredShaped, SavePlanShaped, AcceptPlanShaped, RejectPlanShaped DEF Planning
    <3>2. CASE Working(t)
      BY <3>2, WaveChildDoneShaped, ReissueCallShaped, PlanSpoiledShaped, StepsDoneShaped,
         BeginStepShaped, BeginWaveShaped, TakeCheckpointShaped, StartStepShaped,
         ForceCompleteShaped, ReplayActionShaped, RequestActionShaped, StepAnsweredShaped,
         NoteScopeExpansionShaped, IssueCallShaped, FinishStepShaped, AskUserShaped, ToolEndsShaped
         DEF Working
    <3>3. CASE Conversing(t)
      BY <3>3, RequestTurnShaped, TurnAnsweredShaped, FinishTurnsShaped DEF Conversing
    <3>4. CASE Waving(t)
      BY <3>4, SpawnChildShaped, JoinChunkShaped, FoldFailureShaped, FoldCheckpointShaped,
         FoldCompleteShaped, NextChunkShaped DEF Waving
    <3>5. QED
      BY <2>1, <3>1, <3>2, <3>3, <3>4, MoveShaped, FaultShaped DEF Driver
  <2>2. CASE User
    BY <2>2, ApproveShaped, DenyShaped, RespondShaped, ResumeShaped DEF User
  <2>3. CASE Kill
    BY <2>3, KillShaped
  <2>4. CASE UNCHANGED vars
    BY <2>4 DEF vars, Shaped, TypeOK, Shape
  <2>5. QED
    BY <2>1, <2>2, <2>3, <2>4 DEF Next
<1>3. QED
  BY <1>1, <1>2, PTL DEF Spec

-----------------------------------------------------------------------------
(* The work of a plan is done in order.                                    *)

CompleteBefore(j, s, i) == \E k \in PlacesFor(j, {"plan_step_completed"}, s) : k < i

InOrderOf(j, p) ==
  \A i \in Places(j, StepWork) :
    j[i].step # None => /\ \A d \in StepOf(p, j[i].step).deps : CompleteBefore(j, d, i)
                        /\ ~CompleteBefore(j, j[i].step, i)

\* The step s may be worked on: what it needs is complete and it is not.
Doable(j, p, s) ==
  StepOf(p, s).deps \subseteq CompletedPlanSteps(j) /\ s \notin CompletedPlanSteps(j)

Unworked(j) == \A i \in Places(j, StepWork) : j[i].step = None

\* An entry that is no work for a step.
Quiet(e) == e.kind # "plan_step_completed" /\ (e.kind \in StepWork => e.step = None)

\* Where a driver or a wave has steps in hand.
InHand == {"begin", "call", "act", "wave", "fold"}

\* What the record of the task says of the order: a plan that can still be
\* replaced has not been worked on, the step in hand and every step of the
\* wave in hand may be worked on, and a wave has each of its steps once.
OrderedOf(j, s, p, c, l) ==
  /\ InOrderOf(j, p)
  /\ s = "Planning" => Unworked(j)
  /\ c \in {"begin", "call", "act"} => Doable(j, p, l.step)
  /\ c \in {"wave", "fold"} =>
       Apart(l.todo) /\ \A k \in DOMAIN l.todo : \A x \in ToSet(l.todo[k]) : Doable(j, p, x)

Ordered == OrderedOf(journal[Root], state[Root], plan[Root], pc[Root], at[Root])

LEMMA OrderedShows == Ordered => WorkInOrder
BY DEF Ordered, OrderedOf, InOrderOf, CompleteBefore, WorkInOrder

\* What the queries say of a journal with one more entry, whatever it is.
LEMMA AnyAppended ==
  ASSUME NEW j \in Seq(Entries), NEW e
  PROVE  /\ Len(j) \in Nat /\ Len(j) + 1 \notin DOMAIN j /\ Append(j, e)[Len(j) + 1] = e
         /\ \A i \in DOMAIN j : Append(j, e)[i] = j[i] /\ i \in Nat /\ i < Len(j) + 1
         /\ DOMAIN Append(j, e) = DOMAIN j \union {Len(j) + 1}
         /\ \A kinds : Places(Append(j, e), kinds)
                         = Places(j, kinds) \union (IF e.kind \in kinds THEN {Len(j) + 1} ELSE {})
<1>1. j \in Seq(Entries \union {e}) /\ e \in Entries \union {e}
  OBVIOUS
<1>2. /\ Len(j) \in Nat /\ Len(j) + 1 \notin DOMAIN j /\ Append(j, e)[Len(j) + 1] = e
      /\ \A i \in DOMAIN j : Append(j, e)[i] = j[i] /\ i \in Nat /\ i <= Len(j)
      /\ DOMAIN Append(j, e) = DOMAIN j \union {Len(j) + 1}
  BY <1>1, Appended
<1>3. \A i \in DOMAIN j : i < Len(j) + 1
  BY <1>2
<1>4. \A kinds : Places(Append(j, e), kinds)
                   = Places(j, kinds) \union (IF e.kind \in kinds THEN {Len(j) + 1} ELSE {})
  BY <1>1, PlacesAppended
<1>5. QED
  BY <1>2, <1>3, <1>4

LEMMA PlacesForAppended ==
  ASSUME NEW j \in Seq(Entries), NEW e, NEW kinds, NEW s
  PROVE  PlacesFor(Append(j, e), kinds, s)
           = PlacesFor(j, kinds, s)
               \union (IF e.kind \in kinds /\ e.step = s THEN {Len(j) + 1} ELSE {})
<1>1. Places(Append(j, e), kinds)
        = Places(j, kinds) \union (IF e.kind \in kinds THEN {Len(j) + 1} ELSE {})
  BY AnyAppended
<1>2. Places(j, kinds) \subseteq DOMAIN j
  BY PlacesAre
<1>3. Append(j, e)[Len(j) + 1] = e /\ \A i \in DOMAIN j : Append(j, e)[i] = j[i]
  BY AnyAppended
<1>4. QED
  BY <1>1, <1>2, <1>3 DEF PlacesFor

LEMMA CompletedAppended ==
  ASSUME NEW j \in Seq(Entries), NEW e
  PROVE  CompletedPlanSteps(Append(j, e))
           = CompletedPlanSteps(j) \union (IF e.kind = "plan_step_completed" THEN {e.step} ELSE {})
<1> DEFINE K == {"plan_step_completed"}
<1>1. Places(Append(j, e), K) = Places(j, K) \union (IF e.kind \in K THEN {Len(j) + 1} ELSE {})
  BY AnyAppended
<1>2. Places(j, K) \subseteq DOMAIN j
  BY PlacesAre
<1>3. Append(j, e)[Len(j) + 1] = e /\ \A i \in DOMAIN j : Append(j, e)[i] = j[i]
  BY AnyAppended
<1>4. QED
  BY <1>1, <1>2, <1>3 DEF CompletedPlanSteps

LEMMA BeforeAppended ==
  ASSUME NEW j \in Seq(Entries), NEW e, NEW s
  PROVE  /\ \A i \in DOMAIN j : CompleteBefore(Append(j, e), s, i) <=> CompleteBefore(j, s, i)
         /\ CompleteBefore(Append(j, e), s, Len(j) + 1) <=> s \in CompletedPlanSteps(j)
<1> DEFINE K == {"plan_step_completed"}
<1>1. PlacesFor(Append(j, e), K, s)
        = PlacesFor(j, K, s) \union (IF e.kind \in K /\ e.step = s THEN {Len(j) + 1} ELSE {})
  BY PlacesForAppended
<1>2. PlacesFor(j, K, s) \subseteq DOMAIN j
  BY PlacesForAre
<1>3. Len(j) \in Nat /\ \A i \in DOMAIN j : i \in Nat /\ i < Len(j) + 1
  BY AnyAppended
<1>4. \A i \in DOMAIN j : ~(Len(j) + 1 < i)
  BY <1>3
<1>5. ~(Len(j) + 1 < Len(j) + 1)
  BY <1>3
<1>6. \A i \in DOMAIN j : CompleteBefore(Append(j, e), s, i) <=> CompleteBefore(j, s, i)
  BY <1>1, <1>4 DEF CompleteBefore
<1>7. CompleteBefore(Append(j, e), s, Len(j) + 1) <=> PlacesFor(j, K, s) # {}
  BY <1>1, <1>2, <1>3, <1>5 DEF CompleteBefore
<1>8. PlacesFor(j, K, s) # {} <=> s \in CompletedPlanSteps(j)
  BY DEF CompletedPlanSteps, PlacesFor
<1>9. QED
  BY <1>6, <1>7, <1>8

\* Work on a step that may be worked on keeps the order.
LEMMA OrderAppended ==
  ASSUME NEW j \in Seq(Entries), NEW e, NEW p, InOrderOf(j, p),
         e.kind \in StepWork /\ e.step # None => Doable(j, p, e.step)
  PROVE  InOrderOf(Append(j, e), p)
<1> SUFFICES ASSUME NEW i \in Places(Append(j, e), StepWork), Append(j, e)[i].step # None
             PROVE  /\ \A d \in StepOf(p, Append(j, e)[i].step).deps :
                         CompleteBefore(Append(j, e), d, i)
                    /\ ~CompleteBefore(Append(j, e), Append(j, e)[i].step, i)
  BY DEF InOrderOf
<1>1. Places(Append(j, e), StepWork)
        = Places(j, StepWork) \union (IF e.kind \in StepWork THEN {Len(j) + 1} ELSE {})
  BY AnyAppended
<1>2. CASE i \in Places(j, StepWork)
  <2>1. i \in DOMAIN j /\ Append(j, e)[i] = j[i]
    BY <1>2, PlacesAre, AnyAppended
  <2>2. /\ \A d \in StepOf(p, j[i].step).deps : CompleteBefore(j, d, i)
        /\ ~CompleteBefore(j, j[i].step, i)
    BY <1>2, <2>1 DEF InOrderOf
  <2>3. QED
    BY <2>1, <2>2, BeforeAppended
<1>3. CASE i = Len(j) + 1 /\ e.kind \in StepWork
  <2>1. Append(j, e)[i] = e
    BY <1>3, AnyAppended
  <2>2. Doable(j, p, e.step)
    BY <1>3, <2>1
  <2>3. QED
    BY <1>3, <2>1, <2>2, BeforeAppended DEF Doable
<1>4. QED
  BY <1>1, <1>2, <1>3

LEMMA QuietAppended ==
  ASSUME NEW j \in Seq(Entries), NEW e, NEW p, Quiet(e), InOrderOf(j, p)
  PROVE  /\ InOrderOf(Append(j, e), p)
         /\ Unworked(j) => Unworked(Append(j, e))
<1>1. InOrderOf(Append(j, e), p)
  BY OrderAppended DEF Quiet
<1>2. ASSUME Unworked(j) PROVE Unworked(Append(j, e))
  <2>1. Places(Append(j, e), StepWork)
          = Places(j, StepWork) \union (IF e.kind \in StepWork THEN {Len(j) + 1} ELSE {})
    BY AnyAppended
  <2>2. Places(j, StepWork) \subseteq DOMAIN j
    BY PlacesAre
  <2>3. Append(j, e)[Len(j) + 1] = e /\ \A i \in DOMAIN j : Append(j, e)[i] = j[i]
    BY AnyAppended
  <2>4. QED
    BY <1>2, <2>1, <2>2, <2>3 DEF Unworked, Quiet
<1>3. QED
  BY <1>1, <1>2

\* A step stays doable until it, or nothing that matters to it, is completed.
LEMMA StillDoable ==
  ASSUME NEW j \in Seq(Entries), NEW e, NEW p, NEW s, Doable(j, p, s),
         e.kind = "plan_step_completed" => e.step # s
  PROVE  Doable(Append(j, e), p, s)
BY CompletedAppended DEF Doable

LEMMA AreQuiet ==
  /\ \A k, s, a, n, i : /\ Entry(k, s, a, n, i).kind = k /\ Entry(k, s, a, n, i).step = s
  /\ \A k, s : About(k, s).kind = k /\ About(k, s).step = s
  /\ \A k : k # "plan_step_completed" => Quiet(Plain(k))
  /\ \A k, i : k # "plan_step_completed" => Quiet(Outcome(k, i))
  /\ \A k, a, n, i : k # "plan_step_completed" => Quiet(Entry(k, None, a, n, i))
  /\ \A s, a, n, i : Quiet(Entry("step_completion", s, a, n, i))
BY DEF Entry, About, Plain, Outcome, Quiet, StepWork

\* The journal is as it was or has quiet entries only.
Quietly(j, k) ==
  \/ k = j
  \/ \E e : Quiet(e) /\ k = Append(j, e)
  \/ \E e, f \in Entries : Quiet(e) /\ Quiet(f) /\ k = Append(Append(j, e), f)

LEMMA QuietlyKeeps ==
  ASSUME NEW j \in Seq(Entries), NEW k, NEW p, Quietly(j, k), InOrderOf(j, p)
  PROVE  /\ InOrderOf(k, p)
         /\ Unworked(j) => Unworked(k)
<1>1. ASSUME NEW i \in Seq(Entries), NEW e, Quiet(e), InOrderOf(i, p)
      PROVE  InOrderOf(Append(i, e), p) /\ (Unworked(i) => Unworked(Append(i, e)))
  BY <1>1, QuietAppended
<1>2. CASE k = j
  BY <1>2
<1>3. CASE \E e : Quiet(e) /\ k = Append(j, e)
  BY <1>1, <1>3
<1>4. CASE \E e, f \in Entries : Quiet(e) /\ Quiet(f) /\ k = Append(Append(j, e), f)
  <2>1. PICK e \in Entries, f \in Entries : Quiet(e) /\ Quiet(f) /\ k = Append(Append(j, e), f)
    BY <1>4
  <2>2. Append(j, e) \in Seq(Entries)
    BY Appended
  <2>3. InOrderOf(Append(j, e), p) /\ (Unworked(j) => Unworked(Append(j, e)))
    BY <1>1, <2>1
  <2>4. InOrderOf(k, p) /\ (Unworked(Append(j, e)) => Unworked(k))
    BY <1>1, <2>1, <2>2, <2>3
  <2>5. QED
    BY <2>3, <2>4
<1>5. QED
  BY <1>2, <1>3, <1>4 DEF Quietly

LEMMA OrderedBecomes ==
  ASSUME Shaped, Ordered, NEW t \in Tasks, NEW j, NEW s, NEW p, NEW c, NEW l, NEW v,
         Becomes(t, j, s, p, c, l, v), t = Root => OrderedOf(j, s, p, c, l)
  PROVE  Ordered'
<1>1. Root \in Tasks
  BY TasksAre
<1>2. QED
  BY <1>1, BecameAt DEF Ordered

\* Most handlers do no work of a step and leave none in hand.
LEMMA OrderedQuietly ==
  ASSUME Shaped, Ordered, NEW t \in Tasks, NEW j, NEW s, NEW c, NEW l, NEW v,
         Becomes(t, j, s, plan[t], c, l, v), Quietly(journal[t], j),
         s = "Planning" => state[t] = "Planning",
         c \notin InHand
  PROVE  Ordered'
<1>1. ASSUME t = Root PROVE OrderedOf(j, s, plan[t], c, l)
  <2>1. OrderedOf(journal[t], state[t], plan[t], pc[t], at[t]) /\ journal[t] \in Seq(Entries)
    BY <1>1, TaskTyped DEF Ordered
  <2>2. InOrderOf(j, plan[t]) /\ (Unworked(journal[t]) => Unworked(j))
    BY <2>1, QuietlyKeeps DEF OrderedOf
  <2>3. QED
    BY <2>1, <2>2 DEF OrderedOf, InHand
<1>2. QED
  BY <1>1, OrderedBecomes

LEMMA PassPlanningOrdered ==
  ASSUME Shaped, Ordered, NEW t \in Tasks, PassPlanning(t)
  PROVE  Ordered'
<1>1. ASSUME Becomes(t, journal[t], state[t], plan[t], "move", Moving("Implementing", "top"), verdict[t]) PROVE Ordered'
  <2>2. Quietly(journal[t], journal[t])
    BY DEF Quietly
  <2>3. "move" \notin InHand /\ (state[t] = "Planning" => state[t] = "Planning")
    BY DEF InHand
  <2>4. QED
    BY <1>1, <2>2, <2>3, OrderedQuietly
<1>2. QED
  BY PassPlanningIs, <1>1

LEMMA EnterPlanningOrdered ==
  ASSUME Shaped, Ordered, NEW t \in Tasks, EnterPlanning(t)
  PROVE  Ordered'
<1>1. ASSUME Becomes(t, journal[t], state[t], plan[t], "propose", WithTries(Idle, PlanRejectionCount(journal[t])), verdict[t]) PROVE Ordered'
  <2>2. Quietly(journal[t], journal[t])
    BY DEF Quietly
  <2>3. "propose" \notin InHand /\ (state[t] = "Planning" => state[t] = "Planning")
    BY DEF InHand
  <2>4. QED
    BY <1>1, <2>2, <2>3, OrderedQuietly
<1>2. QED
  BY EnterPlanningIs, <1>1

LEMMA LeavePlanningOrdered ==
  ASSUME Shaped, Ordered, NEW t \in Tasks, LeavePlanning(t)
  PROVE  Ordered'
<1>1. ASSUME Becomes(t, journal[t], state[t], plan[t], "move", Moving("Implementing", "top"), verdict[t]) PROVE Ordered'
  <2>2. Quietly(journal[t], journal[t])
    BY DEF Quietly
  <2>3. "move" \notin InHand /\ (state[t] = "Planning" => state[t] = "Planning")
    BY DEF InHand
  <2>4. QED
    BY <1>1, <2>2, <2>3, OrderedQuietly
<1>2. ASSUME Becomes(t, Append(journal[t], Plain("note")), state[t], plan[t], "move", Moving("Failed", "off"), verdict[t]) PROVE Ordered'
  <2>1. Quiet(Plain("note"))
    BY AreQuiet
  <2>2. Quietly(journal[t], Append(journal[t], Plain("note")))
    BY <2>1 DEF Quietly
  <2>3. "move" \notin InHand /\ (state[t] = "Planning" => state[t] = "Planning")
    BY DEF InHand
  <2>4. QED
    BY <1>2, <2>2, <2>3, OrderedQuietly
<1>3. QED
  BY LeavePlanningIs, <1>1, <1>2

LEMMA ProposeOrdered ==
  ASSUME Shaped, Ordered, NEW t \in Tasks, Propose(t)
  PROVE  Ordered'
<1>1. ASSUME Becomes(t, journal[t], state[t], plan[t], "judge", WithAct(at[t], journal[t][UnprocessedPlanSubmission(journal[t])].act), verdict[t]) PROVE Ordered'
  <2>2. Quietly(journal[t], journal[t])
    BY DEF Quietly
  <2>3. "judge" \notin InHand /\ (state[t] = "Planning" => state[t] = "Planning")
    BY DEF InHand
  <2>4. QED
    BY <1>1, <2>2, <2>3, OrderedQuietly
<1>2. ASSUME Becomes(t, Append(journal[t], Entry("model_call", None, Nothing, CountModelCalls(journal[t]), 0)), state[t], plan[t], "plan_call", at[t], verdict[t]) PROVE Ordered'
  <2>1. Quiet(Entry("model_call", None, Nothing, CountModelCalls(journal[t]), 0))
    BY AreQuiet
  <2>2. Quietly(journal[t], Append(journal[t], Entry("model_call", None, Nothing, CountModelCalls(journal[t]), 0)))
    BY <2>1 DEF Quietly
  <2>3. "plan_call" \notin InHand /\ (state[t] = "Planning" => state[t] = "Planning")
    BY DEF InHand
  <2>4. QED
    BY <1>2, <2>2, <2>3, OrderedQuietly
<1>3. QED
  BY ProposeIs, <1>1, <1>2

LEMMA PlanAnsweredOrdered ==
  ASSUME Shaped, Ordered, NEW t \in Tasks, PlanAnswered(t)
  PROVE  Ordered'
<1>1. ASSUME NEW sub,
             Becomes(t, Append(journal[t], Entry("plan_completion", None, sub, CallTurn(t), 0)), state[t], plan[t], "judge", WithAct(at[t], sub), verdict[t]) PROVE Ordered'
  <2>1. Quiet(Entry("plan_completion", None, sub, CallTurn(t), 0))
    BY AreQuiet
  <2>2. Quietly(journal[t], Append(journal[t], Entry("plan_completion", None, sub, CallTurn(t), 0)))
    BY <2>1 DEF Quietly
  <2>3. "judge" \notin InHand /\ (state[t] = "Planning" => state[t] = "Planning")
    BY DEF InHand
  <2>4. QED
    BY <1>1, <2>2, <2>3, OrderedQuietly
<1>2. QED
  BY PlanAnsweredIs, <1>1

LEMMA AcceptPlanOrdered ==
  ASSUME Shaped, Ordered, NEW t \in Tasks, AcceptPlan(t)
  PROVE  Ordered'
<1>1. ASSUME Becomes(t, Append(journal[t], Plain("plan_accepted")), state[t], plan[t], "move", Moving("Implementing", "top"), verdict[t]) PROVE Ordered'
  <2>1. Quiet(Plain("plan_accepted"))
    BY AreQuiet
  <2>2. Quietly(journal[t], Append(journal[t], Plain("plan_accepted")))
    BY <2>1 DEF Quietly
  <2>3. "move" \notin InHand /\ (state[t] = "Planning" => state[t] = "Planning")
    BY DEF InHand
  <2>4. QED
    BY <1>1, <2>2, <2>3, OrderedQuietly
<1>2. QED
  BY AcceptPlanIs, <1>1

LEMMA RejectPlanOrdered ==
  ASSUME Shaped, Ordered, NEW t \in Tasks, RejectPlan(t)
  PROVE  Ordered'
<1>1. ASSUME Becomes(t, Append(Append(journal[t], Plain("plan_rejected")), Plain("note")), state[t], plan[t], "move", Moving("Failed", "off"), verdict[t]) PROVE Ordered'
  <2>1. /\ Plain("plan_rejected") \in Entries /\ Plain("note") \in Entries
        /\ Quiet(Plain("plan_rejected")) /\ Quiet(Plain("note"))
    BY PlainTyped, AreQuiet DEF Kinds
  <2>2. Quietly(journal[t], Append(Append(journal[t], Plain("plan_rejected")), Plain("note")))
    BY <2>1 DEF Quietly
  <2>3. "move" \notin InHand /\ (state[t] = "Planning" => state[t] = "Planning")
    BY DEF InHand
  <2>4. QED
    BY <1>1, <2>2, <2>3, OrderedQuietly
<1>2. ASSUME Becomes(t, Append(journal[t], Plain("plan_rejected")), state[t], plan[t], "propose", Again(at[t]), verdict[t]) PROVE Ordered'
  <2>1. Quiet(Plain("plan_rejected"))
    BY AreQuiet
  <2>2. Quietly(journal[t], Append(journal[t], Plain("plan_rejected")))
    BY <2>1 DEF Quietly
  <2>3. "propose" \notin InHand /\ (state[t] = "Planning" => state[t] = "Planning")
    BY DEF InHand
  <2>4. QED
    BY <1>2, <2>2, <2>3, OrderedQuietly
<1>3. QED
  BY RejectPlanIs, <1>1, <1>2

LEMMA WaveChildDoneOrdered ==
  ASSUME Shaped, Ordered, NEW t \in Tasks, WaveChildDone(t)
  PROVE  Ordered'
<1>1. ASSUME Becomes(t, journal[t], "Completed", plan[t], "off", Idle, "ok") PROVE Ordered'
  <2>2. Quietly(journal[t], journal[t])
    BY DEF Quietly
  <2>3. "off" \notin InHand /\ ("Completed" = "Planning" => state[t] = "Planning")
    BY DEF InHand
  <2>4. QED
    BY <1>1, <2>2, <2>3, OrderedQuietly
<1>2. QED
  BY WaveChildDoneIs, <1>1

LEMMA ReissueCallOrdered ==
  ASSUME Shaped, Ordered, NEW t \in Tasks, ReissueCall(t)
  PROVE  Ordered'
<1>1. ASSUME Becomes(t, Append(journal[t], Entry("tool", None, journal[t][InterruptedToolCall(journal[t])].act, 0, 0)), state[t], plan[t], "exec", WithAct(at[t], journal[t][InterruptedToolCall(journal[t])].act), verdict[t]) PROVE Ordered'
  <2>1. Quiet(Entry("tool", None, journal[t][InterruptedToolCall(journal[t])].act, 0, 0))
    BY AreQuiet
  <2>2. Quietly(journal[t], Append(journal[t], Entry("tool", None, journal[t][InterruptedToolCall(journal[t])].act, 0, 0)))
    BY <2>1 DEF Quietly
  <2>3. "exec" \notin InHand /\ (state[t] = "Planning" => state[t] = "Planning")
    BY DEF InHand
  <2>4. QED
    BY <1>1, <2>2, <2>3, OrderedQuietly
<1>2. QED
  BY ReissueCallIs, <1>1

LEMMA PlanSpoiledOrdered ==
  ASSUME Shaped, Ordered, NEW t \in Tasks, PlanSpoiled(t)
  PROVE  Ordered'
<1>1. ASSUME Becomes(t, Append(journal[t], Plain("note")), state[t], plan[t], "move", Moving("Failed", "off"), verdict[t]) PROVE Ordered'
  <2>1. Quiet(Plain("note"))
    BY AreQuiet
  <2>2. Quietly(journal[t], Append(journal[t], Plain("note")))
    BY <2>1 DEF Quietly
  <2>3. "move" \notin InHand /\ (state[t] = "Planning" => state[t] = "Planning")
    BY DEF InHand
  <2>4. QED
    BY <1>1, <2>2, <2>3, OrderedQuietly
<1>2. QED
  BY PlanSpoiledIs, <1>1

LEMMA StepsDoneOrdered ==
  ASSUME Shaped, Ordered, NEW t \in Tasks, StepsDone(t)
  PROVE  Ordered'
<1>1. ASSUME Becomes(t, journal[t], state[t], plan[t], "move", Moving("Verifying", "off"), verdict[t]) PROVE Ordered'
  <2>2. Quietly(journal[t], journal[t])
    BY DEF Quietly
  <2>3. "move" \notin InHand /\ (state[t] = "Planning" => state[t] = "Planning")
    BY DEF InHand
  <2>4. QED
    BY <1>1, <2>2, <2>3, OrderedQuietly
<1>2. QED
  BY StepsDoneIs, <1>1

LEMMA NoteScopeExpansionOrdered ==
  ASSUME Shaped, Ordered, NEW t \in Tasks, NoteScopeExpansion(t)
  PROVE  Ordered'
<1>1. ASSUME Becomes(t, Append(journal[t], Plain("plan_scope_expansion")), state[t], plan[t], "issue", at[t], verdict[t]) PROVE Ordered'
  <2>1. Quiet(Plain("plan_scope_expansion"))
    BY AreQuiet
  <2>2. Quietly(journal[t], Append(journal[t], Plain("plan_scope_expansion")))
    BY <2>1 DEF Quietly
  <2>3. "issue" \notin InHand /\ (state[t] = "Planning" => state[t] = "Planning")
    BY DEF InHand
  <2>4. QED
    BY <1>1, <2>2, <2>3, OrderedQuietly
<1>2. QED
  BY NoteScopeExpansionIs, <1>1

LEMMA IssueCallOrdered ==
  ASSUME Shaped, Ordered, NEW t \in Tasks, IssueCall(t)
  PROVE  Ordered'
<1>1. ASSUME Becomes(t, Append(journal[t], Entry("tool", None, at[t].act, 0, 0)), state[t], plan[t], "exec", at[t], verdict[t]) PROVE Ordered'
  <2>1. Quiet(Entry("tool", None, at[t].act, 0, 0))
    BY AreQuiet
  <2>2. Quietly(journal[t], Append(journal[t], Entry("tool", None, at[t].act, 0, 0)))
    BY <2>1 DEF Quietly
  <2>3. "exec" \notin InHand /\ (state[t] = "Planning" => state[t] = "Planning")
    BY DEF InHand
  <2>4. QED
    BY <1>1, <2>2, <2>3, OrderedQuietly
<1>2. QED
  BY IssueCallIs, <1>1

LEMMA AskUserOrdered ==
  ASSUME Shaped, Ordered, NEW t \in Tasks, AskUser(t)
  PROVE  Ordered'
<1>1. ASSUME Becomes(t, journal[t], state[t], plan[t], "move", Moving("WaitingForUser", "off"), verdict[t]) PROVE Ordered'
  <2>2. Quietly(journal[t], journal[t])
    BY DEF Quietly
  <2>3. "move" \notin InHand /\ (state[t] = "Planning" => state[t] = "Planning")
    BY DEF InHand
  <2>4. QED
    BY <1>1, <2>2, <2>3, OrderedQuietly
<1>2. QED
  BY AskUserIs, <1>1

LEMMA ToolEndsOrdered ==
  ASSUME Shaped, Ordered, NEW t \in Tasks, ToolEnds(t)
  PROVE  Ordered'
<1>1. ASSUME Becomes(t, Append(journal[t], Outcome("tool_result", LastToolCall(journal[t]))), state[t], plan[t], "top", Idle, verdict[t]) PROVE Ordered'
  <2>1. Quiet(Outcome("tool_result", LastToolCall(journal[t])))
    BY AreQuiet
  <2>2. Quietly(journal[t], Append(journal[t], Outcome("tool_result", LastToolCall(journal[t]))))
    BY <2>1 DEF Quietly
  <2>3. "top" \notin InHand /\ (state[t] = "Planning" => state[t] = "Planning")
    BY DEF InHand
  <2>4. QED
    BY <1>1, <2>2, <2>3, OrderedQuietly
<1>2. ASSUME Becomes(t, Append(journal[t], Outcome("permission_ask", LastToolCall(journal[t]))), state[t], plan[t], "move", Moving("WaitingForPermission", "off"), verdict[t]) PROVE Ordered'
  <2>1. Quiet(Outcome("permission_ask", LastToolCall(journal[t])))
    BY AreQuiet
  <2>2. Quietly(journal[t], Append(journal[t], Outcome("permission_ask", LastToolCall(journal[t]))))
    BY <2>1 DEF Quietly
  <2>3. "move" \notin InHand /\ (state[t] = "Planning" => state[t] = "Planning")
    BY DEF InHand
  <2>4. QED
    BY <1>2, <2>2, <2>3, OrderedQuietly
<1>3. ASSUME Becomes(t, Append(journal[t], Outcome("tool_denied", LastToolCall(journal[t]))), state[t], plan[t], "move", Moving("Failed", "off"), verdict[t]) PROVE Ordered'
  <2>1. Quiet(Outcome("tool_denied", LastToolCall(journal[t])))
    BY AreQuiet
  <2>2. Quietly(journal[t], Append(journal[t], Outcome("tool_denied", LastToolCall(journal[t]))))
    BY <2>1 DEF Quietly
  <2>3. "move" \notin InHand /\ (state[t] = "Planning" => state[t] = "Planning")
    BY DEF InHand
  <2>4. QED
    BY <1>3, <2>2, <2>3, OrderedQuietly
<1>4. QED
  BY ToolEndsIs, <1>1, <1>2, <1>3

LEMMA RequestTurnOrdered ==
  ASSUME Shaped, Ordered, NEW t \in Tasks, RequestTurn(t)
  PROVE  Ordered'
<1>1. ASSUME Becomes(t, Append(journal[t], Entry("turn_call", None, Nothing, CountModelCalls(journal[t]), 0)), state[t], plan[t], "turn", at[t], verdict[t]) PROVE Ordered'
  <2>1. Quiet(Entry("turn_call", None, Nothing, CountModelCalls(journal[t]), 0))
    BY AreQuiet
  <2>2. Quietly(journal[t], Append(journal[t], Entry("turn_call", None, Nothing, CountModelCalls(journal[t]), 0)))
    BY <2>1 DEF Quietly
  <2>3. "turn" \notin InHand /\ (state[t] = "Planning" => state[t] = "Planning")
    BY DEF InHand
  <2>4. QED
    BY <1>1, <2>2, <2>3, OrderedQuietly
<1>2. QED
  BY RequestTurnIs, <1>1

LEMMA TurnAnsweredOrdered ==
  ASSUME Shaped, Ordered, NEW t \in Tasks, TurnAnswered(t)
  PROVE  Ordered'
<1>1. ASSUME NEW a,
             Becomes(t, Append(journal[t], Entry("turn_completion", None, a, CallTurn(t), 0)), state[t], plan[t], "choose", WithAct(at[t], a), verdict[t]) PROVE Ordered'
  <2>1. Quiet(Entry("turn_completion", None, a, CallTurn(t), 0))
    BY AreQuiet
  <2>2. Quietly(journal[t], Append(journal[t], Entry("turn_completion", None, a, CallTurn(t), 0)))
    BY <2>1 DEF Quietly
  <2>3. "choose" \notin InHand /\ (state[t] = "Planning" => state[t] = "Planning")
    BY DEF InHand
  <2>4. QED
    BY <1>1, <2>2, <2>3, OrderedQuietly
<1>2. QED
  BY TurnAnsweredIs, <1>1

LEMMA FinishTurnsOrdered ==
  ASSUME Shaped, Ordered, NEW t \in Tasks, FinishTurns(t)
  PROVE  Ordered'
<1>1. ASSUME Becomes(t, journal[t], state[t], plan[t], "move", Moving("Verifying", "off"), verdict[t]) PROVE Ordered'
  <2>2. Quietly(journal[t], journal[t])
    BY DEF Quietly
  <2>3. "move" \notin InHand /\ (state[t] = "Planning" => state[t] = "Planning")
    BY DEF InHand
  <2>4. QED
    BY <1>1, <2>2, <2>3, OrderedQuietly
<1>2. QED
  BY FinishTurnsIs, <1>1

LEMMA FaultOrdered ==
  ASSUME Shaped, Ordered, NEW t \in Tasks, Fault(t)
  PROVE  Ordered'
<1>1. ASSUME Becomes(t, journal[t], state[t], plan[t], "off", Idle, "err") PROVE Ordered'
  <2>2. Quietly(journal[t], journal[t])
    BY DEF Quietly
  <2>3. "off" \notin InHand /\ (state[t] = "Planning" => state[t] = "Planning")
    BY DEF InHand
  <2>4. QED
    BY <1>1, <2>2, <2>3, OrderedQuietly
<1>2. ASSUME Becomes(t, Append(journal[t], Plain("note")), state[t], plan[t], "move", Moving("Failed", "off"), verdict[t]) PROVE Ordered'
  <2>1. Quiet(Plain("note"))
    BY AreQuiet
  <2>2. Quietly(journal[t], Append(journal[t], Plain("note")))
    BY <2>1 DEF Quietly
  <2>3. "move" \notin InHand /\ (state[t] = "Planning" => state[t] = "Planning")
    BY DEF InHand
  <2>4. QED
    BY <1>2, <2>2, <2>3, OrderedQuietly
<1>3. QED
  BY FaultIs, <1>1, <1>2

LEMMA FoldFailureOrdered ==
  ASSUME Shaped, Ordered, NEW t \in Tasks, FoldFailure(t)
  PROVE  Ordered'
<1>1. ASSUME Becomes(t, Append(journal[t], Plain("note")), state[t], plan[t], "move", Moving("Failed", "off"), verdict[t]) PROVE Ordered'
  <2>1. Quiet(Plain("note"))
    BY AreQuiet
  <2>2. Quietly(journal[t], Append(journal[t], Plain("note")))
    BY <2>1 DEF Quietly
  <2>3. "move" \notin InHand /\ (state[t] = "Planning" => state[t] = "Planning")
    BY DEF InHand
  <2>4. QED
    BY <1>1, <2>2, <2>3, OrderedQuietly
<1>2. QED
  BY FoldFailureIs, <1>1

LEMMA ApproveOrdered ==
  ASSUME Shaped, Ordered, NEW t \in Tasks, Approve(t)
  PROVE  Ordered'
<1>1. ASSUME Becomes(t, Append(journal[t], Outcome("tool_result", PendingToolCall(journal[t]))), state[t], plan[t], "move", Moving("Implementing", "top"), verdict[t]) PROVE Ordered'
  <2>1. Quiet(Outcome("tool_result", PendingToolCall(journal[t])))
    BY AreQuiet
  <2>2. Quietly(journal[t], Append(journal[t], Outcome("tool_result", PendingToolCall(journal[t]))))
    BY <2>1 DEF Quietly
  <2>3. "move" \notin InHand /\ (state[t] = "Planning" => state[t] = "Planning")
    BY DEF InHand
  <2>4. QED
    BY <1>1, <2>2, <2>3, OrderedQuietly
<1>2. QED
  BY ApproveIs, <1>1

LEMMA DenyOrdered ==
  ASSUME Shaped, Ordered, NEW t \in Tasks, Deny(t)
  PROVE  Ordered'
<1>1. ASSUME Becomes(t, Append(journal[t], Outcome("tool_denied", PendingToolCall(journal[t]))), state[t], plan[t], "move", Moving("Failed", "off"), verdict[t]) PROVE Ordered'
  <2>1. Quiet(Outcome("tool_denied", PendingToolCall(journal[t])))
    BY AreQuiet
  <2>2. Quietly(journal[t], Append(journal[t], Outcome("tool_denied", PendingToolCall(journal[t]))))
    BY <2>1 DEF Quietly
  <2>3. "move" \notin InHand /\ (state[t] = "Planning" => state[t] = "Planning")
    BY DEF InHand
  <2>4. QED
    BY <1>1, <2>2, <2>3, OrderedQuietly
<1>2. QED
  BY DenyIs, <1>1

LEMMA RespondOrdered ==
  ASSUME Shaped, Ordered, NEW t \in Tasks, Respond(t)
  PROVE  Ordered'
<1>1. ASSUME Becomes(t, Append(journal[t], Plain("user_response")), state[t], plan[t], "move", Moving("Implementing", "top"), verdict[t]) PROVE Ordered'
  <2>1. Quiet(Plain("user_response"))
    BY AreQuiet
  <2>2. Quietly(journal[t], Append(journal[t], Plain("user_response")))
    BY <2>1 DEF Quietly
  <2>3. "move" \notin InHand /\ (state[t] = "Planning" => state[t] = "Planning")
    BY DEF InHand
  <2>4. QED
    BY <1>1, <2>2, <2>3, OrderedQuietly
<1>2. QED
  BY RespondIs, <1>1

\* The other handlers do the work of a step, or take steps in hand.
LEMMA StepInHand ==
  ASSUME Shaped, Ordered, NEW t \in Tasks, t = Root, pc[t] \in {"begin", "call", "act"}
  PROVE  /\ InOrderOf(journal[t], plan[t]) /\ Doable(journal[t], plan[t], at[t].step)
         /\ state[t] = "Implementing" /\ journal[t] \in Seq(Entries)
BY TaskTyped DEF Ordered, OrderedOf, ShapeOf, WorkingAt

LEMMA WaveInHand ==
  ASSUME Shaped, Ordered, NEW t \in Tasks, pc[t] \in {"wave", "fold"}
  PROVE  /\ t = Root
         /\ InOrderOf(journal[t], plan[t]) /\ state[t] = "Implementing"
         /\ journal[t] \in Seq(Entries)
         /\ at[t].todo \in Seq(Seq(StepIds(plan[t]))) /\ at[t].kids \in Seq(Children)
         /\ Apart(at[t].todo)
         /\ \A k \in DOMAIN at[t].todo : \A x \in ToSet(at[t].todo[k]) :
              Doable(journal[t], plan[t], x)
<1>1. t = Root /\ state[t] = "Implementing" /\ at[t].todo \in Seq(Seq(StepIds(plan[t])))
  BY TaskTyped DEF ShapeOf, WorkingAt
<1>2. journal[t] \in Seq(Entries) /\ at[t].kids \in Seq(Children)
  BY TaskTyped, LocalFields
<1>3. QED
  BY <1>1, <1>2 DEF Ordered, OrderedOf

\* Work on the step in hand; afterwards it may still be in hand, unless that
\* was its completion.
LEMMA WorkDone ==
  ASSUME NEW j \in Seq(Entries), NEW e, NEW p, NEW s, InOrderOf(j, p), Doable(j, p, s), e.step = s
  PROVE  /\ InOrderOf(Append(j, e), p)
         /\ e.kind # "plan_step_completed" => Doable(Append(j, e), p, s)
BY OrderAppended, StillDoable

LEMMA StepWorkOrdered ==
  ASSUME Shaped, Ordered, NEW t \in Tasks, pc[t] \in {"begin", "call", "act"},
         NEW e, e.step = at[t].step, NEW c, NEW l, NEW v,
         Becomes(t, Append(journal[t], e), state[t], plan[t], c, l, v),
         \/ c \notin InHand
         \/ c \in {"begin", "call", "act"} /\ l.step = at[t].step /\ e.kind # "plan_step_completed"
  PROVE  Ordered'
<1>1. ASSUME t = Root PROVE OrderedOf(Append(journal[t], e), state[t], plan[t], c, l)
  <2>1. /\ InOrderOf(journal[t], plan[t]) /\ Doable(journal[t], plan[t], at[t].step)
        /\ state[t] = "Implementing" /\ journal[t] \in Seq(Entries)
    BY <1>1, StepInHand
  <2>2. /\ InOrderOf(Append(journal[t], e), plan[t])
        /\ e.kind # "plan_step_completed" => Doable(Append(journal[t], e), plan[t], at[t].step)
    BY <2>1, WorkDone
  <2>3. QED
    BY <2>1, <2>2 DEF OrderedOf, InHand
<1>2. QED
  BY <1>1, OrderedBecomes

LEMMA TakeCheckpointOrdered ==
  ASSUME Shaped, Ordered, NEW t \in Tasks, TakeCheckpoint(t)
  PROVE  Ordered'
<1> DEFINE e == About("plan_checkpoint", at[t].step)
<1>1. e.step = at[t].step /\ e.kind # "plan_step_completed" /\ pc[t] \in {"begin", "call", "act"}
  BY AreQuiet DEF TakeCheckpoint
<1>2. Becomes(t, Append(journal[t], e), state[t], plan[t], pc[t], at[t], verdict[t])
  BY TakeCheckpointIs
<1> HIDE DEF e
<1>3. QED
  BY <1>1, <1>2, StepWorkOrdered

LEMMA StartStepOrdered ==
  ASSUME Shaped, Ordered, NEW t \in Tasks, StartStep(t)
  PROVE  Ordered'
<1> DEFINE e == About("plan_step_started", at[t].step)
<1>1. e.step = at[t].step /\ e.kind # "plan_step_completed" /\ pc[t] \in {"begin", "call", "act"}
  BY AreQuiet DEF StartStep
<1>2. Becomes(t, Append(journal[t], e), state[t], plan[t], pc[t], at[t], verdict[t])
  BY StartStepIs
<1> HIDE DEF e
<1>3. QED
  BY <1>1, <1>2, StepWorkOrdered

LEMMA ForceCompleteOrdered ==
  ASSUME Shaped, Ordered, NEW t \in Tasks, ForceComplete(t)
  PROVE  Ordered'
<1> DEFINE e == About("plan_step_completed", at[t].step)
<1>1. e.step = at[t].step /\ pc[t] \in {"begin", "call", "act"} /\ "top" \notin InHand
  BY AreQuiet DEF ForceComplete, Begun, InHand
<1>2. Becomes(t, Append(journal[t], e), state[t], plan[t], "top", Idle, verdict[t])
  BY ForceCompleteIs
<1> HIDE DEF e
<1>3. QED
  BY <1>1, <1>2, StepWorkOrdered

LEMMA FinishStepOrdered ==
  ASSUME Shaped, Ordered, NEW t \in Tasks, FinishStep(t)
  PROVE  Ordered'
<1> DEFINE e == About("plan_step_completed", at[t].step)
<1>1. e.step = at[t].step /\ pc[t] \in {"begin", "call", "act"} /\ "top" \notin InHand
  BY AreQuiet DEF FinishStep, InHand
<1>2. Becomes(t, Append(journal[t], e), state[t], plan[t], "top", Idle, verdict[t])
  BY FinishStepIs
<1> HIDE DEF e
<1>3. QED
  BY <1>1, <1>2, StepWorkOrdered

LEMMA RequestActionOrdered ==
  ASSUME Shaped, Ordered, NEW t \in Tasks, RequestAction(t)
  PROVE  Ordered'
<1> DEFINE e == Entry("model_call", at[t].step, Nothing, CountModelCalls(journal[t]), 0)
<1>1. e.step = at[t].step /\ e.kind # "plan_step_completed" /\ pc[t] \in {"begin", "call", "act"}
  BY AreQuiet DEF RequestAction, Begun
<1>2. Becomes(t, Append(journal[t], e), state[t], plan[t], "call", at[t], verdict[t])
  BY RequestActionIs
<1> HIDE DEF e
<1>3. QED
  BY <1>1, <1>2, StepWorkOrdered

LEMMA StepAnsweredOrdered ==
  ASSUME Shaped, Ordered, NEW t \in Tasks, StepAnswered(t)
  PROVE  Ordered'
<1>1. PICK a \in Decisions[at[t].step] :
        Becomes(t, Append(journal[t], Entry("step_completion", at[t].step, a, CallTurn(t), 0)),
                state[t], plan[t], "act", WithAct(at[t], a), verdict[t])
  BY StepAnsweredIs
<1> DEFINE e == Entry("step_completion", at[t].step, a, CallTurn(t), 0)
           l == WithAct(at[t], a)
<1>2. e.step = at[t].step /\ e.kind # "plan_step_completed" /\ pc[t] \in {"begin", "call", "act"}
  BY AreQuiet DEF StepAnswered
<1>3. l.step = at[t].step
  BY TaskTyped DEF WithAct, Locals
<1> HIDE DEF e, l
<1>4. Becomes(t, Append(journal[t], e), state[t], plan[t], "act", l, verdict[t])
  BY <1>1 DEF e, l
<1>5. QED
  BY <1>2, <1>3, <1>4, StepWorkOrdered

LEMMA ReplayActionOrdered ==
  ASSUME Shaped, Ordered, NEW t \in Tasks, ReplayAction(t)
  PROVE  Ordered'
<1> DEFINE l == WithAct(at[t], journal[t][UnprocessedStepAction(journal[t], at[t].step)].act)
<1>1. Becomes(t, journal[t], state[t], plan[t], "act", l, verdict[t])
  BY ReplayActionIs
<1>2. l.step = at[t].step
  BY TaskTyped DEF WithAct, Locals
<1> HIDE DEF l
<1>3. ASSUME t = Root PROVE OrderedOf(journal[t], state[t], plan[t], "act", l)
  <2>1. /\ InOrderOf(journal[t], plan[t]) /\ Doable(journal[t], plan[t], at[t].step)
        /\ state[t] = "Implementing"
    BY <1>3, StepInHand DEF ReplayAction, Begun
  <2>2. QED
    BY <1>2, <2>1 DEF OrderedOf
<1>4. QED
  BY <1>1, <1>3, OrderedBecomes

LEMMA BeginStepOrdered ==
  ASSUME Shaped, Ordered, NEW t \in Tasks, BeginStep(t)
  PROVE  Ordered'
<1> DEFINE l == WithStep(at[t], NextStep(t))
<1>1. Becomes(t, journal[t], state[t], plan[t], "begin", l, verdict[t])
  BY BeginStepIs
<1>2. l.step = NextStep(t)
  BY TaskTyped DEF WithStep, Locals
<1> HIDE DEF l
<1>3. ASSUME t = Root PROVE OrderedOf(journal[t], state[t], plan[t], "begin", l)
  <2>1. Doable(journal[t], plan[t], NextStep(t))
    BY NextStepReady DEF BeginStep, Doable
  <2>2. InOrderOf(journal[t], plan[t]) /\ state[t] = "Implementing"
    BY <1>3 DEF Ordered, OrderedOf, BeginStep, Undisturbed, MayWork, AtStep
  <2>3. QED
    BY <1>2, <2>1, <2>2 DEF OrderedOf
<1>4. QED
  BY <1>1, <1>3, OrderedBecomes

LEMMA BeginWaveOrdered ==
  ASSUME Shaped, Ordered, NEW t \in Tasks, BeginWave(t)
  PROVE  Ordered'
<1> DEFINE w == WaveChunks(RestOfGroup(t), plan[t], MaxParallel)
           l == WithTodo(at[t], w)
<1>1. Becomes(t, journal[t], state[t], plan[t], "wave", l, verdict[t])
  BY BeginWaveIs
<1>2. l.todo = w
  BY TaskTyped DEF WithTodo, Locals
<1>3. Apart(w) /\ \A k \in DOMAIN w : ToSet(w[k]) \subseteq ToSet(RestOfGroup(t))
  BY TodoIs DEF BeginWave
<1> HIDE DEF l, w
<1>4. ASSUME t = Root PROVE OrderedOf(journal[t], state[t], plan[t], "wave", l)
  <2>1. \A x \in ToSet(RestOfGroup(t)) : Doable(journal[t], plan[t], x)
    BY NextStepReady DEF BeginWave, Doable
  <2>2. InOrderOf(journal[t], plan[t]) /\ state[t] = "Implementing"
    BY <1>4 DEF Ordered, OrderedOf, BeginWave, Undisturbed, MayWork, AtStep
  <2>3. QED
    BY <1>2, <1>3, <2>1, <2>2 DEF OrderedOf
<1>5. QED
  BY <1>1, <1>4, OrderedBecomes

LEMMA JoinChunkOrdered ==
  ASSUME Shaped, Ordered, NEW t \in Tasks, JoinChunk(t)
  PROVE  Ordered'
<1>1. Becomes(t, journal[t], state[t], plan[t], "fold", at[t], verdict[t])
  BY JoinChunkIs
<1>2. ASSUME t = Root PROVE OrderedOf(journal[t], state[t], plan[t], "fold", at[t])
  BY <1>2 DEF Ordered, OrderedOf, JoinChunk
<1>3. QED
  BY <1>1, <1>2, OrderedBecomes

\* The step folded next, and the rest of what the wave has in hand.
LEMMA FoldInHand ==
  ASSUME Shaped, Ordered, NEW t \in Tasks, Folding(t)
  PROVE  /\ t = Root /\ Doable(journal[t], plan[t], Folded(t))
         /\ 1 \in DOMAIN at[t].todo /\ 1 \in DOMAIN at[t].todo[1] /\ Folded(t) = at[t].todo[1][1]
<1>1. /\ at[t].todo \in Seq(Seq(Names)) /\ at[t].todo # <<>>
      /\ Head(at[t].todo) \in Seq(Names) /\ Head(at[t].todo) # <<>>
  BY FoldedIs
<1>2. 1 \in DOMAIN at[t].todo /\ Head(at[t].todo) = at[t].todo[1]
  BY <1>1
<1>3. 1 \in DOMAIN at[t].todo[1] /\ Folded(t) = at[t].todo[1][1]
  BY <1>1, <1>2 DEF Folded
<1>4. Folded(t) \in ToSet(at[t].todo[1])
  BY <1>3 DEF ToSet
<1>5. QED
  BY <1>2, <1>3, <1>4, WaveInHand DEF Folding

LEMMA FoldCheckpointOrdered ==
  ASSUME Shaped, Ordered, NEW t \in Tasks, FoldCheckpoint(t)
  PROVE  Ordered'
<1>1. pc[t] = "fold" /\ t = Root /\ Doable(journal[t], plan[t], Folded(t))
  BY FoldInHand DEF FoldCheckpoint, Folding
<1>2. ASSUME NEW e, e.step = Folded(t), e.kind # "plan_step_completed",
             Becomes(t, Append(journal[t], e), state[t], plan[t], pc[t], at[t], verdict[t])
      PROVE  Ordered'
  <2>1. /\ InOrderOf(journal[t], plan[t]) /\ state[t] = "Implementing"
        /\ journal[t] \in Seq(Entries) /\ Apart(at[t].todo)
        /\ \A k \in DOMAIN at[t].todo : \A x \in ToSet(at[t].todo[k]) :
              Doable(journal[t], plan[t], x)
    BY <1>1, WaveInHand
  <2>2. InOrderOf(Append(journal[t], e), plan[t])
    BY <1>1, <1>2, <2>1, WorkDone
  <2>3. \A k \in DOMAIN at[t].todo : \A x \in ToSet(at[t].todo[k]) :
          Doable(Append(journal[t], e), plan[t], x)
    BY <1>2, <2>1, StillDoable
  <2>4. OrderedOf(Append(journal[t], e), state[t], plan[t], pc[t], at[t])
    BY <1>1, <2>1, <2>2, <2>3 DEF OrderedOf
  <2>5. QED
    BY <1>2, <2>4, OrderedBecomes
<1>3. /\ About("plan_checkpoint", Folded(t)).step = Folded(t)
      /\ About("plan_checkpoint", Folded(t)).kind # "plan_step_completed"
      /\ About("plan_step_started", Folded(t)).step = Folded(t)
      /\ About("plan_step_started", Folded(t)).kind # "plan_step_completed"
  BY AreQuiet
<1>4. QED
  BY FoldCheckpointIs, <1>2, <1>3

\* What is left of a wave when its first step, or its first chunk, is done.
LEMMA RestApart ==
  ASSUME NEW X, NEW w \in Seq(Seq(X)), w # <<>>, Head(w) # <<>>, Apart(w)
  PROVE  LET r == <<Tail(Head(w))>> \o Tail(w) IN
         /\ Apart(r) /\ DOMAIN r = DOMAIN w
         /\ \A k \in DOMAIN r : \A x \in ToSet(r[k]) : x \in ToSet(w[k]) /\ x # w[1][1]
<1> DEFINE r == <<Tail(Head(w))>> \o Tail(w)
           from(k, i) == IF k = 1 THEN i + 1 ELSE i
<1>1. /\ DOMAIN w = 1 .. Len(w) /\ Len(w) \in Nat \ {0} /\ Head(w) = w[1]
      /\ \A k \in DOMAIN w : w[k] \in Seq(X)
      /\ Tail(w) \in Seq(Seq(X)) /\ Len(Tail(w)) = Len(w) - 1
      /\ \A k \in 1 .. Len(w) - 1 : Tail(w)[k] = w[k + 1]
  OBVIOUS
<1>2. /\ w[1] \in Seq(X) /\ w[1] # <<>> /\ 1 \in DOMAIN w
  BY <1>1
<1>3. /\ Tail(w[1]) \in Seq(X) /\ Len(Tail(w[1])) = Len(w[1]) - 1 /\ Len(w[1]) \in Nat \ {0}
      /\ \A i \in 1 .. Len(w[1]) - 1 : Tail(w[1])[i] = w[1][i + 1]
      /\ DOMAIN w[1] = 1 .. Len(w[1])
  BY <1>2
<1>4. DOMAIN r = DOMAIN w /\ r[1] = Tail(w[1]) /\ \A k \in DOMAIN w : k # 1 => r[k] = w[k]
  <2>1. <<Tail(w[1])>> \in Seq(Seq(X)) /\ Len(<<Tail(w[1])>>) = 1
    BY <1>3
  <2>2. r = <<Tail(w[1])>> \o Tail(w)
    BY <1>1
  <2>3. /\ Len(r) = Len(w) /\ DOMAIN r = 1 .. Len(r)
        /\ r[1] = Tail(w[1])
        /\ \A k \in 2 .. Len(w) : r[k] = Tail(w)[k - 1]
    BY <1>1, <2>1, <2>2
  <2>4. \A k \in 2 .. Len(w) : Tail(w)[k - 1] = w[k]
    BY <1>1
  <2>5. \A k \in DOMAIN w : k # 1 => k \in 2 .. Len(w)
    BY <1>1
  <2>6. QED
    BY <1>1, <2>3, <2>4, <2>5
<1> HIDE DEF r
<1>5. ASSUME NEW k \in DOMAIN r, NEW i \in DOMAIN r[k]
      PROVE  /\ k \in DOMAIN w /\ from(k, i) \in DOMAIN w[k] /\ r[k][i] = w[k][from(k, i)]
             /\ i \in Nat /\ ~(k = 1 /\ from(k, i) = 1)
  <2>1. CASE k = 1
    <3>1. i \in 1 .. Len(w[1]) - 1
      BY <1>3, <1>4, <2>1
    <3>2. QED
      BY <1>2, <1>3, <1>4, <2>1, <3>1
  <2>2. CASE k # 1
    <3>1. r[k] = w[k] /\ w[k] \in Seq(X) /\ k \in DOMAIN w
      BY <1>1, <1>4, <2>2
    <3>2. i \in Nat
      BY <3>1
    <3>3. QED
      BY <2>2, <3>1, <3>2
  <2>3. QED
    BY <2>1, <2>2
<1>6. Apart(r)
  <2> SUFFICES ASSUME NEW a \in DOMAIN r, NEW b \in DOMAIN r,
                      NEW i \in DOMAIN r[a], NEW j \in DOMAIN r[b], r[a][i] = r[b][j]
               PROVE  a = b /\ i = j
    BY DEF Apart
  <2>1. /\ from(a, i) \in DOMAIN w[a] /\ from(b, j) \in DOMAIN w[b]
        /\ w[a][from(a, i)] = w[b][from(b, j)] /\ a \in DOMAIN w /\ b \in DOMAIN w
    BY <1>5
  <2>2. a = b /\ from(a, i) = from(b, j)
    <3> HIDE DEF from
    <3> QED BY <2>1 DEF Apart
  <2>3. i \in Nat /\ j \in Nat
    BY <1>5
  <2>4. QED
    BY <2>2, <2>3
<1>7. ASSUME NEW k \in DOMAIN r, NEW x \in ToSet(r[k]) PROVE x \in ToSet(w[k]) /\ x # w[1][1]
  <2>1. PICK i \in DOMAIN r[k] : x = r[k][i]
    BY DEF ToSet
  <2>2. /\ k \in DOMAIN w /\ from(k, i) \in DOMAIN w[k] /\ x = w[k][from(k, i)]
        /\ ~(k = 1 /\ from(k, i) = 1)
    BY <1>5, <2>1
  <2> HIDE DEF from
  <2>3. x \in ToSet(w[k])
    BY <2>2 DEF ToSet
  <2>4. 1 \in DOMAIN w /\ 1 \in DOMAIN w[1]
    BY <1>2, <1>3
  <2>5. QED
    BY <2>2, <2>3, <2>4 DEF Apart
<1>8. QED
  BY <1>4, <1>6, <1>7 DEF r

LEMMA TailApart ==
  ASSUME NEW X, NEW w \in Seq(Seq(X)), w # <<>>, Apart(w)
  PROVE  /\ Apart(Tail(w))
         /\ \A k \in DOMAIN Tail(w) : k + 1 \in DOMAIN w /\ Tail(w)[k] = w[k + 1]
<1>1. /\ DOMAIN w = 1 .. Len(w) /\ Len(w) \in Nat \ {0}
      /\ Tail(w) \in Seq(Seq(X)) /\ DOMAIN Tail(w) = 1 .. Len(w) - 1
      /\ \A k \in 1 .. Len(w) - 1 : Tail(w)[k] = w[k + 1] /\ k + 1 \in 1 .. Len(w) /\ k \in Nat
  OBVIOUS
<1>2. \A a, b \in DOMAIN Tail(w) : a + 1 = b + 1 => a = b
  BY <1>1
<1>3. ASSUME NEW a \in DOMAIN Tail(w), NEW b \in DOMAIN Tail(w),
             NEW i \in DOMAIN Tail(w)[a], NEW j \in DOMAIN Tail(w)[b],
             Tail(w)[a][i] = Tail(w)[b][j]
      PROVE  a = b /\ i = j
  <2>1. a + 1 \in DOMAIN w /\ b + 1 \in DOMAIN w /\ i \in DOMAIN w[a + 1] /\ j \in DOMAIN w[b + 1]
        /\ w[a + 1][i] = w[b + 1][j]
    BY <1>1, <1>3
  <2>2. a + 1 = b + 1 /\ i = j
    BY <2>1 DEF Apart
  <2>3. QED
    BY <1>2, <2>2
<1>4. QED
  BY <1>1, <1>3 DEF Apart

LEMMA FoldCompleteOrdered ==
  ASSUME Shaped, Ordered, NEW t \in Tasks, FoldComplete(t)
  PROVE  Ordered'
<1> DEFINE e == About("plan_step_completed", Folded(t))
           w == at[t].todo
           l == LessOne(at[t])
           r == <<Tail(Head(w))>> \o Tail(w)
<1>1. Becomes(t, Append(journal[t], e), state[t], plan[t], pc[t], l, verdict[t])
  BY FoldCompleteIs
<1>2. e.step = Folded(t)
  BY AreQuiet
<1>3. pc[t] = "fold" /\ Folding(t)
  BY DEF FoldComplete, Folding
<1>4. /\ Doable(journal[t], plan[t], Folded(t)) /\ Folded(t) = w[1][1]
  BY <1>3, FoldInHand
<1>5. w \in Seq(Seq(Names)) /\ w # <<>> /\ Head(w) # <<>> /\ at[t].kids # <<>>
  BY <1>3, FoldedIs
<1>6. /\ InOrderOf(journal[t], plan[t]) /\ state[t] = "Implementing"
      /\ journal[t] \in Seq(Entries) /\ Apart(w)
      /\ \A k \in DOMAIN w : \A x \in ToSet(w[k]) : Doable(journal[t], plan[t], x)
  BY <1>3, WaveInHand
<1>7. l.todo = r
  BY <1>5, TaskTyped, LessOneIs
<1>8. /\ Apart(r) /\ DOMAIN r = DOMAIN w
      /\ \A k \in DOMAIN r : \A x \in ToSet(r[k]) : x \in ToSet(w[k]) /\ x # w[1][1]
  BY <1>5, <1>6, RestApart
<1> HIDE DEF e, w, l, r
<1>9. InOrderOf(Append(journal[t], e), plan[t])
  BY <1>2, <1>4, <1>6, WorkDone
<1>10. ASSUME NEW k \in DOMAIN r, NEW x \in ToSet(r[k])
       PROVE  Doable(Append(journal[t], e), plan[t], x)
  <2>1. Doable(journal[t], plan[t], x) /\ e.step # x
    BY <1>2, <1>4, <1>6, <1>8
  <2>2. QED
    BY <2>1, <1>6, StillDoable
<1>11. OrderedOf(Append(journal[t], e), state[t], plan[t], pc[t], l)
  BY <1>3, <1>6, <1>7, <1>8, <1>9, <1>10 DEF OrderedOf
<1>12. QED
  BY <1>1, <1>11, OrderedBecomes

LEMMA NextChunkOrdered ==
  ASSUME Shaped, Ordered, NEW t \in Tasks, NextChunk(t)
  PROVE  Ordered'
<1> DEFINE w == at[t].todo
<1>1. pc[t] = "fold"
  BY DEF NextChunk
<1>2. /\ t = Root /\ InOrderOf(journal[t], plan[t]) /\ state[t] = "Implementing"
      /\ w \in Seq(Seq(StepIds(plan[t]))) /\ Apart(w)
      /\ \A k \in DOMAIN w : \A x \in ToSet(w[k]) : Doable(journal[t], plan[t], x)
  BY <1>1, WaveInHand
<1>3. w # <<>>
  BY <1>1, TaskTyped DEF ShapeOf
<1>4. /\ Apart(Tail(w))
      /\ \A k \in DOMAIN Tail(w) : k + 1 \in DOMAIN w /\ Tail(w)[k] = w[k + 1]
  BY <1>2, <1>3, TailApart
<1>5. ASSUME Becomes(t, journal[t], state[t], plan[t], "wave", WithTodo(at[t], Tail(w)), verdict[t])
      PROVE  Ordered'
  <2>1. WithTodo(at[t], Tail(w)).todo = Tail(w)
    BY TaskTyped DEF WithTodo, Locals
  <2> HIDE DEF w
  <2>2. \A k \in DOMAIN Tail(w) : \A x \in ToSet(Tail(w)[k]) : Doable(journal[t], plan[t], x)
    BY <1>2, <1>4
  <2>3. OrderedOf(journal[t], state[t], plan[t], "wave", WithTodo(at[t], Tail(w)))
    BY <1>2, <1>4, <2>1, <2>2 DEF OrderedOf
  <2>4. QED
    BY <1>5, <2>3, OrderedBecomes
<1>6. ASSUME Becomes(t, journal[t], state[t], plan[t], "top", Idle, verdict[t])
      PROVE  Ordered'
  <2>1. OrderedOf(journal[t], state[t], plan[t], "top", Idle)
    BY <1>2 DEF OrderedOf
  <2>2. QED
    BY <1>6, <2>1, OrderedBecomes
<1>7. QED
  BY NextChunkIs, <1>5, <1>6

LEMMA SavePlanOrdered ==
  ASSUME Shaped, Ordered, NEW t \in Tasks, SavePlan(t)
  PROVE  Ordered'
<1>1. Becomes(t, journal[t], state[t], at[t].act.plan, "accept", at[t], verdict[t])
  BY SavePlanIs
<1>2. ASSUME t = Root PROVE OrderedOf(journal[t], state[t], at[t].act.plan, "accept", at[t])
  <2>1. state[t] = "Planning"
    BY TaskTyped DEF SavePlan, ShapeOf, PlanningAt
  <2>2. Unworked(journal[t])
    BY <1>2, <2>1 DEF Ordered, OrderedOf
  <2>3. QED
    BY <2>2 DEF OrderedOf, InOrderOf, Unworked
<1>3. QED
  BY <1>1, <1>2, OrderedBecomes

LEMMA MoveOrdered ==
  ASSUME Shaped, Ordered, NEW t \in Tasks, Move(t)
  PROVE  Ordered'
<1>1. at[t].to # "Planning" /\ at[t].then \in {"off", "top"}
  <2>1. ShapeOf(t, journal[t], state[t], plan[t], pc[t], at[t], verdict[t]) /\ pc[t] = "move"
    BY TaskTyped DEF Move
  <2>2. PICK to \in {"Implementing", "Failed", "Verifying", "WaitingForUser", "WaitingForPermission"},
             then \in {"off", "top"} : at[t] = Moving(to, then)
    BY <2>1 DEF ShapeOf
  <2>3. to \in States
    BY DEF States
  <2>4. QED
    BY <2>2, <2>3, MovingIs
<1>2. ASSUME NEW c \in {"off", "top"}, NEW v,
             Becomes(t, journal[t], at[t].to, plan[t], c, Idle, v)
      PROVE  Ordered'
  <2>1. Quietly(journal[t], journal[t])
    BY DEF Quietly
  <2>2. c \notin InHand /\ (at[t].to = "Planning" => state[t] = "Planning")
    BY <1>1 DEF InHand
  <2>3. QED
    BY <1>2, <2>1, <2>2, OrderedQuietly
<1>3. QED
  BY <1>1, <1>2, MoveIs

LEMMA SpawnChildOrdered ==
  ASSUME Shaped, Ordered, NEW t \in Tasks, SpawnChild(t)
  PROVE  Ordered'
<1> DEFINE s == SpawnedFor
           e == About("subtask_started", s)
           w == at[Root].todo
<1>1. /\ t = Root /\ pc[Root] = "wave" /\ w # <<>>
      /\ Len(at[Root].kids) + 1 \in DOMAIN Head(w)
      /\ \E c \in Children : state[c] = "None" /\ Spawns(c, s)
  BY SpawnChildIs
<1>2. PICK c \in Children : Spawns(c, s)
  BY <1>1
<1>3. /\ InOrderOf(journal[Root], plan[Root]) /\ state[Root] = "Implementing"
      /\ journal[Root] \in Seq(Entries) /\ Apart(w) /\ w \in Seq(Seq(StepIds(plan[Root])))
      /\ \A k \in DOMAIN w : \A x \in ToSet(w[k]) : Doable(journal[Root], plan[Root], x)
  BY <1>1, WaveInHand
<1>4. Doable(journal[Root], plan[Root], s)
  <2>1. 1 \in DOMAIN w /\ Head(w) = w[1]
    BY <1>1, <1>3
  <2>2. s = w[1][Len(at[Root].kids) + 1]
    BY <2>1 DEF SpawnedFor
  <2>3. s \in ToSet(w[1])
    BY <1>1, <2>1, <2>2 DEF ToSet
  <2>4. QED
    BY <1>3, <2>1, <2>3
<1>5. e.step = s /\ e.kind # "plan_step_completed"
  BY AreQuiet
<1>6. WithKids(at[Root], Append(at[Root].kids, c)).todo = w
  BY TaskTyped, TasksAre DEF WithKids, Locals
<1> HIDE DEF s, e, w
<1>7. InOrderOf(Append(journal[Root], e), plan[Root])
  BY <1>3, <1>4, <1>5, WorkDone
<1>8. \A k \in DOMAIN w : \A x \in ToSet(w[k]) : Doable(Append(journal[Root], e), plan[Root], x)
  BY <1>3, <1>5, StillDoable
<1>9. OrderedOf(Append(journal[Root], e), state[Root], plan[Root], pc[Root],
                WithKids(at[Root], Append(at[Root].kids, c)))
  BY <1>1, <1>3, <1>6, <1>7, <1>8 DEF OrderedOf
<1>10. QED
  BY <1>2, <1>9, SpawnedAt DEF Ordered, e

LEMMA ResumeOrdered ==
  ASSUME Shaped, Ordered, Resume
  PROVE  Ordered'
<1>1. Root \in Tasks /\ Quiet(Plain("note")) /\ "top" \notin InHand
  BY TasksAre, AreQuiet DEF InHand
<1>2. Becomes(Root, Append(journal[Root], Plain("note")), state[Root], plan[Root], "top",
              at[Root], verdict[Root])
  BY ResumeIs
<1>3. Quietly(journal[Root], Append(journal[Root], Plain("note")))
  BY <1>1 DEF Quietly
<1>4. QED
  BY <1>1, <1>2, <1>3, OrderedQuietly

LEMMA KillOrdered ==
  ASSUME Shaped, Ordered, Kill
  PROVE  Ordered'
<1>1. /\ journal'[Root] = journal[Root] /\ state'[Root] = state[Root] /\ plan'[Root] = plan[Root]
      /\ pc'[Root] = "off" /\ at'[Root] = Idle
  BY TasksAre DEF Kill
<1>2. OrderedOf(journal[Root], state[Root], plan[Root], "off", Idle)
  BY DEF Ordered, OrderedOf
<1>3. QED
  BY <1>1, <1>2 DEF Ordered

LEMMA InitOrdered ==
  ASSUME Init
  PROVE  Ordered
<1>1. OrderedOf(<<>>, "Planning", NoPlan, "top", Idle)
  BY DEF OrderedOf, InOrderOf, Unworked, Places
<1>2. QED
  BY <1>1, TasksAre DEF Init, Ordered

\* The strengthening of WorkInOrder that every step keeps.
THEOREM OrderIsKept == Spec => []Ordered
<1>1. Init => Ordered
  BY InitOrdered
<1>2. Shaped /\ Ordered /\ [Next]_vars => Ordered'
  <2> SUFFICES ASSUME Shaped, Ordered, [Next]_vars PROVE Ordered'
    OBVIOUS
  <2>1. ASSUME NEW t \in Tasks, Driver(t) PROVE Ordered'
    <3>1. CASE Planning(t)
      BY <3>1, PassPlanningOrdered, EnterPlanningOrdered, LeavePlanningOrdered, ProposeOrdered,
         PlanAnsweredOrdered, SavePlanOrdered, AcceptPlanOrdered, RejectPlanOrdered DEF Planning
    <3>2. CASE Working(t)
      BY <3>2, WaveChildDoneOrdered, ReissueCallOrdered, PlanSpoiledOrdered, StepsDoneOrdered,
         BeginStepOrdered, BeginWaveOrdered, TakeCheckpointOrdered, StartStepOrdered,
         ForceCompleteOrdered, ReplayActionOrdered, RequestActionOrdered, StepAnsweredOrdered,
         NoteScopeExpansionOrdered, IssueCallOrdered, FinishStepOrdered, AskUserOrdered,
         ToolEndsOrdered DEF Working
    <3>3. CASE Conversing(t)
      BY <3>3, RequestTurnOrdered, TurnAnsweredOrdered, FinishTurnsOrdered DEF Conversing
    <3>4. CASE Waving(t)
      BY <3>4, SpawnChildOrdered, JoinChunkOrdered, FoldFailureOrdered, FoldCheckpointOrdered,
         FoldCompleteOrdered, NextChunkOrdered DEF Waving
    <3>5. QED
      BY <2>1, <3>1, <3>2, <3>3, <3>4, MoveOrdered, FaultOrdered DEF Driver
  <2>2. CASE User
    BY <2>2, ApproveOrdered, DenyOrdered, RespondOrdered, ResumeOrdered DEF User
  <2>3. CASE Kill
    BY <2>3, KillOrdered
  <2>4. CASE UNCHANGED vars
    BY <2>4 DEF vars, Ordered
  <2>5. QED
    BY <2>1, <2>2, <2>3, <2>4 DEF Next
<1>3. Spec => []Shaped
  BY RecordsAreWellFormed
<1>4. QED
  BY <1>1, <1>2, <1>3, PTL DEF Spec

\* Nothing is done for a step of a plan, by the task or by a child of one of
\* its waves, before every step it depends on is complete or once it is
\* complete itself: with any plans, any parallelism and any kills between the
\* entries of a wave that is being folded.
THEOREM WorkIsDoneInOrder == Spec => []WorkInOrder
<1>1. Ordered => WorkInOrder
  BY OrderedShows
<1>2. Spec => []Ordered
  BY OrderIsKept
<1>3. QED
  BY <1>1, <1>2, PTL

-----------------------------------------------------------------------------
(* The budgets survive kills.                                              *)

\* The calls for a step, None for the calls that asked for a plan.
Asked(j, s) == PlacesFor(j, {"model_call"}, s)

AtRest == {"off", "top", "propose"}

\* The task has failed, or is about to.
Over(s, c, l) == s = "Failed" \/ (c = "move" /\ l.to = "Failed")

\* A call for a plan is paid for by the rejection it leads to or by the kill
\* that cut it off; one call may be on its way.
PlanningBudget(j, s, c, l, n) ==
  /\ PlanRejectionCount(j) <= MaxRepairs
  /\ c \in PlanningAt => l.tries = PlanRejectionCount(j) /\ l.tries < MaxRepairs
  /\ Cardinality(Asked(j, None)) <= MaxRepairs + n
  /\ Cardinality(Asked(j, None)) <= PlanRejectionCount(j) + n + 1
  /\ s = "Planning" /\ c \in AtRest => Cardinality(Asked(j, None)) <= PlanRejectionCount(j) + n

\* One task's calls for steps: a child's are for its own step, all come after
\* the start of their step, and there are no more of them than turns.
CallsOf(t, j, p) ==
  \A i \in Places(j, {"model_call"}) :
    j[i].step # None =>
      /\ t # Root => j[i].step \in StepIds(p)
      /\ \E k \in PlacesFor(j, {"plan_step_started"}, j[i].step) : k < i
      /\ Cardinality(Asked(j, j[i].step)) <= MaxTurns

\* Who worked, works or may work on x: the children created for it, and the
\* task itself if it asked the model for x.
WorkersOf(j, ps, x) ==
  {t \in Tasks : IF t = Root THEN Asked(j, x) # {} ELSE x \in StepIds(ps[t])}

\* x is the next step and its group has nothing else to do.
Alone(p, done, x) ==
  /\ NextIncomplete(OrderOf[p], done) = x
  /\ Len(Keep(GroupOf[p][x], StepIds(p) \ done)) = 1

\* The wave in hand has created a child for x.
Begotten(c, l, x) ==
  c \in {"wave", "fold"} /\ \E i \in 1 .. Len(l.kids) : l.todo[1][i] = x

\* A step has one worker, and one more for every kill; it has had less while
\* it waits for the next worker.
WorkBudget(j, s, ps, c, l, n) ==
  LET p    == ps[Root]
      done == CompletedPlanSteps(j)
  IN  /\ s = "Planning" => \A k \in Children : ps[k] = NoPlan
      /\ c \in {"begin", "call", "act"} => Alone(p, done, l.step)
      /\ c \in {"wave", "fold"} => \A x \in StepIds(p) \ done : Asked(j, x) = {}
      /\ \A x \in StepIds(p) \ done : Asked(j, x) # {} => Alone(p, done, x)
      /\ \A x \in StepIds(p) : Cardinality(WorkersOf(j, ps, x)) <= n + 1
      /\ \A x \in StepIds(p) \ done :
           Asked(j, x) = {} /\ ~Over(s, c, l) /\ ~Begotten(c, l, x)
             => Cardinality(WorkersOf(j, ps, x)) <= n

RootBudget(j, s, ps, c, l, n) ==
  PlanningBudget(j, s, c, l, n) /\ WorkBudget(j, s, ps, c, l, n)

Budgeted ==
  /\ RootBudget(journal[Root], state[Root], plan, pc[Root], at[Root], crashes)
  /\ \A t \in Tasks : CallsOf(t, journal[t], plan[t])

\* A journal that tells the budgets the same.
Alike(j, k) ==
  /\ PlanRejectionCount(k) = PlanRejectionCount(j)
  /\ \A x : Asked(k, x) = Asked(j, x)
  /\ CompletedPlanSteps(k) = CompletedPlanSteps(j)

Neutral(e) == e.kind \notin {"plan_rejected", "model_call", "plan_step_completed"}

LEMMA NeutralAppended ==
  ASSUME NEW j \in Seq(Entries), NEW e, Neutral(e)
  PROVE  Alike(j, Append(j, e))
<1>1. Places(Append(j, e), {"plan_rejected"}) = Places(j, {"plan_rejected"})
  <2>1. Places(Append(j, e), {"plan_rejected"})
          = Places(j, {"plan_rejected"})
              \union (IF e.kind \in {"plan_rejected"} THEN {Len(j) + 1} ELSE {})
    BY AnyAppended
  <2>2. QED
    BY <2>1 DEF Neutral
<1>2. ASSUME NEW x PROVE Asked(Append(j, e), x) = Asked(j, x)
  <2>1. PlacesFor(Append(j, e), {"model_call"}, x)
          = PlacesFor(j, {"model_call"}, x)
              \union (IF e.kind \in {"model_call"} /\ e.step = x THEN {Len(j) + 1} ELSE {})
    BY PlacesForAppended
  <2>2. QED
    BY <2>1 DEF Neutral, Asked
<1>3. CompletedPlanSteps(Append(j, e)) = CompletedPlanSteps(j)
  BY CompletedAppended DEF Neutral
<1>4. QED
  BY <1>1, <1>2, <1>3 DEF Alike, PlanRejectionCount

LEMMA AlikeIs ==
  /\ \A j : Alike(j, j)
  /\ \A i, j, k : Alike(i, j) /\ Alike(j, k) => Alike(i, k)
BY DEF Alike

\* Counting.
LEMMA Counted ==
  ASSUME NEW j \in Seq(Entries), NEW kinds, NEW s
  PROVE  /\ IsFiniteSet(PlacesFor(j, kinds, s)) /\ Cardinality(PlacesFor(j, kinds, s)) \in Nat
         /\ IsFiniteSet(Places(j, kinds)) /\ Cardinality(Places(j, kinds)) \in Nat
<1>1. IsFiniteSet(Places(j, kinds)) /\ Cardinality(Places(j, kinds)) \in Nat
  BY CountTyped
<1>2. PlacesFor(j, kinds, s) \in SUBSET Places(j, kinds)
  BY DEF PlacesFor
<1>3. IsFiniteSet(PlacesFor(j, kinds, s))
  BY <1>1, <1>2, FS_Subset
<1>4. QED
  BY <1>1, <1>3, FS_CardinalityType

LEMMA CountAppended ==
  ASSUME NEW j \in Seq(Entries), NEW e, NEW kinds, NEW s
  PROVE  /\ Cardinality(Places(Append(j, e), kinds))
              = Cardinality(Places(j, kinds)) + (IF e.kind \in kinds THEN 1 ELSE 0)
         /\ Cardinality(PlacesFor(Append(j, e), kinds, s))
              = Cardinality(PlacesFor(j, kinds, s))
                  + (IF e.kind \in kinds /\ e.step = s THEN 1 ELSE 0)
<1>1. ASSUME NEW S, IsFiniteSet(S), Cardinality(S) \in Nat, Len(j) + 1 \notin S
      PROVE  Cardinality(S \union {Len(j) + 1}) = Cardinality(S) + 1
  BY <1>1, FS_AddElement
<1>2. /\ IsFiniteSet(PlacesFor(j, kinds, s)) /\ Cardinality(PlacesFor(j, kinds, s)) \in Nat
      /\ IsFiniteSet(Places(j, kinds)) /\ Cardinality(Places(j, kinds)) \in Nat
  BY Counted
<1>3. Len(j) + 1 \notin Places(j, kinds) /\ Len(j) + 1 \notin PlacesFor(j, kinds, s)
  BY AnyAppended, PlacesAre, PlacesForAre
<1>4. Places(Append(j, e), kinds)
        = Places(j, kinds) \union (IF e.kind \in kinds THEN {Len(j) + 1} ELSE {})
  BY AnyAppended
<1>5. PlacesFor(Append(j, e), kinds, s)
        = PlacesFor(j, kinds, s) \union (IF e.kind \in kinds /\ e.step = s THEN {Len(j) + 1} ELSE {})
  BY PlacesForAppended
<1>6. Cardinality(Places(Append(j, e), kinds))
        = Cardinality(Places(j, kinds)) + (IF e.kind \in kinds THEN 1 ELSE 0)
  <2>1. CASE e.kind \in kinds
    BY <1>1, <1>2, <1>3, <1>4, <2>1
  <2>2. CASE e.kind \notin kinds
    BY <1>2, <1>4, <2>2
  <2>3. QED
    BY <2>1, <2>2
<1>7. Cardinality(PlacesFor(Append(j, e), kinds, s))
        = Cardinality(PlacesFor(j, kinds, s)) + (IF e.kind \in kinds /\ e.step = s THEN 1 ELSE 0)
  <2>1. CASE e.kind \in kinds /\ e.step = s
    BY <1>1, <1>2, <1>3, <1>5, <2>1
  <2>2. CASE ~(e.kind \in kinds /\ e.step = s)
    <3>1. PlacesFor(Append(j, e), kinds, s) = PlacesFor(j, kinds, s)
      BY <1>5, <2>2
    <3>2. QED
      BY <1>2, <2>2, <3>1
  <2>3. QED
    BY <2>1, <2>2
<1>8. QED
  BY <1>6, <1>7

LEMMA PlacesCounted ==
  ASSUME NEW j \in Seq(Entries), NEW e, NEW kinds
  PROVE  Cardinality(Places(Append(j, e), kinds))
           = Cardinality(Places(j, kinds)) + (IF e.kind \in kinds THEN 1 ELSE 0)
<1>1. /\ Cardinality(Places(Append(j, e), kinds))
           = Cardinality(Places(j, kinds)) + (IF e.kind \in kinds THEN 1 ELSE 0)
      /\ Cardinality(PlacesFor(Append(j, e), kinds, None))
           = Cardinality(PlacesFor(j, kinds, None))
               + (IF e.kind \in kinds /\ e.step = None THEN 1 ELSE 0)
  BY CountAppended
<1>2. QED
  BY <1>1

\* A call is counted for its task only.
LEMMA CallsKept ==
  ASSUME NEW t \in Tasks, NEW j \in Seq(Entries), NEW e, NEW p, CallsOf(t, j, p),
         e.kind = "model_call" => e.step = None
  PROVE  CallsOf(t, Append(j, e), p)
<1> SUFFICES ASSUME NEW i \in Places(Append(j, e), {"model_call"}), Append(j, e)[i].step # None
             PROVE  LET x == Append(j, e)[i].step IN
                    /\ t # Root => x \in StepIds(p)
                    /\ \E k \in PlacesFor(Append(j, e), {"plan_step_started"}, x) : k < i
                    /\ Cardinality(Asked(Append(j, e), x)) <= MaxTurns
  BY DEF CallsOf
<1>1. i \in Places(j, {"model_call"}) /\ Append(j, e)[i] = j[i]
  <2>1. Places(Append(j, e), {"model_call"})
          = Places(j, {"model_call"}) \union (IF e.kind = "model_call" THEN {Len(j) + 1} ELSE {})
    BY AnyAppended
  <2>2. i # Len(j) + 1
    <3>1. SUFFICES ASSUME i = Len(j) + 1 PROVE FALSE
      OBVIOUS
    <3>2. Append(j, e)[i] = e
      BY <3>1, AnyAppended
    <3>3. Len(j) + 1 \notin Places(j, {"model_call"})
      BY AnyAppended, PlacesAre
    <3>4. e.kind = "model_call"
      BY <2>1, <3>1, <3>3
    <3>5. QED
      BY <3>2, <3>4
  <2>3. i \in Places(j, {"model_call"})
    BY <2>1, <2>2
  <2>4. QED
    BY <2>3, AnyAppended, PlacesAre
<1> DEFINE x == j[i].step
<1>2. /\ t # Root => x \in StepIds(p)
      /\ \E k \in PlacesFor(j, {"plan_step_started"}, x) : k < i
      /\ Cardinality(Asked(j, x)) <= MaxTurns
  BY <1>1 DEF CallsOf
<1>3. Asked(Append(j, e), x) = Asked(j, x)
  <2>1. PlacesFor(Append(j, e), {"model_call"}, x)
          = PlacesFor(j, {"model_call"}, x)
              \union (IF e.kind \in {"model_call"} /\ e.step = x THEN {Len(j) + 1} ELSE {})
    BY PlacesForAppended
  <2>2. x # None
    BY <1>1
  <2>3. QED
    BY <2>1, <2>2 DEF Asked
<1>4. PlacesFor(j, {"plan_step_started"}, x) \subseteq PlacesFor(Append(j, e), {"plan_step_started"}, x)
  BY PlacesForAppended
<1>5. QED
  BY <1>1, <1>2, <1>3, <1>4

LEMMA BudgetedBecomes ==
  ASSUME Shaped, Budgeted, NEW t \in Tasks, NEW j, NEW s, NEW c, NEW l, NEW v,
         Becomes(t, j, s, plan[t], c, l, v), UNCHANGED crashes,
         CallsOf(t, j, plan[t]), t = Root => RootBudget(j, s, plan, c, l, crashes)
  PROVE  Budgeted'
<1>1. Root \in Tasks
  BY TasksAre
<1>2. plan' = plan
  BY Unwritten DEF Becomes
<1>3. RootBudget(journal'[Root], state'[Root], plan, pc'[Root], at'[Root], crashes)
  BY <1>1, BecameAt DEF Budgeted
<1>4. ASSUME NEW u \in Tasks PROVE CallsOf(u, journal'[u], plan[u])
  BY BecameAt DEF Budgeted
<1>5. QED
  BY <1>2, <1>3, <1>4 DEF Budgeted

\* The journal is as it was or has one more entry that is not counted.
Mutely(j, k) == k = j \/ \E e : Neutral(e) /\ k = Append(j, e)

LEMMA MutelyKeeps ==
  ASSUME NEW t \in Tasks, NEW j \in Seq(Entries), NEW k, NEW p, Mutely(j, k), CallsOf(t, j, p)
  PROVE  Alike(j, k) /\ CallsOf(t, k, p)
<1>1. ASSUME NEW e, Neutral(e) PROVE Alike(j, Append(j, e)) /\ CallsOf(t, Append(j, e), p)
  <2>1. e.kind # "model_call"
    BY <1>1 DEF Neutral
  <2>2. QED
    BY <1>1, <2>1, NeutralAppended, CallsKept
<1>2. Alike(j, j)
  BY AlikeIs
<1>3. QED
  BY <1>1, <1>2 DEF Mutely

LEMMA AreNeutral ==
  /\ \A k, s, a, n, i : k \notin {"plan_rejected", "model_call", "plan_step_completed"} =>
       Neutral(Entry(k, s, a, n, i)) /\ Neutral(About(k, s)) /\ Neutral(Outcome(k, i)) /\ Neutral(Plain(k))
BY DEF Entry, About, Plain, Outcome, Neutral

\* Nothing about a step is told otherwise.
SameWork(j, k) ==
  /\ \A x : x # None => Asked(k, x) = Asked(j, x)
  /\ CompletedPlanSteps(k) = CompletedPlanSteps(j)

LEMMA SameWorkers ==
  ASSUME NEW j, NEW k, SameWork(j, k), NEW ps, NEW x, x # None
  PROVE  WorkersOf(k, ps, x) = WorkersOf(j, ps, x)
BY DEF SameWork, WorkersOf

LEMMA WorkPlainly ==
  ASSUME NEW j, NEW k, NEW s, NEW r, NEW ps, NEW c, NEW d, NEW l, NEW m, NEW n,
         WorkBudget(j, s, ps, c, l, n), SameWork(j, k), None \notin StepIds(ps[Root]),
         d \notin InHand, r = "Planning" => s = "Planning",
         Over(s, c, l) \/ c \in {"wave", "fold"} => Over(r, d, m)
  PROVE  WorkBudget(k, r, ps, d, m, n)
<1>1. /\ CompletedPlanSteps(k) = CompletedPlanSteps(j)
      /\ \A x \in StepIds(ps[Root]) : Asked(k, x) = Asked(j, x)
      /\ \A x \in StepIds(ps[Root]) : WorkersOf(k, ps, x) = WorkersOf(j, ps, x)
  <2>1. \A x : x # None => WorkersOf(k, ps, x) = WorkersOf(j, ps, x)
    BY SameWorkers
  <2>2. QED
    BY <2>1 DEF SameWork
<1>2. d \notin {"begin", "call", "act"} /\ d \notin {"wave", "fold"}
  BY DEF InHand
<1>3. \A x : ~Over(r, d, m) => ~Over(s, c, l) /\ ~Begotten(c, l, x)
  BY DEF Begotten
<1>4. QED
  BY <1>1, <1>2, <1>3 DEF WorkBudget

\* A handler that leaves nothing in hand keeps the budgets, unless it gives
\* up a wave without failing the task.
LEMMA BudgetPlainly ==
  ASSUME NEW j, NEW k, NEW s, NEW r, NEW ps, NEW c, NEW d, NEW l, NEW m, NEW n,
         RootBudget(j, s, ps, c, l, n), Alike(j, k), None \notin StepIds(ps[Root]),
         d \notin PlanningAt, d \notin InHand,
         r = "Planning" => s = "Planning" /\ (d \in AtRest => c \in AtRest),
         Over(s, c, l) \/ c \in {"wave", "fold"} => Over(r, d, m)
  PROVE  RootBudget(k, r, ps, d, m, n)
<1>1. PlanningBudget(k, r, d, m, n)
  BY DEF RootBudget, PlanningBudget, Alike
<1>2. WorkBudget(k, r, ps, d, m, n)
  <2>1. WorkBudget(j, s, ps, c, l, n) /\ SameWork(j, k)
    BY DEF RootBudget, Alike, SameWork
  <2>2. QED
    BY <2>1, WorkPlainly
<1>3. QED
  BY <1>1, <1>2 DEF RootBudget

LEMMA Named ==
  ASSUME Shaped, NEW t \in Tasks
  PROVE  None \notin StepIds(plan[t])
BY TaskTyped, PlansAre

\* So does one that goes on with what it has in hand.
LEMMA BudgetInHand ==
  ASSUME NEW j, NEW k, NEW s, NEW ps, NEW c, NEW d, NEW l, NEW m, NEW n,
         RootBudget(j, s, ps, c, l, n), Alike(j, k), s # "Planning", s # "Failed",
         \/ c \in {"begin", "call", "act"} /\ d \in {"begin", "call", "act"} /\ m.step = l.step
         \/ c \in {"wave", "fold"} /\ d \in {"wave", "fold"} /\ m = l
  PROVE  RootBudget(k, s, ps, d, m, n)
<1>1. PlanningBudget(k, s, d, m, n)
  BY DEF RootBudget, PlanningBudget, Alike, PlanningAt
<1>2. WorkBudget(k, s, ps, d, m, n)
  <2>1. WorkBudget(j, s, ps, c, l, n)
    BY DEF RootBudget
  <2>2. CompletedPlanSteps(k) = CompletedPlanSteps(j) /\ \A x : Asked(k, x) = Asked(j, x)
    BY DEF Alike
  <2>3. \A x : WorkersOf(k, ps, x) = WorkersOf(j, ps, x)
    BY <2>2 DEF WorkersOf
  <2>4. ~Over(s, c, l) /\ ~Over(s, d, m)
    BY DEF Over
  <2>5. \A x : Begotten(d, m, x) <=> Begotten(c, l, x)
    BY DEF Begotten
  <2>6. QED
    BY <2>1, <2>2, <2>3, <2>4, <2>5 DEF WorkBudget
<1>3. QED
  BY <1>1, <1>2 DEF RootBudget

\* A task that is driven has not failed.
LEMMA NotOver ==
  ASSUME Shaped, NEW t \in Tasks, pc[t] \notin {"off", "move"}
  PROVE  ~Over(state[t], pc[t], at[t])
BY TaskTyped DEF ShapeOf, Over

LEMMA BudgetedPlainly ==
  ASSUME Shaped, Budgeted, NEW t \in Tasks, NEW j, NEW s, NEW c, NEW l, NEW v,
         Becomes(t, j, s, plan[t], c, l, v), UNCHANGED crashes, Mutely(journal[t], j),
         c \notin PlanningAt, c \notin InHand,
         s = "Planning" => state[t] = "Planning" /\ (c \in AtRest => pc[t] \in AtRest),
         Over(state[t], pc[t], at[t]) \/ pc[t] \in {"wave", "fold"} => Over(s, c, l)
  PROVE  Budgeted'
<1>1. journal[t] \in Seq(Entries) /\ CallsOf(t, journal[t], plan[t])
  BY TaskTyped DEF Budgeted
<1>2. Alike(journal[t], j) /\ CallsOf(t, j, plan[t])
  BY <1>1, MutelyKeeps
<1>3. ASSUME t = Root PROVE RootBudget(j, s, plan, c, l, crashes)
  <2>1. RootBudget(journal[t], state[t], plan, pc[t], at[t], crashes)
    BY <1>3 DEF Budgeted
  <2>2. None \notin StepIds(plan[Root])
    BY <1>3, Named
  <2>3. QED
    BY <1>2, <2>1, <2>2, BudgetPlainly
<1>4. QED
  BY <1>2, <1>3, BudgetedBecomes

LEMMA BudgetedInHand ==
  ASSUME Shaped, Budgeted, NEW t \in Tasks, NEW j, NEW c, NEW l, NEW v,
         Becomes(t, j, state[t], plan[t], c, l, v), UNCHANGED crashes, Mutely(journal[t], j),
         \/ pc[t] \in {"begin", "call", "act"} /\ c \in {"begin", "call", "act"} /\ l.step = at[t].step
         \/ pc[t] \in {"wave", "fold"} /\ c \in {"wave", "fold"} /\ l = at[t]
  PROVE  Budgeted'
<1>1. journal[t] \in Seq(Entries) /\ CallsOf(t, journal[t], plan[t])
  BY TaskTyped DEF Budgeted
<1>2. Alike(journal[t], j) /\ CallsOf(t, j, plan[t])
  BY <1>1, MutelyKeeps
<1>3. state[t] # "Planning" /\ state[t] # "Failed"
  BY TaskTyped DEF ShapeOf, WorkingAt
<1>4. ASSUME t = Root PROVE RootBudget(j, state[t], plan, c, l, crashes)
  <2>1. RootBudget(journal[t], state[t], plan, pc[t], at[t], crashes)
    BY <1>4 DEF Budgeted
  <2>2. QED
    BY <1>2, <1>3, <2>1, BudgetInHand
<1>5. QED
  BY <1>2, <1>4, BudgetedBecomes

-----------------------------------------------------------------------------
(* One lemma for each handler again.                                       *)
LEMMA PassPlanningBudgeted ==
  ASSUME Shaped, Budgeted, NEW t \in Tasks, PassPlanning(t)
  PROVE  Budgeted'
<1>0. UNCHANGED crashes
  BY PassPlanningIs
<1>1. ASSUME Becomes(t, journal[t], state[t], plan[t], "move", Moving("Implementing", "top"), verdict[t])
      PROVE  Budgeted'
  <2>1. Mutely(journal[t], journal[t])
    BY AreNeutral DEF Mutely
  <2>2. "move" \notin PlanningAt /\ "move" \notin InHand
    BY DEF PlanningAt, InHand
  <2>3. state[t] = "Planning" => state[t] = "Planning" /\ ("move" \in AtRest => pc[t] \in AtRest)
    BY TaskTyped DEF AtRest, ShapeOf, PlanningAt, WorkingAt, PassPlanning
  <2>4. ~Over(state[t], pc[t], at[t]) /\ pc[t] \notin {"wave", "fold"}
    BY NotOver DEF PassPlanning
  <2>5. QED
    BY <1>0, <1>1, <2>1, <2>2, <2>3, <2>4, BudgetedPlainly
<1>2. QED
  BY PassPlanningIs, <1>1

LEMMA LeavePlanningBudgeted ==
  ASSUME Shaped, Budgeted, NEW t \in Tasks, LeavePlanning(t)
  PROVE  Budgeted'
<1>0. UNCHANGED crashes
  BY LeavePlanningIs
<1>1. ASSUME HasAcceptedPlan(journal[t]),
             Becomes(t, journal[t], state[t], plan[t], "move", Moving("Implementing", "top"), verdict[t])
      PROVE  Budgeted'
  <2>1. Mutely(journal[t], journal[t])
    BY AreNeutral DEF Mutely
  <2>2. "move" \notin PlanningAt /\ "move" \notin InHand
    BY DEF PlanningAt, InHand
  <2>3. state[t] = "Planning" => state[t] = "Planning" /\ ("move" \in AtRest => pc[t] \in AtRest)
    BY TaskTyped DEF AtRest, ShapeOf, PlanningAt, WorkingAt, LeavePlanning, AtPlanning
  <2>4. ~Over(state[t], pc[t], at[t]) /\ pc[t] \notin {"wave", "fold"}
    BY NotOver DEF LeavePlanning, AtPlanning
  <2>5. QED
    BY <1>0, <1>1, <2>1, <2>2, <2>3, <2>4, BudgetedPlainly
<1>2. ASSUME ~HasAcceptedPlan(journal[t]) /\ PlanRejectionCount(journal[t]) >= MaxRepairs,
             Becomes(t, Append(journal[t], Plain("note")), state[t], plan[t], "move", Moving("Failed", "off"), verdict[t])
      PROVE  Budgeted'
  <2>1. Mutely(journal[t], Append(journal[t], Plain("note")))
    BY AreNeutral DEF Mutely
  <2>2. "move" \notin PlanningAt /\ "move" \notin InHand
    BY DEF PlanningAt, InHand
  <2>3. state[t] = "Planning" => state[t] = "Planning" /\ ("move" \in AtRest => pc[t] \in AtRest)
    BY TaskTyped DEF AtRest, ShapeOf, PlanningAt, WorkingAt, LeavePlanning, AtPlanning
  <2>4. ~Over(state[t], pc[t], at[t]) /\ pc[t] \notin {"wave", "fold"}
    BY NotOver DEF LeavePlanning, AtPlanning
  <2>5. QED
    BY <1>0, <1>2, <2>1, <2>2, <2>3, <2>4, BudgetedPlainly
<1>3. QED
  BY LeavePlanningIs, <1>1, <1>2

LEMMA AcceptPlanBudgeted ==
  ASSUME Shaped, Budgeted, NEW t \in Tasks, AcceptPlan(t)
  PROVE  Budgeted'
<1>0. UNCHANGED crashes
  BY AcceptPlanIs
<1>1. ASSUME Becomes(t, Append(journal[t], Plain("plan_accepted")), state[t], plan[t], "move", Moving("Implementing", "top"), verdict[t])
      PROVE  Budgeted'
  <2>1. Mutely(journal[t], Append(journal[t], Plain("plan_accepted")))
    BY AreNeutral DEF Mutely
  <2>2. "move" \notin PlanningAt /\ "move" \notin InHand
    BY DEF PlanningAt, InHand
  <2>3. state[t] = "Planning" => state[t] = "Planning" /\ ("move" \in AtRest => pc[t] \in AtRest)
    BY TaskTyped DEF AtRest, ShapeOf, PlanningAt, WorkingAt, AcceptPlan
  <2>4. ~Over(state[t], pc[t], at[t]) /\ pc[t] \notin {"wave", "fold"}
    BY NotOver DEF AcceptPlan
  <2>5. QED
    BY <1>0, <1>1, <2>1, <2>2, <2>3, <2>4, BudgetedPlainly
<1>2. QED
  BY AcceptPlanIs, <1>1

LEMMA WaveChildDoneBudgeted ==
  ASSUME Shaped, Budgeted, NEW t \in Tasks, WaveChildDone(t)
  PROVE  Budgeted'
<1>0. UNCHANGED crashes
  BY WaveChildDoneIs
<1>1. ASSUME Becomes(t, journal[t], "Completed", plan[t], "off", Idle, "ok")
      PROVE  Budgeted'
  <2>1. Mutely(journal[t], journal[t])
    BY AreNeutral DEF Mutely
  <2>2. "off" \notin PlanningAt /\ "off" \notin InHand
    BY DEF PlanningAt, InHand
  <2>3. "Completed" = "Planning" => state[t] = "Planning" /\ ("off" \in AtRest => pc[t] \in AtRest)
    BY TaskTyped DEF AtRest, ShapeOf, PlanningAt, WorkingAt, WaveChildDone, AtStep
  <2>4. ~Over(state[t], pc[t], at[t]) /\ pc[t] \notin {"wave", "fold"}
    BY NotOver DEF WaveChildDone, AtStep
  <2>5. QED
    BY <1>0, <1>1, <2>1, <2>2, <2>3, <2>4, BudgetedPlainly
<1>2. QED
  BY WaveChildDoneIs, <1>1

LEMMA ReissueCallBudgeted ==
  ASSUME Shaped, Budgeted, NEW t \in Tasks, ReissueCall(t)
  PROVE  Budgeted'
<1>0. UNCHANGED crashes
  BY ReissueCallIs
<1>1. ASSUME InterruptedToolCall(journal[t]) # 0,
             Becomes(t, Append(journal[t], Entry("tool", None, journal[t][InterruptedToolCall(journal[t])].act, 0, 0)), state[t], plan[t], "exec", WithAct(at[t], journal[t][InterruptedToolCall(journal[t])].act), verdict[t])
      PROVE  Budgeted'
  <2>1. Mutely(journal[t], Append(journal[t], Entry("tool", None, journal[t][InterruptedToolCall(journal[t])].act, 0, 0)))
    BY AreNeutral DEF Mutely
  <2>2. "exec" \notin PlanningAt /\ "exec" \notin InHand
    BY DEF PlanningAt, InHand
  <2>3. state[t] = "Planning" => state[t] = "Planning" /\ ("exec" \in AtRest => pc[t] \in AtRest)
    BY TaskTyped DEF AtRest, ShapeOf, PlanningAt, WorkingAt, ReissueCall, MayWork, AtStep
  <2>4. ~Over(state[t], pc[t], at[t]) /\ pc[t] \notin {"wave", "fold"}
    BY NotOver DEF ReissueCall, MayWork, AtStep
  <2>5. QED
    BY <1>0, <1>1, <2>1, <2>2, <2>3, <2>4, BudgetedPlainly
<1>2. QED
  BY ReissueCallIs, <1>1

LEMMA PlanSpoiledBudgeted ==
  ASSUME Shaped, Budgeted, NEW t \in Tasks, PlanSpoiled(t)
  PROVE  Budgeted'
<1>0. UNCHANGED crashes
  BY PlanSpoiledIs
<1>1. ASSUME Becomes(t, Append(journal[t], Plain("note")), state[t], plan[t], "move", Moving("Failed", "off"), verdict[t])
      PROVE  Budgeted'
  <2>1. Mutely(journal[t], Append(journal[t], Plain("note")))
    BY AreNeutral DEF Mutely
  <2>2. "move" \notin PlanningAt /\ "move" \notin InHand
    BY DEF PlanningAt, InHand
  <2>3. state[t] = "Planning" => state[t] = "Planning" /\ ("move" \in AtRest => pc[t] \in AtRest)
    BY TaskTyped DEF AtRest, ShapeOf, PlanningAt, WorkingAt, PlanSpoiled, Undisturbed, MayWork, AtStep
  <2>4. ~Over(state[t], pc[t], at[t]) /\ pc[t] \notin {"wave", "fold"}
    BY NotOver DEF PlanSpoiled, Undisturbed, MayWork, AtStep
  <2>5. QED
    BY <1>0, <1>1, <2>1, <2>2, <2>3, <2>4, BudgetedPlainly
<1>2. QED
  BY PlanSpoiledIs, <1>1

LEMMA StepsDoneBudgeted ==
  ASSUME Shaped, Budgeted, NEW t \in Tasks, StepsDone(t)
  PROVE  Budgeted'
<1>0. UNCHANGED crashes
  BY StepsDoneIs
<1>1. ASSUME Becomes(t, journal[t], state[t], plan[t], "move", Moving("Verifying", "off"), verdict[t])
      PROVE  Budgeted'
  <2>1. Mutely(journal[t], journal[t])
    BY AreNeutral DEF Mutely
  <2>2. "move" \notin PlanningAt /\ "move" \notin InHand
    BY DEF PlanningAt, InHand
  <2>3. state[t] = "Planning" => state[t] = "Planning" /\ ("move" \in AtRest => pc[t] \in AtRest)
    BY TaskTyped DEF AtRest, ShapeOf, PlanningAt, WorkingAt, StepsDone, Undisturbed, MayWork, AtStep
  <2>4. ~Over(state[t], pc[t], at[t]) /\ pc[t] \notin {"wave", "fold"}
    BY NotOver DEF StepsDone, Undisturbed, MayWork, AtStep
  <2>5. QED
    BY <1>0, <1>1, <2>1, <2>2, <2>3, <2>4, BudgetedPlainly
<1>2. QED
  BY StepsDoneIs, <1>1

LEMMA NoteScopeExpansionBudgeted ==
  ASSUME Shaped, Budgeted, NEW t \in Tasks, NoteScopeExpansion(t)
  PROVE  Budgeted'
<1>0. UNCHANGED crashes
  BY NoteScopeExpansionIs
<1>1. ASSUME Becomes(t, Append(journal[t], Plain("plan_scope_expansion")), state[t], plan[t], "issue", at[t], verdict[t])
      PROVE  Budgeted'
  <2>1. Mutely(journal[t], Append(journal[t], Plain("plan_scope_expansion")))
    BY AreNeutral DEF Mutely
  <2>2. "issue" \notin PlanningAt /\ "issue" \notin InHand
    BY DEF PlanningAt, InHand
  <2>3. state[t] = "Planning" => state[t] = "Planning" /\ ("issue" \in AtRest => pc[t] \in AtRest)
    BY TaskTyped DEF AtRest, ShapeOf, PlanningAt, WorkingAt, NoteScopeExpansion
  <2>4. ~Over(state[t], pc[t], at[t]) /\ pc[t] \notin {"wave", "fold"}
    BY NotOver DEF NoteScopeExpansion
  <2>5. QED
    BY <1>0, <1>1, <2>1, <2>2, <2>3, <2>4, BudgetedPlainly
<1>2. QED
  BY NoteScopeExpansionIs, <1>1

LEMMA IssueCallBudgeted ==
  ASSUME Shaped, Budgeted, NEW t \in Tasks, IssueCall(t)
  PROVE  Budgeted'
<1>0. UNCHANGED crashes
  BY IssueCallIs
<1>1. ASSUME Becomes(t, Append(journal[t], Entry("tool", None, at[t].act, 0, 0)), state[t], plan[t], "exec", at[t], verdict[t])
      PROVE  Budgeted'
  <2>1. Mutely(journal[t], Append(journal[t], Entry("tool", None, at[t].act, 0, 0)))
    BY AreNeutral DEF Mutely
  <2>2. "exec" \notin PlanningAt /\ "exec" \notin InHand
    BY DEF PlanningAt, InHand
  <2>3. state[t] = "Planning" => state[t] = "Planning" /\ ("exec" \in AtRest => pc[t] \in AtRest)
    BY TaskTyped DEF AtRest, ShapeOf, PlanningAt, WorkingAt, IssueCall
  <2>4. ~Over(state[t], pc[t], at[t]) /\ pc[t] \notin {"wave", "fold"}
    BY NotOver DEF IssueCall
  <2>5. QED
    BY <1>0, <1>1, <2>1, <2>2, <2>3, <2>4, BudgetedPlainly
<1>2. QED
  BY IssueCallIs, <1>1

LEMMA AskUserBudgeted ==
  ASSUME Shaped, Budgeted, NEW t \in Tasks, AskUser(t)
  PROVE  Budgeted'
<1>0. UNCHANGED crashes
  BY AskUserIs
<1>1. ASSUME Becomes(t, journal[t], state[t], plan[t], "move", Moving("WaitingForUser", "off"), verdict[t])
      PROVE  Budgeted'
  <2>1. Mutely(journal[t], journal[t])
    BY AreNeutral DEF Mutely
  <2>2. "move" \notin PlanningAt /\ "move" \notin InHand
    BY DEF PlanningAt, InHand
  <2>3. state[t] = "Planning" => state[t] = "Planning" /\ ("move" \in AtRest => pc[t] \in AtRest)
    BY TaskTyped DEF AtRest, ShapeOf, PlanningAt, WorkingAt, AskUser
  <2>4. ~Over(state[t], pc[t], at[t]) /\ pc[t] \notin {"wave", "fold"}
    BY NotOver DEF AskUser
  <2>5. QED
    BY <1>0, <1>1, <2>1, <2>2, <2>3, <2>4, BudgetedPlainly
<1>2. QED
  BY AskUserIs, <1>1

LEMMA ToolEndsBudgeted ==
  ASSUME Shaped, Budgeted, NEW t \in Tasks, ToolEnds(t)
  PROVE  Budgeted'
<1>0. UNCHANGED crashes
  BY ToolEndsIs
<1>1. ASSUME Becomes(t, Append(journal[t], Outcome("tool_result", LastToolCall(journal[t]))), state[t], plan[t], "top", Idle, verdict[t])
      PROVE  Budgeted'
  <2>1. Mutely(journal[t], Append(journal[t], Outcome("tool_result", LastToolCall(journal[t]))))
    BY AreNeutral DEF Mutely
  <2>2. "top" \notin PlanningAt /\ "top" \notin InHand
    BY DEF PlanningAt, InHand
  <2>3. state[t] = "Planning" => state[t] = "Planning" /\ ("top" \in AtRest => pc[t] \in AtRest)
    BY TaskTyped DEF AtRest, ShapeOf, PlanningAt, WorkingAt, ToolEnds
  <2>4. ~Over(state[t], pc[t], at[t]) /\ pc[t] \notin {"wave", "fold"}
    BY NotOver DEF ToolEnds
  <2>5. QED
    BY <1>0, <1>1, <2>1, <2>2, <2>3, <2>4, BudgetedPlainly
<1>2. ASSUME at[t].act.file # NoFile,
             Becomes(t, Append(journal[t], Outcome("permission_ask", LastToolCall(journal[t]))), state[t], plan[t], "move", Moving("WaitingForPermission", "off"), verdict[t])
      PROVE  Budgeted'
  <2>1. Mutely(journal[t], Append(journal[t], Outcome("permission_ask", LastToolCall(journal[t]))))
    BY AreNeutral DEF Mutely
  <2>2. "move" \notin PlanningAt /\ "move" \notin InHand
    BY DEF PlanningAt, InHand
  <2>3. state[t] = "Planning" => state[t] = "Planning" /\ ("move" \in AtRest => pc[t] \in AtRest)
    BY TaskTyped DEF AtRest, ShapeOf, PlanningAt, WorkingAt, ToolEnds
  <2>4. ~Over(state[t], pc[t], at[t]) /\ pc[t] \notin {"wave", "fold"}
    BY NotOver DEF ToolEnds
  <2>5. QED
    BY <1>0, <1>2, <2>1, <2>2, <2>3, <2>4, BudgetedPlainly
<1>3. ASSUME at[t].act.file # NoFile,
             Becomes(t, Append(journal[t], Outcome("tool_denied", LastToolCall(journal[t]))), state[t], plan[t], "move", Moving("Failed", "off"), verdict[t])
      PROVE  Budgeted'
  <2>1. Mutely(journal[t], Append(journal[t], Outcome("tool_denied", LastToolCall(journal[t]))))
    BY AreNeutral DEF Mutely
  <2>2. "move" \notin PlanningAt /\ "move" \notin InHand
    BY DEF PlanningAt, InHand
  <2>3. state[t] = "Planning" => state[t] = "Planning" /\ ("move" \in AtRest => pc[t] \in AtRest)
    BY TaskTyped DEF AtRest, ShapeOf, PlanningAt, WorkingAt, ToolEnds
  <2>4. ~Over(state[t], pc[t], at[t]) /\ pc[t] \notin {"wave", "fold"}
    BY NotOver DEF ToolEnds
  <2>5. QED
    BY <1>0, <1>3, <2>1, <2>2, <2>3, <2>4, BudgetedPlainly
<1>4. QED
  BY ToolEndsIs, <1>1, <1>2, <1>3

LEMMA RequestTurnBudgeted ==
  ASSUME Shaped, Budgeted, NEW t \in Tasks, RequestTurn(t)
  PROVE  Budgeted'
<1>0. UNCHANGED crashes
  BY RequestTurnIs
<1>1. ASSUME Becomes(t, Append(journal[t], Entry("turn_call", None, Nothing, CountModelCalls(journal[t]), 0)), state[t], plan[t], "turn", at[t], verdict[t])
      PROVE  Budgeted'
  <2>1. Mutely(journal[t], Append(journal[t], Entry("turn_call", None, Nothing, CountModelCalls(journal[t]), 0)))
    BY AreNeutral DEF Mutely
  <2>2. "turn" \notin PlanningAt /\ "turn" \notin InHand
    BY DEF PlanningAt, InHand
  <2>3. state[t] = "Planning" => state[t] = "Planning" /\ ("turn" \in AtRest => pc[t] \in AtRest)
    BY TaskTyped DEF AtRest, ShapeOf, PlanningAt, WorkingAt, RequestTurn, AtStep
  <2>4. ~Over(state[t], pc[t], at[t]) /\ pc[t] \notin {"wave", "fold"}
    BY NotOver DEF RequestTurn, AtStep
  <2>5. QED
    BY <1>0, <1>1, <2>1, <2>2, <2>3, <2>4, BudgetedPlainly
<1>2. QED
  BY RequestTurnIs, <1>1

LEMMA TurnAnsweredBudgeted ==
  ASSUME Shaped, Budgeted, NEW t \in Tasks, TurnAnswered(t)
  PROVE  Budgeted'
<1>0. UNCHANGED crashes
  BY TurnAnsweredIs
<1>1. ASSUME NEW a \in TurnDecisions,
             Becomes(t, Append(journal[t], Entry("turn_completion", None, a, CallTurn(t), 0)), state[t], plan[t], "choose", WithAct(at[t], a), verdict[t])
      PROVE  Budgeted'
  <2>1. Mutely(journal[t], Append(journal[t], Entry("turn_completion", None, a, CallTurn(t), 0)))
    BY AreNeutral DEF Mutely
  <2>2. "choose" \notin PlanningAt /\ "choose" \notin InHand
    BY DEF PlanningAt, InHand
  <2>3. state[t] = "Planning" => state[t] = "Planning" /\ ("choose" \in AtRest => pc[t] \in AtRest)
    BY TaskTyped DEF AtRest, ShapeOf, PlanningAt, WorkingAt, TurnAnswered
  <2>4. ~Over(state[t], pc[t], at[t]) /\ pc[t] \notin {"wave", "fold"}
    BY NotOver DEF TurnAnswered
  <2>5. QED
    BY <1>0, <1>1, <2>1, <2>2, <2>3, <2>4, BudgetedPlainly
<1>2. QED
  BY TurnAnsweredIs, <1>1

LEMMA FinishTurnsBudgeted ==
  ASSUME Shaped, Budgeted, NEW t \in Tasks, FinishTurns(t)
  PROVE  Budgeted'
<1>0. UNCHANGED crashes
  BY FinishTurnsIs
<1>1. ASSUME Becomes(t, journal[t], state[t], plan[t], "move", Moving("Verifying", "off"), verdict[t])
      PROVE  Budgeted'
  <2>1. Mutely(journal[t], journal[t])
    BY AreNeutral DEF Mutely
  <2>2. "move" \notin PlanningAt /\ "move" \notin InHand
    BY DEF PlanningAt, InHand
  <2>3. state[t] = "Planning" => state[t] = "Planning" /\ ("move" \in AtRest => pc[t] \in AtRest)
    BY TaskTyped DEF AtRest, ShapeOf, PlanningAt, WorkingAt, FinishTurns
  <2>4. ~Over(state[t], pc[t], at[t]) /\ pc[t] \notin {"wave", "fold"}
    BY NotOver DEF FinishTurns
  <2>5. QED
    BY <1>0, <1>1, <2>1, <2>2, <2>3, <2>4, BudgetedPlainly
<1>2. QED
  BY FinishTurnsIs, <1>1

LEMMA FaultBudgeted ==
  ASSUME Shaped, Budgeted, NEW t \in Tasks, Fault(t)
  PROVE  Budgeted'
<1>0. UNCHANGED crashes
  BY FaultIs
<1>1. ASSUME InWave(t),
             Becomes(t, journal[t], state[t], plan[t], "off", Idle, "err")
      PROVE  Budgeted'
  <2>1. Mutely(journal[t], journal[t])
    BY AreNeutral DEF Mutely
  <2>2. "off" \notin PlanningAt /\ "off" \notin InHand
    BY DEF PlanningAt, InHand
  <2>3. state[t] = "Planning" => state[t] = "Planning" /\ ("off" \in AtRest => pc[t] \in AtRest)
    BY <1>1, TaskTyped DEF AtRest, ShapeOf, PlanningAt, WorkingAt, Fault, InWave
  <2>4. ~Over(state[t], pc[t], at[t]) /\ pc[t] \notin {"wave", "fold"}
    BY NotOver DEF Fault
  <2>5. QED
    BY <1>0, <1>1, <2>1, <2>2, <2>3, <2>4, BudgetedPlainly
<1>2. ASSUME ~InWave(t),
             Becomes(t, Append(journal[t], Plain("note")), state[t], plan[t], "move", Moving("Failed", "off"), verdict[t])
      PROVE  Budgeted'
  <2>1. Mutely(journal[t], Append(journal[t], Plain("note")))
    BY AreNeutral DEF Mutely
  <2>2. "move" \notin PlanningAt /\ "move" \notin InHand
    BY DEF PlanningAt, InHand
  <2>3. state[t] = "Planning" => state[t] = "Planning" /\ ("move" \in AtRest => pc[t] \in AtRest)
    BY TaskTyped DEF AtRest, ShapeOf, PlanningAt, WorkingAt, Fault, InWave
  <2>4. ~Over(state[t], pc[t], at[t]) /\ pc[t] \notin {"wave", "fold"}
    BY NotOver DEF Fault
  <2>5. QED
    BY <1>0, <1>2, <2>1, <2>2, <2>3, <2>4, BudgetedPlainly
<1>3. QED
  BY FaultIs, <1>1, <1>2

LEMMA FoldFailureBudgeted ==
  ASSUME Shaped, Budgeted, NEW t \in Tasks, FoldFailure(t)
  PROVE  Budgeted'
<1>0. UNCHANGED crashes
  BY FoldFailureIs
<1>1. ASSUME Becomes(t, Append(journal[t], Plain("note")), state[t], plan[t], "move", Moving("Failed", "off"), verdict[t])
      PROVE  Budgeted'
  <2>1. Mutely(journal[t], Append(journal[t], Plain("note")))
    BY AreNeutral DEF Mutely
  <2>2. "move" \notin PlanningAt /\ "move" \notin InHand
    BY DEF PlanningAt, InHand
  <2>3. state[t] = "Planning" => state[t] = "Planning" /\ ("move" \in AtRest => pc[t] \in AtRest)
    BY TaskTyped DEF AtRest, ShapeOf, PlanningAt, WorkingAt, FoldFailure, Folding
  <2>4. Over(state[t], "move", Moving("Failed", "off"))
    BY MovingIs DEF Over, States
  <2>5. QED
    BY <1>0, <1>1, <2>1, <2>2, <2>3, <2>4, BudgetedPlainly
<1>2. QED
  BY FoldFailureIs, <1>1

LEMMA ApproveBudgeted ==
  ASSUME Shaped, Budgeted, NEW t \in Tasks, Approve(t)
  PROVE  Budgeted'
<1>0. UNCHANGED crashes
  BY ApproveIs
<1>1. ASSUME Becomes(t, Append(journal[t], Outcome("tool_result", PendingToolCall(journal[t]))), state[t], plan[t], "move", Moving("Implementing", "top"), verdict[t])
      PROVE  Budgeted'
  <2>1. Mutely(journal[t], Append(journal[t], Outcome("tool_result", PendingToolCall(journal[t]))))
    BY AreNeutral DEF Mutely
  <2>2. "move" \notin PlanningAt /\ "move" \notin InHand
    BY DEF PlanningAt, InHand
  <2>3. state[t] = "Planning" => state[t] = "Planning" /\ ("move" \in AtRest => pc[t] \in AtRest)
    BY TaskTyped DEF AtRest, ShapeOf, PlanningAt, WorkingAt, Approve, MayReply
  <2>4. ~Over(state[t], pc[t], at[t]) /\ pc[t] \notin {"wave", "fold"}
    BY DEF Over, Approve, MayReply
  <2>5. QED
    BY <1>0, <1>1, <2>1, <2>2, <2>3, <2>4, BudgetedPlainly
<1>2. QED
  BY ApproveIs, <1>1

LEMMA DenyBudgeted ==
  ASSUME Shaped, Budgeted, NEW t \in Tasks, Deny(t)
  PROVE  Budgeted'
<1>0. UNCHANGED crashes
  BY DenyIs
<1>1. ASSUME Becomes(t, Append(journal[t], Outcome("tool_denied", PendingToolCall(journal[t]))), state[t], plan[t], "move", Moving("Failed", "off"), verdict[t])
      PROVE  Budgeted'
  <2>1. Mutely(journal[t], Append(journal[t], Outcome("tool_denied", PendingToolCall(journal[t]))))
    BY AreNeutral DEF Mutely
  <2>2. "move" \notin PlanningAt /\ "move" \notin InHand
    BY DEF PlanningAt, InHand
  <2>3. state[t] = "Planning" => state[t] = "Planning" /\ ("move" \in AtRest => pc[t] \in AtRest)
    BY TaskTyped DEF AtRest, ShapeOf, PlanningAt, WorkingAt, Deny, MayReply
  <2>4. ~Over(state[t], pc[t], at[t]) /\ pc[t] \notin {"wave", "fold"}
    BY DEF Over, Deny, MayReply
  <2>5. QED
    BY <1>0, <1>1, <2>1, <2>2, <2>3, <2>4, BudgetedPlainly
<1>2. QED
  BY DenyIs, <1>1

LEMMA RespondBudgeted ==
  ASSUME Shaped, Budgeted, NEW t \in Tasks, Respond(t)
  PROVE  Budgeted'
<1>0. UNCHANGED crashes
  BY RespondIs
<1>1. ASSUME Becomes(t, Append(journal[t], Plain("user_response")), state[t], plan[t], "move", Moving("Implementing", "top"), verdict[t])
      PROVE  Budgeted'
  <2>1. Mutely(journal[t], Append(journal[t], Plain("user_response")))
    BY AreNeutral DEF Mutely
  <2>2. "move" \notin PlanningAt /\ "move" \notin InHand
    BY DEF PlanningAt, InHand
  <2>3. state[t] = "Planning" => state[t] = "Planning" /\ ("move" \in AtRest => pc[t] \in AtRest)
    BY TaskTyped DEF AtRest, ShapeOf, PlanningAt, WorkingAt, Respond, MayReply
  <2>4. ~Over(state[t], pc[t], at[t]) /\ pc[t] \notin {"wave", "fold"}
    BY DEF Over, Respond, MayReply
  <2>5. QED
    BY <1>0, <1>1, <2>1, <2>2, <2>3, <2>4, BudgetedPlainly
<1>2. QED
  BY RespondIs, <1>1

LEMMA TakeCheckpointBudgeted ==
  ASSUME Shaped, Budgeted, NEW t \in Tasks, TakeCheckpoint(t)
  PROVE  Budgeted'
<1>0. UNCHANGED crashes
  BY TakeCheckpointIs
<1>1. ASSUME Becomes(t, Append(journal[t], About("plan_checkpoint", at[t].step)), state[t], plan[t], pc[t], at[t], verdict[t])
      PROVE  Budgeted'
  <2>1. Mutely(journal[t], Append(journal[t], About("plan_checkpoint", at[t].step)))
    BY AreNeutral DEF Mutely
  <2>3. QED
    BY <1>0, <1>1, <2>1, BudgetedInHand DEF TakeCheckpoint
<1>2. QED
  BY TakeCheckpointIs, <1>1

LEMMA StartStepBudgeted ==
  ASSUME Shaped, Budgeted, NEW t \in Tasks, StartStep(t)
  PROVE  Budgeted'
<1>0. UNCHANGED crashes
  BY StartStepIs
<1>1. ASSUME Becomes(t, Append(journal[t], About("plan_step_started", at[t].step)), state[t], plan[t], pc[t], at[t], verdict[t])
      PROVE  Budgeted'
  <2>1. Mutely(journal[t], Append(journal[t], About("plan_step_started", at[t].step)))
    BY AreNeutral DEF Mutely
  <2>3. QED
    BY <1>0, <1>1, <2>1, BudgetedInHand DEF StartStep
<1>2. QED
  BY StartStepIs, <1>1

LEMMA StepAnsweredBudgeted ==
  ASSUME Shaped, Budgeted, NEW t \in Tasks, StepAnswered(t)
  PROVE  Budgeted'
<1>0. UNCHANGED crashes
  BY StepAnsweredIs
<1>1. ASSUME NEW a \in Decisions[at[t].step],
             Becomes(t, Append(journal[t], Entry("step_completion", at[t].step, a, CallTurn(t), 0)), state[t], plan[t], "act", WithAct(at[t], a), verdict[t])
      PROVE  Budgeted'
  <2>1. Mutely(journal[t], Append(journal[t], Entry("step_completion", at[t].step, a, CallTurn(t), 0)))
    BY AreNeutral DEF Mutely
  <2>2. WithAct(at[t], a).step = at[t].step
    BY TaskTyped DEF WithAct, Locals
  <2>3. QED
    BY <1>0, <1>1, <2>1, <2>2, BudgetedInHand DEF StepAnswered
<1>2. QED
  BY StepAnsweredIs, <1>1

LEMMA ReplayActionBudgeted ==
  ASSUME Shaped, Budgeted, NEW t \in Tasks, ReplayAction(t)
  PROVE  Budgeted'
<1>0. UNCHANGED crashes
  BY ReplayActionIs
<1>1. ASSUME UnprocessedStepAction(journal[t], at[t].step) # 0,
             Becomes(t, journal[t], state[t], plan[t], "act", WithAct(at[t], journal[t][UnprocessedStepAction(journal[t], at[t].step)].act), verdict[t])
      PROVE  Budgeted'
  <2>1. Mutely(journal[t], journal[t])
    BY AreNeutral DEF Mutely
  <2>2. WithAct(at[t], journal[t][UnprocessedStepAction(journal[t], at[t].step)].act).step = at[t].step
    BY TaskTyped DEF WithAct, Locals
  <2>3. QED
    BY <1>0, <1>1, <2>1, <2>2, BudgetedInHand DEF ReplayAction, Begun
<1>2. QED
  BY ReplayActionIs, <1>1

LEMMA JoinChunkBudgeted ==
  ASSUME Shaped, Budgeted, NEW t \in Tasks, JoinChunk(t)
  PROVE  Budgeted'
<1>0. UNCHANGED crashes
  BY JoinChunkIs
<1>1. ASSUME Becomes(t, journal[t], state[t], plan[t], "fold", at[t], verdict[t])
      PROVE  Budgeted'
  <2>1. Mutely(journal[t], journal[t])
    BY AreNeutral DEF Mutely
  <2>3. QED
    BY <1>0, <1>1, <2>1, BudgetedInHand DEF JoinChunk
<1>2. QED
  BY JoinChunkIs, <1>1

LEMMA FoldCheckpointBudgeted ==
  ASSUME Shaped, Budgeted, NEW t \in Tasks, FoldCheckpoint(t)
  PROVE  Budgeted'
<1>0. UNCHANGED crashes
  BY FoldCheckpointIs
<1>1. ASSUME NeedsCheckpoint(t, Folded(t)),
             Becomes(t, Append(journal[t], About("plan_checkpoint", Folded(t))), state[t], plan[t], pc[t], at[t], verdict[t])
      PROVE  Budgeted'
  <2>1. Mutely(journal[t], Append(journal[t], About("plan_checkpoint", Folded(t))))
    BY AreNeutral DEF Mutely
  <2>3. QED
    BY <1>0, <1>1, <2>1, BudgetedInHand DEF FoldCheckpoint, Folding
<1>2. ASSUME ~NeedsCheckpoint(t, Folded(t)),
             Becomes(t, Append(journal[t], About("plan_step_started", Folded(t))), state[t], plan[t], pc[t], at[t], verdict[t])
      PROVE  Budgeted'
  <2>1. Mutely(journal[t], Append(journal[t], About("plan_step_started", Folded(t))))
    BY AreNeutral DEF Mutely
  <2>3. QED
    BY <1>0, <1>2, <2>1, BudgetedInHand DEF FoldCheckpoint, Folding
<1>3. QED
  BY FoldCheckpointIs, <1>1, <1>2


LEMMA MoveBudgeted ==
  ASSUME Shaped, Budgeted, NEW t \in Tasks, Move(t)
  PROVE  Budgeted'
<1>1. at[t].to # "Planning" /\ at[t].then \in {"off", "top"} /\ pc[t] = "move" /\ state[t] # "Failed"
  <2>1. ShapeOf(t, journal[t], state[t], plan[t], pc[t], at[t], verdict[t]) /\ pc[t] = "move"
    BY TaskTyped DEF Move
  <2>2. PICK to \in {"Implementing", "Failed", "Verifying", "WaitingForUser", "WaitingForPermission"},
             then \in {"off", "top"} : at[t] = Moving(to, then)
    BY <2>1 DEF ShapeOf
  <2>3. to \in States
    BY DEF States
  <2>4. state[t] # "Failed"
    BY <2>1 DEF ShapeOf
  <2>5. QED
    BY <2>1, <2>2, <2>3, <2>4, MovingIs
<1>2. ASSUME NEW c \in {"off", "top"}, NEW v,
             Becomes(t, journal[t], at[t].to, plan[t], c, Idle, v)
      PROVE  Budgeted'
  <2>1. Mutely(journal[t], journal[t])
    BY DEF Mutely
  <2>2. c \notin InHand /\ c \notin PlanningAt
    BY DEF InHand, PlanningAt
  <2>3. Over(state[t], pc[t], at[t]) \/ pc[t] \in {"wave", "fold"} => Over(at[t].to, c, Idle)
    BY <1>1 DEF Over
  <2>4. UNCHANGED crashes
    BY MoveIs
  <2>5. QED
    BY <1>1, <1>2, <2>1, <2>2, <2>3, <2>4, BudgetedPlainly
<1>3. QED
  BY <1>1, <1>2, MoveIs

LEMMA ResumeBudgeted ==
  ASSUME Shaped, Budgeted, Resume
  PROVE  Budgeted'
<1>1. Root \in Tasks /\ "top" \notin InHand /\ "top" \notin PlanningAt
  BY TasksAre DEF InHand, PlanningAt
<1>2. /\ Becomes(Root, Append(journal[Root], Plain("note")), state[Root], plan[Root], "top",
                 at[Root], verdict[Root])
      /\ UNCHANGED crashes
  BY ResumeIs
<1>3. Mutely(journal[Root], Append(journal[Root], Plain("note")))
  BY AreNeutral DEF Mutely
<1>4. pc[Root] = "off" /\ ~Over(state[Root], pc[Root], at[Root])
  BY DEF Resume, Over
<1>5. state[Root] = "Planning" => state[Root] = "Planning" /\ ("top" \in AtRest => pc[Root] \in AtRest)
  BY <1>4 DEF AtRest
<1>6. QED
  BY <1>1, <1>2, <1>3, <1>4, <1>5, BudgetedPlainly

LEMMA WorkersTyped ==
  ASSUME NEW j, NEW ps, NEW x
  PROVE  /\ WorkersOf(j, ps, x) \in SUBSET Tasks
         /\ IsFiniteSet(WorkersOf(j, ps, x)) /\ Cardinality(WorkersOf(j, ps, x)) \in Nat
<1>1. IsFiniteSet(Tasks)
  <2>1. IsFiniteSet(1 .. MaxChildren)
    BY PlanStepsAssumption, FS_Interval
  <2>2. IsFiniteSet({Root})
    BY FS_Singleton
  <2>3. QED
    BY <2>1, <2>2, FS_Union DEF Tasks, Children
<1>2. WorkersOf(j, ps, x) \in SUBSET Tasks
  BY DEF WorkersOf
<1>3. IsFiniteSet(WorkersOf(j, ps, x))
  BY <1>1, <1>2, FS_Subset
<1>4. QED
  BY <1>2, <1>3, FS_CardinalityType

\* The numbers the budgets compare.
LEMMA Numbers ==
  ASSUME Shaped
  PROVE  /\ PlanRejectionCount(journal[Root]) \in Nat /\ crashes \in Nat
         /\ \A x : Cardinality(Asked(journal[Root], x)) \in Nat
         /\ \A x : Cardinality(WorkersOf(journal[Root], plan, x)) \in Nat
         /\ MaxRepairs \in Nat \ {0} /\ MaxTurns \in Nat \ {0}
<1>1. journal[Root] \in Seq(Entries) /\ crashes \in Nat
  BY TasksAre, TaskTyped
<1>2. \A x : Cardinality(Asked(journal[Root], x)) \in Nat
  BY <1>1, Counted DEF Asked
<1>3. QED
  BY <1>1, <1>2, CountTyped, WorkersTyped, PlanStepsAssumption

\* A kill pays for the call, and for the worker, it cut off.
LEMMA KillBudgeted ==
  ASSUME Shaped, Budgeted, Kill
  PROVE  Budgeted'
<1>1. /\ journal' = journal /\ plan' = plan /\ state' = state /\ crashes' = crashes + 1
      /\ pc'[Root] = "off" /\ at'[Root] = Idle
  BY TasksAre DEF Kill
<1>2. RootBudget(journal[Root], state[Root], plan, pc[Root], at[Root], crashes)
  BY DEF Budgeted
<1>3. PlanningBudget(journal[Root], state[Root], "off", Idle, crashes + 1)
  <2>1. PlanningBudget(journal[Root], state[Root], pc[Root], at[Root], crashes)
    BY <1>2 DEF RootBudget
  <2>2. "off" \notin PlanningAt
    BY DEF PlanningAt
  <2>3. QED
    BY <2>1, <2>2, Numbers DEF PlanningBudget
<1>4. WorkBudget(journal[Root], state[Root], plan, "off", Idle, crashes + 1)
  <2>1. WorkBudget(journal[Root], state[Root], plan, pc[Root], at[Root], crashes)
    BY <1>2 DEF RootBudget
  <2>2. ASSUME NEW x \in StepIds(plan[Root])
        PROVE  /\ Cardinality(WorkersOf(journal[Root], plan, x)) <= crashes + 1
               /\ Cardinality(WorkersOf(journal[Root], plan, x)) <= (crashes + 1) + 1
    <3>1. Cardinality(WorkersOf(journal[Root], plan, x)) <= crashes + 1
      BY <2>1 DEF WorkBudget
    <3>2. QED
      BY <3>1, Numbers
  <2>3. QED
    BY <2>1, <2>2 DEF WorkBudget
<1>5. QED
  BY <1>1, <1>3, <1>4 DEF Budgeted, RootBudget

LEMMA InitBudgeted ==
  ASSUME Init
  PROVE  Budgeted
<1>1. /\ Root \in Tasks /\ journal[Root] = <<>> /\ pc[Root] = "top" /\ crashes = 0
      /\ \A t \in Tasks : journal[t] = <<>> /\ plan[t] = NoPlan
      /\ \A k \in Children : plan[k] = NoPlan
  BY TasksAre DEF Init, Tasks
<1>2. \A kinds : Places(<<>>, kinds) = {}
  BY DEF Places
<1>3. PlanRejectionCount(<<>>) = 0 /\ Cardinality(Asked(<<>>, None)) = 0
  BY <1>2, FS_EmptySet DEF PlanRejectionCount, Asked, PlacesFor
<1>4. StepIds(plan[Root]) = {}
  BY <1>1, PlansAre
<1>5. PlanningBudget(<<>>, state[Root], "top", at[Root], 0)
  BY <1>3, PlanStepsAssumption DEF PlanningBudget, PlanningAt
<1>6. WorkBudget(<<>>, state[Root], plan, "top", at[Root], 0)
  BY <1>1, <1>4 DEF WorkBudget
<1>7. QED
  BY <1>1, <1>2, <1>5, <1>6 DEF Budgeted, RootBudget, CallsOf

\* Where the task itself is planning.
LEMMA RootPlans ==
  ASSUME Shaped, Budgeted, NEW t \in Tasks, state[t] = "Planning", pc[t] \notin {"off", "move"}
  PROVE  /\ t = Root /\ journal[t] \in Seq(Entries) /\ at[t] \in Locals
         /\ PlanningBudget(journal[t], state[t], pc[t], at[t], crashes)
         /\ WorkBudget(journal[t], state[t], plan, pc[t], at[t], crashes)
         /\ CallsOf(t, journal[t], plan[t])
         /\ None \notin StepIds(plan[Root]) /\ ~Over(state[t], pc[t], at[t])
         /\ pc[t] \notin {"wave", "fold"}
<1>1. t = Root /\ pc[t] \notin {"wave", "fold"}
  BY TaskTyped DEF ShapeOf, WorkingAt
<1>2. RootBudget(journal[t], state[t], plan, pc[t], at[t], crashes) /\ CallsOf(t, journal[t], plan[t])
  BY <1>1 DEF Budgeted
<1>3. QED
  BY <1>1, <1>2, TaskTyped, Named, NotOver DEF RootBudget

LEMMA EnterPlanningBudgeted ==
  ASSUME Shaped, Budgeted, NEW t \in Tasks, EnterPlanning(t)
  PROVE  Budgeted'
<1> DEFINE n == PlanRejectionCount(journal[t])
           l == WithTries(Idle, n)
<1>1. /\ state[t] = "Planning" /\ pc[t] = "top" /\ n < MaxRepairs
      /\ Becomes(t, journal[t], state[t], plan[t], "propose", l, verdict[t]) /\ UNCHANGED crashes
  BY EnterPlanningIs DEF EnterPlanning, AtPlanning
<1>2. /\ t = Root /\ journal[t] \in Seq(Entries)
      /\ PlanningBudget(journal[t], state[t], pc[t], at[t], crashes)
      /\ WorkBudget(journal[t], state[t], plan, pc[t], at[t], crashes)
      /\ CallsOf(t, journal[t], plan[t])
      /\ None \notin StepIds(plan[Root]) /\ ~Over(state[t], pc[t], at[t])
  BY <1>1, RootPlans
<1>3. l.tries = n
  BY <1>2, Numbers, IdleTyped, WithTriesIs
<1> HIDE DEF l
<1>4. PlanningBudget(journal[t], state[t], "propose", l, crashes)
  BY <1>1, <1>2, <1>3 DEF PlanningBudget, AtRest
<1>5. WorkBudget(journal[t], state[t], plan, "propose", l, crashes)
  <2>1. SameWork(journal[t], journal[t]) /\ "propose" \notin InHand
    BY DEF SameWork, InHand
  <2>2. pc[t] \notin {"wave", "fold"}
    BY <1>1
  <2>3. QED
    BY <1>2, <2>1, <2>2, WorkPlainly
<1>6. QED
  BY <1>1, <1>2, <1>4, <1>5, BudgetedBecomes DEF RootBudget

\* A handler of the planning stage that does nothing for a step.
LEMMA PlanningBudgeted ==
  ASSUME Shaped, Budgeted, NEW t \in Tasks, state[t] = "Planning", pc[t] \notin {"off", "move"},
         NEW j, NEW c, NEW l, NEW v,
         Becomes(t, j, state[t], plan[t], c, l, v), UNCHANGED crashes,
         SameWork(journal[t], j), CallsOf(t, j, plan[t]), c \notin InHand,
         PlanningBudget(j, state[t], c, l, crashes)
  PROVE  Budgeted'
<1>1. /\ t = Root
      /\ WorkBudget(journal[t], state[t], plan, pc[t], at[t], crashes)
      /\ None \notin StepIds(plan[Root]) /\ ~Over(state[t], pc[t], at[t])
      /\ pc[t] \notin {"wave", "fold"}
  BY RootPlans
<1>2. WorkBudget(j, state[t], plan, c, l, crashes)
  BY <1>1, WorkPlainly
<1>3. QED
  BY <1>2, BudgetedBecomes DEF RootBudget

LEMMA ProposeBudgeted ==
  ASSUME Shaped, Budgeted, NEW t \in Tasks, Propose(t)
  PROVE  Budgeted'
<1>1. pc[t] = "propose" /\ state[t] = "Planning" /\ UNCHANGED crashes
  BY TaskTyped, ProposeIs DEF Propose, ShapeOf, PlanningAt
<1>2. /\ t = Root /\ journal[t] \in Seq(Entries) /\ at[t] \in Locals
      /\ PlanningBudget(journal[t], state[t], pc[t], at[t], crashes)
      /\ CallsOf(t, journal[t], plan[t])
  BY <1>1, RootPlans
<1>3. ASSUME NEW a, Becomes(t, journal[t], state[t], plan[t], "judge", WithAct(at[t], a), verdict[t])
      PROVE  Budgeted'
  <2>1. WithAct(at[t], a).tries = at[t].tries
    BY <1>2 DEF WithAct, Locals
  <2>2. PlanningBudget(journal[t], state[t], "judge", WithAct(at[t], a), crashes)
    BY <1>1, <1>2, <2>1 DEF PlanningBudget, PlanningAt, AtRest
  <2>3. SameWork(journal[t], journal[t]) /\ "judge" \notin InHand
    BY DEF SameWork, InHand
  <2>4. QED
    BY <1>1, <1>2, <1>3, <2>2, <2>3, PlanningBudgeted
<1>4. ASSUME NEW e, e = Entry("model_call", None, Nothing, CountModelCalls(journal[t]), 0),
             Becomes(t, Append(journal[t], e), state[t], plan[t], "plan_call", at[t], verdict[t])
      PROVE  Budgeted'
  <2> DEFINE j == Append(journal[t], e)
  <2>1. e.kind = "model_call" /\ e.step = None
    BY <1>4, AreQuiet
  <2>2. Cardinality(Places(j, {"plan_rejected"})) = Cardinality(Places(journal[t], {"plan_rejected"}))
        /\ Cardinality(Places(journal[t], {"plan_rejected"})) \in Nat
    <3>1. Cardinality(Places(journal[t], {"plan_rejected"})) \in Nat
      BY <1>2, Counted
    <3>2. Cardinality(Places(j, {"plan_rejected"}))
            = Cardinality(Places(journal[t], {"plan_rejected"})) + (IF e.kind \in {"plan_rejected"} THEN 1 ELSE 0)
      BY <1>2, PlacesCounted
    <3>3. QED
      BY <2>1, <3>1, <3>2
  <2>3. Cardinality(Asked(j, None)) = Cardinality(Asked(journal[t], None)) + 1
    <3>1. Cardinality(PlacesFor(j, {"model_call"}, None))
            = Cardinality(PlacesFor(journal[t], {"model_call"}, None))
                + (IF e.kind \in {"model_call"} /\ e.step = None THEN 1 ELSE 0)
      BY <1>2, CountAppended
    <3>2. QED
      BY <2>1, <3>1 DEF Asked
  <2>4. SameWork(journal[t], j)
    <3>1. ASSUME NEW x, x # None PROVE Asked(j, x) = Asked(journal[t], x)
      <4>1. PlacesFor(j, {"model_call"}, x)
              = PlacesFor(journal[t], {"model_call"}, x)
                  \union (IF e.kind \in {"model_call"} /\ e.step = x THEN {Len(journal[t]) + 1} ELSE {})
        BY <1>2, PlacesForAppended
      <4>2. QED
        BY <2>1, <3>1, <4>1 DEF Asked
    <3>2. CompletedPlanSteps(j) = CompletedPlanSteps(journal[t])
      BY <1>2, <2>1, CompletedAppended
    <3>3. QED
      BY <3>1, <3>2 DEF SameWork
  <2>5. CallsOf(t, j, plan[t])
    BY <1>2, <2>1, CallsKept
  <2>6. PlanningBudget(j, state[t], "plan_call", at[t], crashes)
    <3>1. PlanRejectionCount(j) = PlanRejectionCount(journal[t])
      BY <2>2 DEF PlanRejectionCount
    <3>2. /\ at[t].tries = PlanRejectionCount(journal[t]) /\ at[t].tries < MaxRepairs
          /\ Cardinality(Asked(journal[t], None)) <= PlanRejectionCount(journal[t]) + crashes
          /\ PlanRejectionCount(journal[t]) <= MaxRepairs
      BY <1>1, <1>2 DEF PlanningBudget, PlanningAt, AtRest
    <3>3. /\ PlanRejectionCount(journal[t]) \in Nat /\ crashes \in Nat /\ MaxRepairs \in Nat
          /\ Cardinality(Asked(journal[t], None)) \in Nat
      BY <1>2, Numbers
    <3>4. "plan_call" \notin AtRest
      BY DEF AtRest
    <3> HIDE DEF j
    <3>5. QED
      BY <2>3, <3>1, <3>2, <3>3, <3>4 DEF PlanningBudget
  <2>7. "plan_call" \notin InHand
    BY DEF InHand
  <2> HIDE DEF j
  <2>8. Becomes(t, j, state[t], plan[t], "plan_call", at[t], verdict[t])
    BY <1>4 DEF j
  <2>9. QED
    BY <1>1, <2>4, <2>5, <2>6, <2>7, <2>8, PlanningBudgeted
<1>5. QED
  BY <1>3, <1>4, ProposeIs

LEMMA PlanAnsweredBudgeted ==
  ASSUME Shaped, Budgeted, NEW t \in Tasks, PlanAnswered(t)
  PROVE  Budgeted'
<1>1. pc[t] = "plan_call" /\ state[t] = "Planning" /\ UNCHANGED crashes
  BY TaskTyped, PlanAnsweredIs DEF PlanAnswered, ShapeOf, PlanningAt
<1>2. /\ t = Root /\ journal[t] \in Seq(Entries) /\ at[t] \in Locals
      /\ PlanningBudget(journal[t], state[t], pc[t], at[t], crashes)
      /\ CallsOf(t, journal[t], plan[t])
  BY <1>1, RootPlans
<1>3. PICK a : Becomes(t, Append(journal[t], Entry("plan_completion", None, a, CallTurn(t), 0)),
                       state[t], plan[t], "judge", WithAct(at[t], a), verdict[t])
  BY PlanAnsweredIs
<1> DEFINE j == Append(journal[t], Entry("plan_completion", None, a, CallTurn(t), 0))
<1>4. Alike(journal[t], j) /\ CallsOf(t, j, plan[t])
  <2>1. Mutely(journal[t], j)
    BY AreNeutral DEF Mutely
  <2>2. QED
    BY <1>2, <2>1, MutelyKeeps
<1> HIDE DEF j
<1>5. WithAct(at[t], a).tries = at[t].tries
  BY <1>2 DEF WithAct, Locals
<1>6. PlanningBudget(j, state[t], "judge", WithAct(at[t], a), crashes)
  BY <1>1, <1>2, <1>4, <1>5 DEF PlanningBudget, PlanningAt, AtRest, Alike
<1>7. SameWork(journal[t], j) /\ "judge" \notin InHand
  BY <1>4 DEF SameWork, InHand, Alike
<1>8. Becomes(t, j, state[t], plan[t], "judge", WithAct(at[t], a), verdict[t])
  BY <1>3 DEF j
<1>9. QED
  BY <1>1, <1>4, <1>6, <1>7, <1>8, PlanningBudgeted

\* A rejection pays for the call that was rejected.
LEMMA RejectPlanBudgeted ==
  ASSUME Shaped, Budgeted, NEW t \in Tasks, RejectPlan(t)
  PROVE  Budgeted'
<1>1. pc[t] = "judge" /\ state[t] = "Planning" /\ UNCHANGED crashes
  BY TaskTyped, RejectPlanIs DEF RejectPlan, ShapeOf, PlanningAt
<1>2. /\ t = Root /\ journal[t] \in Seq(Entries) /\ at[t] \in Locals
      /\ PlanningBudget(journal[t], state[t], pc[t], at[t], crashes)
      /\ CallsOf(t, journal[t], plan[t])
  BY <1>1, RootPlans
<1> DEFINE e == Plain("plan_rejected")
           j == Append(journal[t], e)
           k == Append(j, Plain("note"))
           n == PlanRejectionCount(journal[t])
<1>3. e.kind = "plan_rejected" /\ e.step = None
  BY AreQuiet DEF Plain
<1>4. /\ n \in Nat /\ crashes \in Nat /\ MaxRepairs \in Nat
      /\ Cardinality(Asked(journal[t], None)) \in Nat
  BY <1>2, Numbers
<1>5. j \in Seq(Entries)
  <2>1. "plan_rejected" \in Kinds
    BY DEF Kinds
  <2>2. QED
    BY <1>2, <2>1, PlainTyped, Appended
<1> HIDE DEF e
<1>6. PlanRejectionCount(j) = n + 1
  <2>1. Cardinality(Places(j, {"plan_rejected"}))
          = Cardinality(Places(journal[t], {"plan_rejected"})) + (IF e.kind \in {"plan_rejected"} THEN 1 ELSE 0)
    BY <1>2, PlacesCounted
  <2>2. QED
    BY <1>3, <2>1 DEF PlanRejectionCount
<1>7. \A x : Asked(j, x) = Asked(journal[t], x)
  <2>1. \A x : PlacesFor(j, {"model_call"}, x)
                 = PlacesFor(journal[t], {"model_call"}, x)
                     \union (IF e.kind \in {"model_call"} /\ e.step = x THEN {Len(journal[t]) + 1} ELSE {})
    BY <1>2, PlacesForAppended
  <2>2. e.kind \notin {"model_call"}
    BY <1>3
  <2>3. QED
    BY <2>1, <2>2 DEF Asked
<1>8. CompletedPlanSteps(j) = CompletedPlanSteps(journal[t])
  BY <1>2, <1>3, CompletedAppended
<1>9. CallsOf(t, j, plan[t])
  BY <1>2, <1>3, CallsKept
<1>10. Alike(j, k) /\ CallsOf(t, k, plan[t])
  <2>1. Mutely(j, k)
    BY AreNeutral DEF Mutely
  <2>2. QED
    BY <1>5, <1>9, <2>1, MutelyKeeps
<1>11. SameWork(journal[t], j) /\ SameWork(journal[t], k)
  BY <1>7, <1>8, <1>10 DEF SameWork, Alike
<1>12. PlanRejectionCount(k) = n + 1 /\ Asked(k, None) = Asked(journal[t], None)
  BY <1>6, <1>7, <1>10 DEF Alike
<1>13. /\ at[t].tries = n /\ n < MaxRepairs
       /\ Cardinality(Asked(journal[t], None)) <= MaxRepairs + crashes
       /\ Cardinality(Asked(journal[t], None)) <= n + crashes + 1
  BY <1>1, <1>2 DEF PlanningBudget, PlanningAt
<1>14. ASSUME Becomes(t, k, state[t], plan[t], "move", Moving("Failed", "off"), verdict[t])
       PROVE  Budgeted'
  <2>1. "move" \notin InHand /\ "move" \notin PlanningAt /\ "move" \notin AtRest
    BY DEF InHand, PlanningAt, AtRest
  <2> HIDE DEF k, n
  <2>2. PlanningBudget(k, state[t], "move", Moving("Failed", "off"), crashes)
    BY <1>4, <1>12, <1>13, <2>1 DEF PlanningBudget
  <2>3. QED
    BY <1>1, <1>10, <1>11, <1>14, <2>1, <2>2, PlanningBudgeted
<1>15. ASSUME ~(at[t].tries + 1 >= MaxRepairs),
              Becomes(t, j, state[t], plan[t], "propose", Again(at[t]), verdict[t])
       PROVE  Budgeted'
  <2>1. "propose" \notin InHand
    BY DEF InHand
  <2>2. Again(at[t]).tries = n + 1 /\ n + 1 < MaxRepairs
    <3>1. Again(at[t]).tries = at[t].tries + 1
      BY <1>2, AgainIs
    <3> HIDE DEF n
    <3>2. QED
      BY <1>4, <1>13, <1>15, <3>1
  <2> HIDE DEF j, n
  <2>3. PlanningBudget(j, state[t], "propose", Again(at[t]), crashes)
    BY <1>4, <1>6, <1>7, <1>13, <2>2 DEF PlanningBudget
  <2>4. QED
    BY <1>1, <1>9, <1>11, <1>15, <2>1, <2>3, PlanningBudgeted
<1>16. QED
  BY <1>14, <1>15, RejectPlanIs DEF e

\* A plan that is replaced has not been worked on.
LEMMA SavePlanBudgeted ==
  ASSUME Shaped, Ordered, Budgeted, NEW t \in Tasks, SavePlan(t)
  PROVE  Budgeted'
<1>1. pc[t] = "judge" /\ state[t] = "Planning" /\ UNCHANGED crashes
  BY TaskTyped, SavePlanIs DEF SavePlan, ShapeOf, PlanningAt
<1>2. /\ t = Root /\ journal[t] \in Seq(Entries) /\ at[t] \in Locals
      /\ PlanningBudget(journal[t], state[t], pc[t], at[t], crashes)
      /\ WorkBudget(journal[t], state[t], plan, pc[t], at[t], crashes)
      /\ CallsOf(t, journal[t], plan[t])
  BY <1>1, RootPlans
<1> DEFINE p == at[t].act.plan
<1>3. Becomes(t, journal[t], state[t], p, "accept", at[t], verdict[t])
  BY SavePlanIs
<1>4. p \in Plans
  <2>1. at[t].act \in Acts /\ at[t].act.kind = "plan"
    BY <1>2, LocalFields DEF SavePlan, Acceptable
  <2>2. QED
    BY <2>1, ActsAre, PlansAre
<1> HIDE DEF p
<1>5. ASSUME NEW x, x # None PROVE Asked(journal[t], x) = {}
  <2>1. Unworked(journal[t])
    BY <1>1, <1>2 DEF Ordered, OrderedOf
  <2>2. Places(journal[t], {"model_call"}) \subseteq Places(journal[t], StepWork)
    BY DEF Places, StepWork
  <2>3. QED
    BY <1>5, <2>1, <2>2 DEF Asked, PlacesFor, Unworked
<1>6. PlanningBudget(journal[t], state[t], "accept", at[t], crashes)
  BY <1>1, <1>2 DEF PlanningBudget, PlanningAt, AtRest
<1>7. /\ plan'[Root] = p /\ \A u \in Tasks : u # Root => plan'[u] = plan[u]
      /\ \A u \in Children : plan'[u] = NoPlan /\ u \in Tasks /\ u # Root
  <2>1. \A u \in Children : plan[u] = NoPlan /\ u \in Tasks /\ u # Root
    BY <1>1, <1>2, TasksAre DEF WorkBudget, Tasks
  <2>2. QED
    BY <1>2, <1>3, <2>1, BecameAt
<1>8. WorkBudget(journal[t], state[t], plan', "accept", at[t], crashes)
  <2>1. ASSUME NEW x \in StepIds(p)
        PROVE  /\ Asked(journal[t], x) = {}
               /\ Cardinality(WorkersOf(journal[t], plan', x)) = 0
    <3>1. x # None
      BY <1>4, PlansAre
    <3>2. Asked(journal[t], x) = {}
      BY <1>5, <3>1
    <3>3. StepIds(NoPlan) = {}
      BY PlansAre
    <3>4. WorkersOf(journal[t], plan', x) = {}
      BY <1>7, <3>2, <3>3, TasksAre DEF WorkersOf
    <3>5. QED
      BY <3>2, <3>4, FS_EmptySet
  <2>2. crashes \in Nat /\ 0 <= crashes /\ 0 <= crashes + 1
    BY Numbers
  <2>3. QED
    BY <1>7, <2>1, <2>2 DEF WorkBudget
<1>9. ASSUME NEW u \in Tasks PROVE CallsOf(u, journal'[u], plan'[u])
  <2>1. CallsOf(u, journal[u], plan[u])
    BY DEF Budgeted
  <2>2. QED
    BY <1>2, <1>3, <2>1, BecameAt DEF CallsOf
<1>10. RootBudget(journal'[Root], state'[Root], plan', pc'[Root], at'[Root], crashes')
  <2>1. RootBudget(journal[t], state[t], plan', "accept", at[t], crashes)
    BY <1>6, <1>8 DEF RootBudget
  <2>2. QED
    BY <1>1, <1>2, <1>3, <2>1, BecameAt
<1>11. QED
  BY <1>9, <1>10 DEF Budgeted

\* What the budgets say of the task while it works.
LEMMA RootWorks ==
  ASSUME Shaped, Ordered, Budgeted, NEW t \in Tasks, t = Root, state[t] = "Implementing",
         pc[t] \notin {"off", "move"}
  PROVE  /\ journal[t] \in Seq(Entries) /\ at[t] \in Locals
         /\ PlanningBudget(journal[t], state[t], pc[t], at[t], crashes)
         /\ WorkBudget(journal[t], state[t], plan, pc[t], at[t], crashes)
         /\ CallsOf(t, journal[t], plan[t])
         /\ None \notin StepIds(plan[t]) /\ ~Over(state[t], pc[t], at[t])
BY TaskTyped, Named, NotOver DEF Budgeted, RootBudget

LEMMA PlanningOver ==
  ASSUME NEW j, NEW k, NEW c, NEW l, NEW d, NEW m, NEW n,
         PlanningBudget(j, "Implementing", c, l, n), d \notin PlanningAt,
         PlanRejectionCount(k) = PlanRejectionCount(j), Asked(k, None) = Asked(j, None)
  PROVE  PlanningBudget(k, "Implementing", d, m, n)
BY DEF PlanningBudget

LEMMA BeginStepBudgeted ==
  ASSUME Shaped, Ordered, Budgeted, NEW t \in Tasks, BeginStep(t)
  PROVE  Budgeted'
<1> DEFINE l == WithStep(at[t], NextStep(t))
<1>1. /\ Becomes(t, journal[t], state[t], plan[t], "begin", l, verdict[t]) /\ UNCHANGED crashes
      /\ state[t] = "Implementing" /\ pc[t] = "top" /\ Len(RestOfGroup(t)) = 1
  BY BeginStepIs DEF BeginStep, Undisturbed, MayWork, AtStep
<1>2. l.step = NextStep(t)
  <2>1. NextStep(t) \in Names
    <3>1. NextStep(t) \in StepIds(plan[t])
      BY NextStepReady DEF BeginStep
    <3>2. QED
      BY <3>1, TaskTyped, PlansAre
  <2>2. QED
    BY <2>1, TaskTyped, WithStepIs
<1> HIDE DEF l
<1>3. ASSUME t = Root PROVE RootBudget(journal[t], state[t], plan, "begin", l, crashes)
  <2>1. /\ PlanningBudget(journal[t], state[t], pc[t], at[t], crashes)
        /\ WorkBudget(journal[t], state[t], plan, pc[t], at[t], crashes)
        /\ ~Over(state[t], pc[t], at[t])
    BY <1>1, <1>3, RootWorks
  <2>2. PlanningBudget(journal[t], state[t], "begin", l, crashes)
    <3>1. "begin" \notin PlanningAt
      BY DEF PlanningAt
    <3>2. QED
      BY <1>1, <2>1, <3>1, PlanningOver
  <2>3. Alone(plan[Root], CompletedPlanSteps(journal[t]), l.step)
    BY <1>1, <1>2, <1>3 DEF Alone, NextStep, RestOfGroup
  <2>4. WorkBudget(journal[t], state[t], plan, "begin", l, crashes)
    <3>1. \A x : ~Begotten(pc[t], at[t], x)
      BY <1>1 DEF Begotten
    <3>2. QED
      BY <1>1, <2>1, <2>3, <3>1 DEF WorkBudget
  <2>5. QED
    BY <2>2, <2>4 DEF RootBudget
<1>4. QED
  BY <1>1, <1>3, BudgetedBecomes DEF Budgeted

LEMMA BeginWaveBudgeted ==
  ASSUME Shaped, Ordered, Budgeted, NEW t \in Tasks, BeginWave(t)
  PROVE  Budgeted'
<1> DEFINE l == WithTodo(at[t], WaveChunks(RestOfGroup(t), plan[t], MaxParallel))
<1>1. /\ Becomes(t, journal[t], state[t], plan[t], "wave", l, verdict[t]) /\ UNCHANGED crashes
      /\ state[t] = "Implementing" /\ pc[t] = "top" /\ Len(RestOfGroup(t)) > 1
  BY BeginWaveIs DEF BeginWave, Undisturbed, MayWork, AtStep
<1>2. t = Root
  BY RootWaves DEF BeginWave
<1>3. l.kids = <<>>
  <2>1. at[t] \in Locals /\ at[t] = Idle
    BY <1>1, TaskTyped DEF ShapeOf
  <2>2. QED
    BY <2>1 DEF WithTodo, Locals, Idle
<1> HIDE DEF l
<1>4. /\ PlanningBudget(journal[t], state[t], pc[t], at[t], crashes)
      /\ WorkBudget(journal[t], state[t], plan, pc[t], at[t], crashes)
      /\ ~Over(state[t], pc[t], at[t])
  BY <1>1, <1>2, RootWorks
<1>5. PlanningBudget(journal[t], state[t], "wave", l, crashes)
  <2>1. "wave" \notin PlanningAt
    BY DEF PlanningAt
  <2>2. QED
    BY <1>1, <1>4, <2>1, PlanningOver
<1>6. ASSUME NEW x \in StepIds(plan[Root]) \ CompletedPlanSteps(journal[t])
      PROVE  Asked(journal[t], x) = {}
  <2>1. SUFFICES ASSUME Alone(plan[Root], CompletedPlanSteps(journal[t]), x) PROVE FALSE
    BY <1>4 DEF WorkBudget
  <2>2. x = NextStep(t)
    BY <1>2, <2>1 DEF Alone, NextStep
  <2>3. Len(RestOfGroup(t)) = 1
    BY <1>2, <2>1, <2>2 DEF Alone, RestOfGroup
  <2>4. QED
    BY <1>1, <2>3
<1>7. WorkBudget(journal[t], state[t], plan, "wave", l, crashes)
  <2>1. \A x : ~Begotten(pc[t], at[t], x)
    BY <1>1 DEF Begotten
  <2>2. QED
    BY <1>1, <1>4, <1>6, <2>1 DEF WorkBudget
<1>8. QED
  BY <1>1, <1>5, <1>7, BudgetedBecomes DEF Budgeted, RootBudget

\* The step in hand is the only one that asked and is not complete.
LEMMA StepCompletedBudgeted ==
  ASSUME Shaped, Ordered, Budgeted, NEW t \in Tasks, pc[t] \in {"begin", "act"},
         NEW e, e.kind = "plan_step_completed", e.step = at[t].step,
         Becomes(t, Append(journal[t], e), state[t], plan[t], "top", Idle, verdict[t]),
         UNCHANGED crashes
  PROVE  Budgeted'
<1> DEFINE j == Append(journal[t], e)
<1>1. journal[t] \in Seq(Entries) /\ state[t] = "Implementing" /\ CallsOf(t, journal[t], plan[t])
  BY TaskTyped DEF ShapeOf, WorkingAt, Budgeted
<1>2. CallsOf(t, j, plan[t])
  BY <1>1, CallsKept
<1>3. PlanRejectionCount(j) = PlanRejectionCount(journal[t])
  <2>1. Places(j, {"plan_rejected"})
          = Places(journal[t], {"plan_rejected"})
              \union (IF e.kind \in {"plan_rejected"} THEN {Len(journal[t]) + 1} ELSE {})
    BY <1>1, AnyAppended
  <2>2. QED
    BY <2>1 DEF PlanRejectionCount
<1>4. \A x : Asked(j, x) = Asked(journal[t], x)
  <2>1. \A x : PlacesFor(j, {"model_call"}, x)
                 = PlacesFor(journal[t], {"model_call"}, x)
                     \union (IF e.kind \in {"model_call"} /\ e.step = x THEN {Len(journal[t]) + 1} ELSE {})
    BY <1>1, PlacesForAppended
  <2>2. e.kind \notin {"model_call"}
    OBVIOUS
  <2>3. QED
    BY <2>1, <2>2 DEF Asked
<1>5. CompletedPlanSteps(j) = CompletedPlanSteps(journal[t]) \union {at[t].step}
  BY <1>1, CompletedAppended
<1> HIDE DEF j
<1>6. ASSUME t = Root PROVE RootBudget(j, state[t], plan, "top", Idle, crashes)
  <2>1. /\ PlanningBudget(journal[t], state[t], pc[t], at[t], crashes)
        /\ WorkBudget(journal[t], state[t], plan, pc[t], at[t], crashes)
        /\ ~Over(state[t], pc[t], at[t])
    BY <1>1, <1>6, RootWorks
  <2>2. PlanningBudget(j, state[t], "top", Idle, crashes)
    <3>1. "top" \notin PlanningAt
      BY DEF PlanningAt
    <3>2. QED
      BY <1>1, <1>3, <1>4, <2>1, <3>1, PlanningOver
  <2>3. \A x : WorkersOf(j, plan, x) = WorkersOf(journal[t], plan, x)
    BY <1>4 DEF WorkersOf
  <2>4. Alone(plan[Root], CompletedPlanSteps(journal[t]), at[t].step)
    BY <2>1 DEF WorkBudget
  <2>5. ASSUME NEW x \in StepIds(plan[Root]) \ CompletedPlanSteps(j)
        PROVE  Asked(j, x) = {}
    <3>1. SUFFICES ASSUME Alone(plan[Root], CompletedPlanSteps(journal[t]), x) PROVE FALSE
      BY <1>4, <1>5, <2>1 DEF WorkBudget
    <3>2. x = at[t].step
      BY <2>4, <3>1 DEF Alone
    <3>3. QED
      BY <1>5, <3>2
  <2>6. \A x : ~Begotten(pc[t], at[t], x)
    BY DEF Begotten
  <2>7. WorkBudget(j, state[t], plan, "top", Idle, crashes)
    <3>1. StepIds(plan[Root]) \ CompletedPlanSteps(j) \subseteq StepIds(plan[Root]) \ CompletedPlanSteps(journal[t])
      BY <1>5
    <3>2. QED
      BY <1>1, <1>4, <2>1, <2>3, <2>5, <2>6, <3>1 DEF WorkBudget
  <2>8. QED
    BY <2>2, <2>7 DEF RootBudget
<1>7. Becomes(t, j, state[t], plan[t], "top", Idle, verdict[t])
  BY DEF j
<1>8. QED
  BY <1>2, <1>6, <1>7, BudgetedBecomes

LEMMA ForceCompleteBudgeted ==
  ASSUME Shaped, Ordered, Budgeted, NEW t \in Tasks, ForceComplete(t)
  PROVE  Budgeted'
<1> DEFINE e == About("plan_step_completed", at[t].step)
<1>1. e.kind = "plan_step_completed" /\ e.step = at[t].step /\ pc[t] \in {"begin", "act"}
  BY AreQuiet DEF ForceComplete, Begun
<1>2. Becomes(t, Append(journal[t], e), state[t], plan[t], "top", Idle, verdict[t]) /\ UNCHANGED crashes
  BY ForceCompleteIs
<1> HIDE DEF e
<1>3. QED
  BY <1>1, <1>2, StepCompletedBudgeted

LEMMA FinishStepBudgeted ==
  ASSUME Shaped, Ordered, Budgeted, NEW t \in Tasks, FinishStep(t)
  PROVE  Budgeted'
<1> DEFINE e == About("plan_step_completed", at[t].step)
<1>1. e.kind = "plan_step_completed" /\ e.step = at[t].step /\ pc[t] \in {"begin", "act"}
  BY AreQuiet DEF FinishStep
<1>2. Becomes(t, Append(journal[t], e), state[t], plan[t], "top", Idle, verdict[t]) /\ UNCHANGED crashes
  BY FinishStepIs
<1> HIDE DEF e
<1>3. QED
  BY <1>1, <1>2, StepCompletedBudgeted

\* Every call for a step comes after its start, so a task's turns in a step
\* are its calls for it.
LEMMA TurnsAreCalls ==
  ASSUME NEW t \in Tasks, NEW j \in Seq(Entries), NEW p, CallsOf(t, j, p), NEW x, x # None, StepStarted(j, x)
  PROVE  ModelTurnsForStep(j, x) = Cardinality(Asked(j, x))
<1> DEFINE S == PlacesFor(j, {"plan_step_started"}, x)
           start == FirstOf(S)
<1>1. S \in SUBSET Nat /\ 0 \notin S /\ S # {}
  BY PlacesForAre DEF StepStarted
<1>2. start \in Nat /\ start # 0 /\ \A k \in S : start <= k
  <2> HIDE DEF S
  <2> QED BY <1>1, FirstOfIs
<1>3. ASSUME NEW i \in Asked(j, x) PROVE i > start
  <2>1. i \in Places(j, {"model_call"}) /\ j[i].step = x /\ i \in Nat
    BY PlacesForAre DEF Asked, PlacesFor
  <2>2. PICK k \in S : k < i
    BY <2>1 DEF CallsOf
  <2>3. start <= k /\ k \in Nat
    BY <1>1, <1>2
  <2> HIDE DEF S, start
  <2>4. QED
    BY <1>2, <2>1, <2>2, <2>3
<1>4. {i \in PlacesFor(j, {"model_call"}, x) : i > start} = Asked(j, x)
  BY <1>3 DEF Asked
<1>5. QED
  BY <1>2, <1>4 DEF ModelTurnsForStep

LEMMA CallMade ==
  ASSUME NEW t \in Tasks, NEW j \in Seq(Entries), NEW p, CallsOf(t, j, p), NEW x \in StepIds(p), x # None,
         StepStarted(j, x), Cardinality(Asked(j, x)) < MaxTurns,
         NEW e, e.kind = "model_call", e.step = x
  PROVE  CallsOf(t, Append(j, e), p)
<1> DEFINE q == Append(j, e)
<1>0. Asked(q, x) = Asked(j, x) \union {Len(j) + 1}
  <2>1. PlacesFor(q, {"model_call"}, x)
          = PlacesFor(j, {"model_call"}, x)
              \union (IF e.kind \in {"model_call"} /\ e.step = x THEN {Len(j) + 1} ELSE {})
    BY PlacesForAppended
  <2>2. QED
    BY <2>1 DEF Asked
<1>1. Cardinality(Asked(q, x)) <= MaxTurns
  <2>1. Cardinality(PlacesFor(q, {"model_call"}, x))
          = Cardinality(PlacesFor(j, {"model_call"}, x))
              + (IF e.kind \in {"model_call"} /\ e.step = x THEN 1 ELSE 0)
    BY CountAppended
  <2>2. Cardinality(Asked(q, x)) = Cardinality(Asked(j, x)) + 1
    BY <2>1 DEF Asked
  <2>3. Cardinality(Asked(j, x)) \in Nat /\ MaxTurns \in Nat
    BY Counted, PlanStepsAssumption DEF Asked
  <2> HIDE DEF q
  <2>4. QED
    BY <2>2, <2>3
<1>2. PlacesFor(j, {"plan_step_started"}, x) # {} /\ PlacesFor(j, {"plan_step_started"}, x) \subseteq DOMAIN j
  BY PlacesForAre DEF StepStarted
<1>3. \A s : PlacesFor(j, {"plan_step_started"}, s) \subseteq PlacesFor(q, {"plan_step_started"}, s)
  BY PlacesForAppended
<1>4. /\ q[Len(j) + 1] = e /\ \A i \in DOMAIN j : q[i] = j[i] /\ i < Len(j) + 1
      /\ Places(q, {"model_call"}) = Places(j, {"model_call"}) \union {Len(j) + 1}
      /\ Places(j, {"model_call"}) \subseteq DOMAIN j
  <2>1. Places(q, {"model_call"})
          = Places(j, {"model_call"}) \union (IF e.kind \in {"model_call"} THEN {Len(j) + 1} ELSE {})
    BY AnyAppended
  <2>2. Places(j, {"model_call"}) \subseteq DOMAIN j
    BY PlacesAre
  <2>3. q[Len(j) + 1] = e /\ \A i \in DOMAIN j : q[i] = j[i] /\ i < Len(j) + 1
    BY AnyAppended
  <2>4. QED
    BY <2>1, <2>2, <2>3
<1>5. ASSUME NEW y, y # x PROVE Asked(q, y) = Asked(j, y)
  <2>1. PlacesFor(q, {"model_call"}, y)
          = PlacesFor(j, {"model_call"}, y)
              \union (IF e.kind \in {"model_call"} /\ e.step = y THEN {Len(j) + 1} ELSE {})
    BY PlacesForAppended
  <2>2. QED
    BY <1>5, <2>1 DEF Asked
<1> HIDE DEF q
<1>6. ASSUME NEW i \in Places(q, {"model_call"}), q[i].step # None
      PROVE  /\ t # Root => q[i].step \in StepIds(p)
             /\ \E k \in PlacesFor(q, {"plan_step_started"}, q[i].step) : k < i
             /\ Cardinality(Asked(q, q[i].step)) <= MaxTurns
  <2>1. CASE i = Len(j) + 1
    <3>1. q[i] = e
      BY <1>4, <2>1
    <3>2. PICK k \in PlacesFor(j, {"plan_step_started"}, x) : k \in DOMAIN j
      BY <1>2
    <3>3. k < i /\ k \in PlacesFor(q, {"plan_step_started"}, x)
      BY <1>3, <1>4, <2>1, <3>2
    <3>4. QED
      BY <1>1, <3>1, <3>3
  <2>2. CASE i \in Places(j, {"model_call"})
    <3>1. q[i] = j[i]
      BY <1>4, <2>2
    <3>2. /\ t # Root => j[i].step \in StepIds(p)
          /\ \E k \in PlacesFor(j, {"plan_step_started"}, j[i].step) : k < i
          /\ Cardinality(Asked(j, j[i].step)) <= MaxTurns
      BY <1>6, <2>2, <3>1 DEF CallsOf
    <3>3. Cardinality(Asked(q, j[i].step)) <= MaxTurns
      <4>1. CASE j[i].step = x
        BY <1>1, <4>1
      <4>2. CASE j[i].step # x
        BY <1>5, <3>2, <4>2
      <4>3. QED
        BY <4>1, <4>2
    <3>4. \E k \in PlacesFor(q, {"plan_step_started"}, j[i].step) : k < i
      BY <1>3, <3>2
    <3>5. QED
      BY <3>1, <3>2, <3>3, <3>4
  <2>3. QED
    BY <1>4, <2>1, <2>2
<1>7. CallsOf(t, q, p)
  BY <1>6 DEF CallsOf
<1>8. QED
  BY <1>7 DEF q

\* The task becomes a worker of the step it asks about first.
LEMMA RequestActionBudgeted ==
  ASSUME Shaped, Ordered, Budgeted, NEW t \in Tasks, RequestAction(t)
  PROVE  Budgeted'
<1> DEFINE x == at[t].step
           e == Entry("model_call", x, Nothing, CountModelCalls(journal[t]), 0)
           j == Append(journal[t], e)
<1>1. /\ Becomes(t, j, state[t], plan[t], "call", at[t], verdict[t]) /\ UNCHANGED crashes
      /\ pc[t] = "begin" /\ StepStarted(journal[t], x) /\ ModelTurnsForStep(journal[t], x) < MaxTurns
  BY RequestActionIs DEF RequestAction, Begun
<1>2. /\ journal[t] \in Seq(Entries) /\ state[t] = "Implementing" /\ CallsOf(t, journal[t], plan[t])
      /\ x \in StepIds(plan[t]) /\ x # None
  <2>1. x \in StepIds(plan[t]) /\ state[t] = "Implementing"
    BY <1>1, TaskTyped DEF ShapeOf, WorkingAt
  <2>2. QED
    BY <2>1, TaskTyped, Named DEF Budgeted
<1>3. e.kind = "model_call" /\ e.step = x
  BY AreQuiet
<1> HIDE DEF e, x
<1>4. CallsOf(t, j, plan[t])
  <2>1. Cardinality(Asked(journal[t], x)) < MaxTurns
    BY <1>1, <1>2, TurnsAreCalls
  <2>2. QED
    BY <1>1, <1>2, <1>3, <2>1, CallMade
<1>5. PlanRejectionCount(j) = PlanRejectionCount(journal[t])
  <2>1. Places(j, {"plan_rejected"})
          = Places(journal[t], {"plan_rejected"})
              \union (IF e.kind \in {"plan_rejected"} THEN {Len(journal[t]) + 1} ELSE {})
    BY <1>2, AnyAppended
  <2>2. QED
    BY <1>3, <2>1 DEF PlanRejectionCount
<1>6. /\ \A y : y # x => Asked(j, y) = Asked(journal[t], y)
      /\ Asked(j, x) # {}
  <2>1. \A y : PlacesFor(j, {"model_call"}, y)
                 = PlacesFor(journal[t], {"model_call"}, y)
                     \union (IF e.kind \in {"model_call"} /\ e.step = y THEN {Len(journal[t]) + 1} ELSE {})
    BY <1>2, PlacesForAppended
  <2>2. ASSUME NEW y, y # x PROVE Asked(j, y) = Asked(journal[t], y)
    BY <1>3, <2>1, <2>2 DEF Asked
  <2>3. Asked(j, x) = Asked(journal[t], x) \union {Len(journal[t]) + 1}
    BY <1>3, <2>1 DEF Asked
  <2>4. QED
    BY <2>2, <2>3
<1>7. CompletedPlanSteps(j) = CompletedPlanSteps(journal[t])
  BY <1>2, <1>3, CompletedAppended
<1> HIDE DEF j
<1>8. ASSUME t = Root PROVE RootBudget(j, state[t], plan, "call", at[t], crashes)
  <2>1. /\ PlanningBudget(journal[t], state[t], pc[t], at[t], crashes)
        /\ WorkBudget(journal[t], state[t], plan, pc[t], at[t], crashes)
        /\ ~Over(state[t], pc[t], at[t])
    BY <1>1, <1>2, <1>8, RootWorks
  <2>2. PlanningBudget(j, state[t], "call", at[t], crashes)
    <3>1. "call" \notin PlanningAt
      BY DEF PlanningAt
    <3>2. QED
      BY <1>2, <1>5, <1>6, <2>1, <3>1, PlanningOver
  <2>3. /\ Alone(plan[Root], CompletedPlanSteps(journal[t]), x)
        /\ x \notin CompletedPlanSteps(journal[t])
    BY <1>1, <1>8, <2>1, StepInHand DEF WorkBudget, Doable, x
  <2>4. \A y : y # x => WorkersOf(j, plan, y) = WorkersOf(journal[t], plan, y)
    BY <1>6 DEF WorkersOf
  <2>5. Cardinality(WorkersOf(j, plan, x)) <= crashes + 1
    <3> DEFINE W == WorkersOf(journal[t], plan, x)
    <3>1. IsFiniteSet(W) /\ Cardinality(W) \in Nat /\ crashes \in Nat
      BY WorkersTyped, Numbers
    <3>2. CASE Asked(journal[t], x) # {}
      <4>1. WorkersOf(j, plan, x) = W
        BY <1>6, <3>2 DEF WorkersOf
      <4>2. QED
        BY <1>2, <1>8, <2>1, <4>1 DEF WorkBudget
    <3>3. CASE Asked(journal[t], x) = {}
      <4>1. Cardinality(W) <= crashes
        <5>1. ~Begotten(pc[t], at[t], x)
          BY <1>1 DEF Begotten
        <5>2. QED
          BY <1>2, <1>8, <2>1, <2>3, <3>3, <5>1 DEF WorkBudget
      <4>2. WorkersOf(j, plan, x) = W \union {Root} /\ Root \notin W
        BY <1>6, <3>3, TasksAre DEF WorkersOf
      <4> HIDE DEF W
      <4>3. Cardinality(W \union {Root}) = Cardinality(W) + 1
        BY <3>1, <4>2, FS_AddElement
      <4>4. QED
        BY <3>1, <4>1, <4>2, <4>3
    <3>4. QED
      BY <3>2, <3>3
  <2>6. \A y : ~Begotten(pc[t], at[t], y) /\ ~Begotten("call", at[t], y)
    BY <1>1 DEF Begotten
  <2>7. ASSUME NEW y \in StepIds(plan[Root]) \ CompletedPlanSteps(j), Asked(j, y) # {}
        PROVE  Alone(plan[Root], CompletedPlanSteps(j), y)
    <3>1. CASE y = x
      BY <1>7, <2>3, <3>1
    <3>2. CASE y # x
      BY <1>6, <1>7, <2>1, <2>7, <3>2 DEF WorkBudget
    <3>3. QED
      BY <3>1, <3>2
  <2>8. ASSUME NEW y \in StepIds(plan[Root])
        PROVE  Cardinality(WorkersOf(j, plan, y)) <= crashes + 1
    <3>1. CASE y = x
      BY <2>5, <3>1
    <3>2. CASE y # x
      BY <2>1, <2>4, <3>2 DEF WorkBudget
    <3>3. QED
      BY <3>1, <3>2
  <2>9. ASSUME NEW y \in StepIds(plan[Root]) \ CompletedPlanSteps(j), Asked(j, y) = {}
        PROVE  Cardinality(WorkersOf(j, plan, y)) <= crashes
    <3>1. y # x
      BY <1>6, <2>9
    <3>2. QED
      BY <1>6, <1>7, <2>1, <2>4, <2>6, <2>9, <3>1 DEF WorkBudget
  <2>10. WorkBudget(j, state[t], plan, "call", at[t], crashes)
    <3>1. Alone(plan[Root], CompletedPlanSteps(j), at[t].step)
      BY <1>7, <2>3 DEF x
    <3>2. QED
      BY <1>2, <2>7, <2>8, <2>9, <3>1 DEF WorkBudget
  <2>11. QED
    BY <2>2, <2>10 DEF RootBudget
<1>9. QED
  BY <1>1, <1>4, <1>8, BudgetedBecomes

\* A wave creates a worker for a step that had one less while it waited.
LEMMA SpawnChildBudgeted ==
  ASSUME Shaped, Ordered, Budgeted, NEW t \in Tasks, SpawnChild(t)
  PROVE  Budgeted'
<1> DEFINE s == SpawnedFor
           e == About("subtask_started", s)
           w == at[Root].todo
           K == at[Root].kids
           j == journal[Root]
           q == Append(j, e)
<1>1. /\ t = Root /\ pc[Root] = "wave" /\ w # <<>> /\ Len(K) < Len(Head(w))
      /\ s \in StepIds(plan[Root]) /\ Len(K) + 1 \in DOMAIN Head(w) /\ UNCHANGED crashes
  BY SpawnChildIs
<1>2. PICK c \in Children : state[c] = "None" /\ Spawns(c, s)
  BY SpawnChildIs
<1>3. /\ state[Root] = "Implementing" /\ j \in Seq(Entries) /\ Apart(w)
      /\ w \in Seq(Seq(StepIds(plan[Root]))) /\ K \in Seq(Children)
      /\ \A k \in DOMAIN w : \A x \in ToSet(w[k]) : Doable(j, plan[Root], x)
  BY <1>1, WaveInHand
<1>4. 1 \in DOMAIN w /\ Head(w) = w[1] /\ s = w[1][Len(K) + 1] /\ Len(K) + 1 \in DOMAIN w[1]
  <2>1. 1 \in DOMAIN w /\ Head(w) = w[1]
    BY <1>1, <1>3
  <2>2. QED
    BY <1>1, <2>1 DEF SpawnedFor
<1>5. s \notin CompletedPlanSteps(j)
  BY <1>3, <1>4 DEF ToSet, Doable
<1>6. /\ c # Root /\ c \in Tasks /\ Root \in Tasks
      /\ journal'[Root] = q /\ state'[Root] = state[Root] /\ plan'[Root] = plan[Root]
      /\ pc'[Root] = pc[Root] /\ at'[Root] = WithKids(at[Root], Append(K, c))
      /\ journal'[c] = journal[c] /\ plan'[c] = SoloPlan(plan[Root], s)
      /\ \A u \in Tasks : u # c /\ u # Root => journal'[u] = journal[u] /\ plan'[u] = plan[u]
  BY <1>2, SpawnedAt
<1>7. journal[c] = <<>> /\ plan[c] = NoPlan
  BY <1>2, <1>6, TaskTyped DEF ShapeOf
<1>8. StepIds(SoloPlan(plan[Root], s)) = {s} /\ StepIds(NoPlan) = {}
  BY <1>1, <1>6, TaskTyped, PlansAre, SoloIs
<1> DEFINE l == WithKids(at[Root], Append(K, c))
<1>9. l.kids = Append(K, c) /\ l.todo = w
  <2>1. Append(K, c) \in Seq(Children) /\ at[Root] \in Locals
    BY <1>3, <1>6, TaskTyped
  <2>2. QED
    BY <2>1, WithKidsIs
<1>10. Alike(j, q) /\ CallsOf(Root, q, plan[Root])
  <2>1. Mutely(j, q)
    BY AreNeutral DEF Mutely
  <2>2. CallsOf(Root, j, plan[Root])
    BY <1>6 DEF Budgeted
  <2>3. QED
    BY <1>3, <1>6, <2>1, <2>2, MutelyKeeps
<1>11. /\ PlanningBudget(j, state[Root], pc[Root], at[Root], crashes)
       /\ WorkBudget(j, state[Root], plan, pc[Root], at[Root], crashes)
  BY DEF Budgeted, RootBudget
<1>12. ~Over(state[Root], pc[Root], at[Root])
  BY <1>1, <1>6, NotOver
<1> HIDE DEF s, e, w, K, j, q, l
<1>13. CompletedPlanSteps(q) = CompletedPlanSteps(j) /\ \A x : Asked(q, x) = Asked(j, x)
  BY <1>10 DEF Alike
<1>14. /\ \A x : x # s => WorkersOf(q, plan', x) = WorkersOf(j, plan, x)
       /\ WorkersOf(q, plan', s) = WorkersOf(j, plan, s) \union {c} /\ c \notin WorkersOf(j, plan, s)
  <2>1. ASSUME NEW x, NEW u \in Tasks, u # c
        PROVE  u \in WorkersOf(q, plan', x) <=> u \in WorkersOf(j, plan, x)
    BY <1>6, <1>13, <2>1 DEF WorkersOf
  <2>2. \A x : c \in WorkersOf(q, plan', x) <=> x = s
    BY <1>6, <1>8 DEF WorkersOf
  <2>3. \A x : c \notin WorkersOf(j, plan, x)
    BY <1>6, <1>7, <1>8 DEF WorkersOf
  <2>4. \A x : WorkersOf(q, plan', x) \subseteq Tasks /\ WorkersOf(j, plan, x) \subseteq Tasks
    BY DEF WorkersOf
  <2>5. QED
    BY <1>6, <2>1, <2>2, <2>3, <2>4
<1>15. Asked(j, s) = {}
  BY <1>1, <1>5, <1>11 DEF WorkBudget
<1>16. ~Begotten(pc[Root], at[Root], s)
  <2>1. SUFFICES ASSUME NEW i \in 1 .. Len(K), w[1][i] = s PROVE FALSE
    BY DEF Begotten, K, w
  <2>2. w[1] \in Seq(StepIds(plan[Root]))
    BY <1>3, <1>4
  <2>3. i \in DOMAIN w[1] /\ i # Len(K) + 1
    BY <1>3, <1>4, <2>2
  <2>4. QED
    BY <1>3, <1>4, <2>1, <2>3 DEF Apart
<1>17. Cardinality(WorkersOf(j, plan, s)) <= crashes
  BY <1>1, <1>5, <1>11, <1>12, <1>15, <1>16 DEF WorkBudget
<1>18. Cardinality(WorkersOf(q, plan', s)) <= crashes + 1
  <2>1. /\ IsFiniteSet(WorkersOf(j, plan, s)) /\ Cardinality(WorkersOf(j, plan, s)) \in Nat
        /\ crashes \in Nat
    BY WorkersTyped, Numbers
  <2>2. Cardinality(WorkersOf(q, plan', s)) = Cardinality(WorkersOf(j, plan, s)) + 1
    BY <1>14, <2>1, FS_AddElement
  <2>3. QED
    BY <1>17, <2>1, <2>2
<1>19. /\ Begotten("wave", l, s)
       /\ \A x : Begotten(pc[Root], at[Root], x) => Begotten("wave", l, x)
  <2>1. /\ Len(Append(K, c)) = Len(K) + 1 /\ Len(K) \in Nat
        /\ Len(K) + 1 \in 1 .. Len(K) + 1 /\ 1 .. Len(K) \subseteq 1 .. Len(K) + 1
    BY <1>3
  <2>2. Begotten("wave", l, s)
    BY <1>4, <1>9, <2>1 DEF Begotten
  <2>3. ASSUME NEW x, NEW i \in 1 .. Len(K), w[1][i] = x PROVE Begotten("wave", l, x)
    BY <1>9, <2>1, <2>3 DEF Begotten
  <2>4. QED
    BY <2>2, <2>3 DEF Begotten, K, w
<1>20. PlanningBudget(q, state[Root], "wave", l, crashes)
  <2>1. "wave" \notin PlanningAt
    BY DEF PlanningAt
  <2>2. QED
    BY <1>3, <1>10, <1>11, <2>1, PlanningOver DEF Alike
<1>21. WorkBudget(q, state[Root], plan', "wave", l, crashes)
  <2>1. ASSUME NEW x \in StepIds(plan[Root]) \ CompletedPlanSteps(q)
        PROVE  Asked(q, x) = {}
    BY <1>1, <1>11, <1>13 DEF WorkBudget
  <2>2. ASSUME NEW x \in StepIds(plan[Root])
        PROVE  Cardinality(WorkersOf(q, plan', x)) <= crashes + 1
    <3>1. CASE x = s
      BY <1>18, <3>1
    <3>2. CASE x # s
      BY <1>11, <1>14, <3>2 DEF WorkBudget
    <3>3. QED
      BY <3>1, <3>2
  <2>3. ASSUME NEW x \in StepIds(plan[Root]) \ CompletedPlanSteps(q), ~Begotten("wave", l, x)
        PROVE  Cardinality(WorkersOf(q, plan', x)) <= crashes
    <3>1. x # s /\ ~Begotten(pc[Root], at[Root], x) /\ Asked(j, x) = {}
      BY <1>13, <1>19, <2>1, <2>3
    <3>2. Cardinality(WorkersOf(j, plan, x)) <= crashes
      BY <1>11, <1>12, <1>13, <3>1 DEF WorkBudget
    <3>3. QED
      BY <1>14, <3>1, <3>2
  <2>4. QED
    BY <1>3, <1>6, <2>1, <2>2, <2>3 DEF WorkBudget
<1>22. ASSUME NEW u \in Tasks PROVE CallsOf(u, journal'[u], plan'[u])
  <2>1. CASE u = Root
    BY <1>6, <1>10, <2>1
  <2>2. CASE u = c
    <3>1. Places(<<>>, {"model_call"}) = {}
      BY DEF Places
    <3>2. QED
      BY <1>6, <1>7, <2>2, <3>1 DEF CallsOf
  <2>3. CASE u # Root /\ u # c
    BY <1>6, <2>3 DEF Budgeted
  <2>4. QED
    BY <2>1, <2>2, <2>3
<1>23. RootBudget(journal'[Root], state'[Root], plan', pc'[Root], at'[Root], crashes')
  BY <1>1, <1>6, <1>20, <1>21 DEF RootBudget, l
<1>24. QED
  BY <1>22, <1>23 DEF Budgeted

\* What the rest of a wave has created children for.
LEMMA FoldCompleteBudgeted ==
  ASSUME Shaped, Ordered, Budgeted, NEW t \in Tasks, FoldComplete(t)
  PROVE  Budgeted'
<1> DEFINE e == About("plan_step_completed", Folded(t))
           w == at[t].todo
           K == at[t].kids
           l == LessOne(at[t])
           j == journal[t]
           q == Append(j, e)
<1>1. Becomes(t, q, state[t], plan[t], pc[t], l, verdict[t]) /\ UNCHANGED crashes
  BY FoldCompleteIs
<1>2. e.kind = "plan_step_completed" /\ e.step = Folded(t)
  BY AreQuiet
<1>3. pc[t] = "fold" /\ Folding(t)
  BY DEF FoldComplete, Folding
<1>4. t = Root /\ Folded(t) = w[1][1] /\ 1 \in DOMAIN w
  BY <1>3, FoldInHand
<1>5. /\ w \in Seq(Seq(Names)) /\ w # <<>> /\ Head(w) \in Seq(Names) /\ Head(w) # <<>>
      /\ K \in Seq(Children) /\ K # <<>> /\ Len(K) = Len(Head(w))
  BY <1>3, FoldedIs
<1>6. state[t] = "Implementing" /\ j \in Seq(Entries)
  BY <1>3, WaveInHand
<1>7. l.kids = Tail(K) /\ l.todo = <<Tail(Head(w))>> \o Tail(w)
  BY <1>5, TaskTyped, LessOneIs
<1>8. /\ PlanningBudget(j, state[t], pc[t], at[t], crashes)
      /\ WorkBudget(j, state[t], plan, pc[t], at[t], crashes)
      /\ CallsOf(t, j, plan[t]) /\ ~Over(state[t], pc[t], at[t])
  BY <1>3, <1>4, <1>6, RootWorks
<1> HIDE DEF e
<1>9. CallsOf(t, q, plan[t])
  BY <1>2, <1>6, <1>8, CallsKept
<1>10. PlanRejectionCount(q) = PlanRejectionCount(j)
  <2>1. Places(q, {"plan_rejected"})
          = Places(j, {"plan_rejected"}) \union (IF e.kind \in {"plan_rejected"} THEN {Len(j) + 1} ELSE {})
    BY <1>6, AnyAppended
  <2>2. QED
    BY <1>2, <2>1 DEF PlanRejectionCount
<1>11. \A x : Asked(q, x) = Asked(j, x)
  <2>1. \A x : PlacesFor(q, {"model_call"}, x)
                 = PlacesFor(j, {"model_call"}, x)
                     \union (IF e.kind \in {"model_call"} /\ e.step = x THEN {Len(j) + 1} ELSE {})
    BY <1>6, PlacesForAppended
  <2>2. e.kind \notin {"model_call"}
    BY <1>2
  <2>3. QED
    BY <2>1, <2>2 DEF Asked
<1>12. CompletedPlanSteps(q) = CompletedPlanSteps(j) \union {w[1][1]}
  BY <1>2, <1>4, <1>6, CompletedAppended
<1>13. ASSUME NEW x, x # w[1][1], Begotten(pc[t], at[t], x) PROVE Begotten(pc[t], l, x)
  <2>1. PICK i \in 1 .. Len(K) : w[1][i] = x
    BY <1>13 DEF Begotten
  <2>2. i # 1 /\ i \in Nat /\ Len(K) \in Nat
    BY <1>5, <1>13, <2>1
  <2>3. l.todo[1] = Tail(Head(w)) /\ Head(w) = w[1]
    <3>1. Tail(Head(w)) \in Seq(Names) /\ Tail(w) \in Seq(Seq(Names))
      BY <1>5
    <3>2. QED
      BY <1>5, <1>7, <3>1
  <2>4. i - 1 \in 1 .. Len(Tail(K)) /\ Tail(w[1])[i - 1] = w[1][i]
    <3>1. Len(Tail(K)) = Len(K) - 1 /\ Len(w[1]) = Len(K) /\ w[1] \in Seq(Names)
      BY <1>5, <2>3
    <3>2. i - 1 \in 1 .. Len(K) - 1 /\ (i - 1) + 1 = i
      BY <2>1, <2>2
    <3>3. QED
      BY <3>1, <3>2
  <2> HIDE DEF w, K, l
  <2>5. l.todo[1][i - 1] = x
    BY <2>1, <2>3, <2>4
  <2>6. i - 1 \in 1 .. Len(l.kids)
    BY <1>7, <2>4
  <2>7. QED
    BY <1>3, <2>5, <2>6 DEF Begotten
<1> HIDE DEF w, K, l, q, j
<1>14. \A x : WorkersOf(q, plan, x) = WorkersOf(j, plan, x)
  BY <1>11 DEF WorkersOf
<1>15. PlanningBudget(q, state[t], pc[t], l, crashes)
  <2>1. pc[t] \notin PlanningAt
    BY <1>3 DEF PlanningAt
  <2>2. QED
    BY <1>6, <1>8, <1>10, <1>11, <2>1, PlanningOver
<1>16. WorkBudget(q, state[t], plan, pc[t], l, crashes)
  <2>1. ASSUME NEW x \in StepIds(plan[Root]) \ CompletedPlanSteps(q)
        PROVE  /\ Asked(q, x) = {} /\ x \notin CompletedPlanSteps(j)
               /\ ~Begotten(pc[t], l, x) => Cardinality(WorkersOf(q, plan, x)) <= crashes
    <3>1. x \notin CompletedPlanSteps(j) /\ x # w[1][1]
      BY <1>12
    <3>2. Asked(j, x) = {}
      BY <1>3, <1>8, <3>1 DEF WorkBudget
    <3>3. ~Begotten(pc[t], at[t], x) => Cardinality(WorkersOf(j, plan, x)) <= crashes
      BY <1>8, <3>1, <3>2 DEF WorkBudget
    <3>4. QED
      BY <1>11, <1>13, <1>14, <3>1, <3>2, <3>3
  <2>2. \A x \in StepIds(plan[Root]) : Cardinality(WorkersOf(q, plan, x)) <= crashes + 1
    BY <1>8, <1>14 DEF WorkBudget
  <2>3. QED
    BY <1>3, <1>6, <2>1, <2>2 DEF WorkBudget
<1>17. QED
  BY <1>1, <1>9, <1>15, <1>16, BudgetedBecomes DEF RootBudget

LEMMA NextChunkBudgeted ==
  ASSUME Shaped, Ordered, Budgeted, NEW t \in Tasks, NextChunk(t)
  PROVE  Budgeted'
<1>1. pc[t] = "fold" /\ at[t].kids = <<>> /\ UNCHANGED crashes
  BY NextChunkIs DEF NextChunk
<1>2. t = Root /\ state[t] = "Implementing"
  BY <1>1, WaveInHand
<1>3. /\ PlanningBudget(journal[t], state[t], pc[t], at[t], crashes)
      /\ WorkBudget(journal[t], state[t], plan, pc[t], at[t], crashes)
      /\ CallsOf(t, journal[t], plan[t]) /\ ~Over(state[t], pc[t], at[t])
  BY <1>1, <1>2, RootWorks
<1>4. \A x : ~Begotten(pc[t], at[t], x)
  BY <1>1 DEF Begotten
<1>5. ASSUME NEW c \in {"wave", "top"}, NEW l,
             Becomes(t, journal[t], state[t], plan[t], c, l, verdict[t])
      PROVE  Budgeted'
  <2>1. PlanningBudget(journal[t], state[t], c, l, crashes)
    <3>1. c \notin PlanningAt
      BY DEF PlanningAt
    <3>2. QED
      BY <1>2, <1>3, <3>1, PlanningOver
  <2>2. WorkBudget(journal[t], state[t], plan, c, l, crashes)
    BY <1>1, <1>2, <1>3, <1>4 DEF WorkBudget
  <2>3. QED
    BY <1>1, <1>3, <1>5, <2>1, <2>2, BudgetedBecomes DEF RootBudget
<1>6. QED
  BY <1>5, NextChunkIs

-----------------------------------------------------------------------------
(* What the budgets amount to.                                             *)

Pairs(V, f) == UNION {{t} \X f[t] : t \in V}

\* No more than M for each of a set.
LEMMA PairsCounted ==
  ASSUME NEW W, IsFiniteSet(W), NEW M \in Nat, NEW f,
         \A t \in W : IsFiniteSet(f[t]) /\ Cardinality(f[t]) <= M
  PROVE  IsFiniteSet(Pairs(W, f)) /\ Cardinality(Pairs(W, f)) <= Cardinality(W) * M
<1> DEFINE N == Cardinality(W)
           Few(V, n) == IsFiniteSet(Pairs(V, f)) /\ Cardinality(Pairs(V, f)) <= n * M
           T == {n \in 0 .. N : \A V \in SUBSET W : Cardinality(V) = n => Few(V, n)}
<1>1. N \in Nat
  BY FS_CardinalityType
<1>2. 0 \in T
  <2>1. ASSUME NEW V \in SUBSET W, Cardinality(V) = 0 PROVE Few(V, 0)
    <3>1. V = {}
      BY <2>1, FS_Subset, FS_EmptySet
    <3>2. Pairs(V, f) = {}
      BY <3>1 DEF Pairs
    <3>3. Cardinality({}) = 0 /\ IsFiniteSet({}) /\ 0 * M = 0
      BY FS_EmptySet
    <3>4. QED
      BY <3>2, <3>3
  <2> HIDE DEF Few
  <2>2. QED
    BY <1>1, <2>1
<1>3. ASSUME NEW n \in 0 .. (N - 1), n \in T PROVE n + 1 \in T
  <2>1. n \in Nat /\ n + 1 \in 0 .. N
    BY <1>1
  <2>2. ASSUME NEW V \in SUBSET W, Cardinality(V) = n + 1 PROVE Few(V, n + 1)
    <3>1. IsFiniteSet(V)
      BY FS_Subset
    <3>2. PICK x : x \in V
      <4>1. V # {}
        BY <2>1, <2>2, FS_EmptySet
      <4>2. QED
        BY <4>1
    <3> DEFINE A == Pairs(V \ {x}, f)
               B == {x} \X f[x]
    <3>3. Cardinality(V \ {x}) = n
      <4>1. Cardinality(V \ {x}) = Cardinality(V) - 1
        BY <3>1, <3>2, FS_RemoveElement
      <4>2. QED
        BY <2>1, <2>2, <4>1
    <3>4. IsFiniteSet(A) /\ Cardinality(A) <= n * M
      <4>1. V \ {x} \in SUBSET W
        BY <2>2
      <4>2. QED
        BY <1>3, <3>3, <4>1
    <3>5. IsFiniteSet(B) /\ Cardinality(B) = 1 * Cardinality(f[x])
      <4>1. IsFiniteSet({x}) /\ Cardinality({x}) = 1
        BY FS_Singleton
      <4>2. IsFiniteSet(f[x])
        BY <2>2, <3>2
      <4>3. QED
        BY <4>1, <4>2, FS_Product
    <3>6. Cardinality(f[x]) \in Nat /\ Cardinality(f[x]) <= M
      BY <2>2, <3>2, FS_CardinalityType
    <3>7. Pairs(V, f) = A \union B
      BY <3>2 DEF Pairs
    <3> HIDE DEF A, B
    <3>8. /\ IsFiniteSet(A \union B)
          /\ Cardinality(A \union B) = Cardinality(A) + Cardinality(B) - Cardinality(A \cap B)
      BY <3>4, <3>5, FS_Union
    <3>9. Cardinality(A) \in Nat /\ Cardinality(B) \in Nat /\ Cardinality(A \cap B) \in Nat
      <4>1. IsFiniteSet(A \cap B)
        BY <3>4, FS_Intersection
      <4>2. QED
        BY <3>4, <3>5, <4>1, FS_CardinalityType
    <3>10. n * M \in Nat /\ (n + 1) * M = n * M + M /\ 1 * Cardinality(f[x]) = Cardinality(f[x])
      BY <2>1, <3>6
    <3> DEFINE nM == n * M
               mM == (n + 1) * M
    <3>11. nM \in Nat /\ mM = nM + M /\ Cardinality(B) <= M /\ Cardinality(A) <= nM
      BY <3>4, <3>5, <3>6, <3>10
    <3> HIDE DEF nM, mM
    <3>12. Cardinality(A \union B) <= mM
      BY <3>8, <3>9, <3>11
    <3>13. QED
      BY <3>7, <3>8, <3>12 DEF mM
  <2> HIDE DEF Few
  <2>3. QED
    BY <2>1, <2>2
<1>4. \A n \in 0 .. (N - 1) : n \in T => n + 1 \in T
  BY <1>3
<1>5. N \in T
  <2> HIDE DEF T
  <2>1. \A n \in 0 .. N : n \in T
    BY <1>1, <1>2, <1>4, Counting
  <2>2. QED
    BY <1>1, <2>1
<1>6. QED
  BY <1>5

\* Only a worker asks for a step.
LEMMA OnlyWorkersAsk ==
  ASSUME Shaped, Budgeted, NEW s \in StepIds(plan[Root]), NEW t \in Tasks
  PROVE  /\ t \notin WorkersOf(journal[Root], plan, s) => Asked(journal[t], s) = {}
         /\ IsFiniteSet(Asked(journal[t], s)) /\ Cardinality(Asked(journal[t], s)) <= MaxTurns
<1>1. s # None
  BY TasksAre, Named
<1>2. /\ IsFiniteSet(Asked(journal[t], s)) /\ Cardinality(Asked(journal[t], s)) \in Nat
      /\ MaxTurns \in Nat
  BY TaskTyped, Counted, PlanStepsAssumption DEF Asked
<1>3. CASE Asked(journal[t], s) = {}
  BY <1>2, <1>3, FS_EmptySet
<1>4. CASE Asked(journal[t], s) # {}
  <2>1. PICK i \in Asked(journal[t], s) : TRUE
    BY <1>4
  <2>2. i \in Places(journal[t], {"model_call"}) /\ journal[t][i].step = s
    BY DEF Asked, PlacesFor
  <2>3. CallsOf(t, journal[t], plan[t])
    BY DEF Budgeted
  <2>4. (t # Root => s \in StepIds(plan[t])) /\ Cardinality(Asked(journal[t], s)) <= MaxTurns
    BY <1>1, <2>2, <2>3 DEF CallsOf
  <2>5. t \in WorkersOf(journal[Root], plan, s)
    BY <1>4, <2>4 DEF WorkersOf
  <2>6. QED
    BY <1>2, <2>4, <2>5
<1>5. QED
  BY <1>3, <1>4

LEMMA BudgetedShows ==
  ASSUME Shaped, Budgeted
  PROVE  BudgetsSurviveKills
<1>1. /\ PlanRejectionCount(journal[Root]) <= MaxRepairs
      /\ Cardinality(PlacesFor(journal[Root], {"model_call"}, None)) <= MaxRepairs + crashes
  BY DEF Budgeted, RootBudget, PlanningBudget, Asked
<1>2. ASSUME NEW s \in StepIds(plan[Root])
      PROVE  Cardinality(UNION {{t} \X PlacesFor(journal[t], {"model_call"}, s) : t \in Tasks})
               <= MaxTurns * (1 + crashes)
  <2> DEFINE W == WorkersOf(journal[Root], plan, s)
             f == [t \in Tasks |-> Asked(journal[t], s)]
  <2>1. W \in SUBSET Tasks /\ IsFiniteSet(W) /\ Cardinality(W) \in Nat
    BY WorkersTyped
  <2>2. Cardinality(W) <= crashes + 1
    BY DEF Budgeted, RootBudget, WorkBudget
  <2>3. \A t \in Tasks : /\ t \notin W => f[t] = {}
                         /\ IsFiniteSet(f[t]) /\ Cardinality(f[t]) <= MaxTurns
    BY OnlyWorkersAsk
  <2>4. UNION {{t} \X PlacesFor(journal[t], {"model_call"}, s) : t \in Tasks} = Pairs(Tasks, f)
    BY DEF Pairs, Asked
  <2> HIDE DEF W, f
  <2>5. Pairs(Tasks, f) = Pairs(W, f)
    BY <2>1, <2>3 DEF Pairs
  <2>6. MaxTurns \in Nat /\ crashes \in Nat
    BY Numbers
  <2>7. Cardinality(Pairs(W, f)) <= Cardinality(W) * MaxTurns /\ Cardinality(Pairs(W, f)) \in Nat
    <3>1. \A t \in W : IsFiniteSet(f[t]) /\ Cardinality(f[t]) <= MaxTurns
      BY <2>1, <2>3
    <3>2. IsFiniteSet(Pairs(W, f)) /\ Cardinality(Pairs(W, f)) <= Cardinality(W) * MaxTurns
      BY <2>1, <2>6, <3>1, PairsCounted
    <3>3. QED
      BY <3>2, FS_CardinalityType
  <2>8. Cardinality(W) * MaxTurns <= (crashes + 1) * MaxTurns /\ Cardinality(W) * MaxTurns \in Nat
    <3>1. MaxTurns \in Nat \ {0} /\ crashes + 1 \in Nat
      BY <2>6, Numbers
    <3>2. QED
      BY <2>1, <2>2, <3>1, Multiples
  <2>9. (crashes + 1) * MaxTurns = MaxTurns * (1 + crashes) /\ (crashes + 1) * MaxTurns \in Nat
    BY <2>6
  <2> DEFINE a == Cardinality(W) * MaxTurns
             b == (crashes + 1) * MaxTurns
  <2>10. a \in Nat /\ b \in Nat /\ a <= b /\ Cardinality(Pairs(W, f)) <= a /\ Cardinality(Pairs(W, f)) \in Nat
    BY <2>7, <2>8, <2>9
  <2> HIDE DEF a, b
  <2>11. Cardinality(Pairs(W, f)) <= b
    BY <2>10
  <2>12. QED
    BY <2>4, <2>5, <2>9, <2>11 DEF b
<1>3. QED
  BY <1>1, <1>2 DEF BudgetsSurviveKills

LEMMA BudgetedNext ==
  ASSUME Shaped, Ordered, Budgeted, [Next]_vars
  PROVE  Budgeted'
<1>1. ASSUME NEW t \in Tasks, Driver(t) PROVE Budgeted'
  <2>1. CASE Planning(t)
    BY <2>1, PassPlanningBudgeted, EnterPlanningBudgeted, LeavePlanningBudgeted, ProposeBudgeted,
       PlanAnsweredBudgeted, SavePlanBudgeted, AcceptPlanBudgeted, RejectPlanBudgeted DEF Planning
  <2>2. CASE Working(t)
    BY <2>2, WaveChildDoneBudgeted, ReissueCallBudgeted, PlanSpoiledBudgeted, StepsDoneBudgeted,
       BeginStepBudgeted, BeginWaveBudgeted, TakeCheckpointBudgeted, StartStepBudgeted,
       ForceCompleteBudgeted, ReplayActionBudgeted, RequestActionBudgeted, StepAnsweredBudgeted,
       NoteScopeExpansionBudgeted, IssueCallBudgeted, FinishStepBudgeted, AskUserBudgeted,
       ToolEndsBudgeted DEF Working
  <2>3. CASE Conversing(t)
    BY <2>3, RequestTurnBudgeted, TurnAnsweredBudgeted, FinishTurnsBudgeted DEF Conversing
  <2>4. CASE Waving(t)
    BY <2>4, SpawnChildBudgeted, JoinChunkBudgeted, FoldFailureBudgeted, FoldCheckpointBudgeted,
       FoldCompleteBudgeted, NextChunkBudgeted DEF Waving
  <2>5. QED
    BY <1>1, <2>1, <2>2, <2>3, <2>4, MoveBudgeted, FaultBudgeted DEF Driver
<1>2. CASE User
  BY <1>2, ApproveBudgeted, DenyBudgeted, RespondBudgeted, ResumeBudgeted DEF User
<1>3. CASE Kill
  BY <1>3, KillBudgeted
<1>4. CASE UNCHANGED vars
  <2>1. /\ journal' = journal /\ state' = state /\ plan' = plan /\ pc' = pc /\ at' = at
        /\ crashes' = crashes
    BY <1>4 DEF vars
  <2>2. QED
    BY <2>1 DEF Budgeted
<1>5. QED
  BY <1>1, <1>2, <1>3, <1>4 DEF Next

\* The model is asked for a plan, and for a step, no more often than the
\* budgets allow, and a kill costs at most the call it cut off, or for a wave
\* the children it cut off: with any budgets, any plans and any number of
\* kills.
THEOREM BudgetsAreKept == Spec => []BudgetsSurviveKills
<1>1. Init => Budgeted
  BY InitBudgeted
<1>2. Shaped /\ Ordered /\ Budgeted /\ [Next]_vars => Budgeted'
  BY BudgetedNext
<1>3. Shaped /\ Budgeted => BudgetsSurviveKills
  BY BudgetedShows
<1>4. Spec => []Shaped
  BY RecordsAreWellFormed
<1>5. Spec => []Ordered
  BY OrderIsKept
<1>6. QED
  BY <1>1, <1>2, <1>3, <1>4, <1>5, PTL DEF Spec

=============================================================================
