----------------------- MODULE PlanDecisions_proofs ------------------------
(***************************************************************************)
(* What the model decided is done before it is asked anything else, and a  *)
(* turn is told all that happened: the theorems of PlanSteps about its     *)
(* journal, for any plans, decisions, budgets, children, answers and       *)
(* kills.  They rest on the shape of the records and on the lemmas about   *)
(* the handlers of PlanSteps_proofs.                                       *)
(*                                                                         *)
(* The invariant is Faithful.  Recorded is what a journal says by itself,  *)
(* whoever wrote it: what may follow a prompt or a decision (Seamless),    *)
(* which calls have an outcome (CallsSettled), what a superseded decision  *)
(* led to (Effective) and an open one has led to so far (Pursued).         *)
(* Poised, Calm and Minded are where a task stands whose last entry asks   *)
(* for a reaction, that has no call under way, that has a decision open.   *)
(* First what one more entry changes of each of these, then which entry    *)
(* each handler writes and from where.                                     *)
(***************************************************************************)
EXTENDS PlanSteps_proofs

Closers  == ModelCall \union {"plan_step_completed"}
Answers  == {"step_completion", "turn_completion"}
Outcomes == {"tool_result", "tool_denied", "permission_ask"}

After(j, i, kinds) == {m \in Places(j, kinds) : m > i}

\* The decisions nothing has superseded yet.
Open(j) == {i \in Places(j, Answers) : After(j, i, Closers) = {}}

\* What may come right after the entry a: a prompt or a decision of a turn is
\* followed by what was made of it or by the note of a resume.
MayFollow(a, b) ==
  /\ a.kind = "permission_ask" =>
       b.kind = "note" \/ (b.kind \in {"tool_result", "tool_denied"} /\ b.of = a.of)
  /\ a.kind = "turn_completion" =>
       \/ b.kind = "note"
       \/ a.act.kind = "tool" /\ b.kind = "tool" /\ b.act = a.act
       \/ a.act = Ask /\ b.kind = "user_response"

Seamless(j) == \A i, k \in DOMAIN j : k = i + 1 => MayFollow(j[i], j[k])

\* The call at i needs no telling any more, or will be told.
Settled(j, i) ==
  \/ \E x \in Places(j, {"tool_result", "tool_denied"}) : j[x].of = i
  \/ \E k \in After(j, i, {"tool"}) : j[k].act = j[i].act /\ Between(j, i, k, {"turn_call"}) = {}
  \/ \E k \in After(j, i, {"permission_ask"}) : j[k].of = i /\ CutOffAfter(j, k)

CallsSettled(j) ==
  /\ \A i \in Places(j, {"tool"}) : i # LastToolCall(j) => Settled(j, i)
  /\ InterruptedToolCall(j) # 0 => After(j, LastToolCall(j), {"turn_call"}) = {}

Told(j, m) ==
  LET told == Conversation(SubSeq(j, 1, m)) IN
  /\ \A i \in Places(j, {"tool"}) : i < m =>
       \/ \E x \in DOMAIN told : told[x] = i
       \/ \E k \in Between(j, i, m, {"tool"}) :
            j[k].act = j[i].act /\ Between(j, i, k, {"turn_call"}) = {}
       \/ \E k \in Between(j, i, m, {"permission_ask"}) : j[k].of = i /\ CutOffAfter(j, k)
  /\ \A i \in Questions(j) : i < m =>
       (\E x \in DOMAIN told : told[x] = i) \/ CutOffAfter(j, i)

\* What has become of the decision at i when the entry at k supersedes it.
Effect(j, i, k) ==
  LET calls  == {m \in Between(j, i, k, {"tool"}) : j[m].act = j[i].act}
      inStep == j[i].kind = "step_completion"
      lost   == IF inStep THEN Excused(j, i, k) ELSE CutOffAfter(j, i)
  IN  /\ j[i].act.kind = "tool" =>
           /\ calls # {} \/ lost
           /\ Cardinality(calls) <= 1 + Cardinality(Between(j, i, k, {"note"}))
      /\ j[i].act = Finish =>
           IF inStep THEN j[k].kind = "plan_step_completed" ELSE lost
      /\ j[i].act = Ask /\ ~inStep =>
           Between(j, i, k, {"user_response"}) # {} \/ lost

Effective(j) ==
  \A i \in Places(j, Answers) : Superseded(j, i) # 0 => Effect(j, i, Superseded(j, i))

\* The decision at i is still open: its call is the only one since, issued
\* once more for every note, and no call was under way when it was made.
Pursued(j, i) ==
  /\ After(j, i, {"tool"}) = {} => InterruptedToolCall(j) = 0
  /\ \A m \in After(j, i, {"tool"}) : j[m].act = j[i].act /\ j[i].act.kind = "tool"
  /\ Cardinality(After(j, i, {"tool"})) <= 1 + Cardinality(After(j, i, {"note"}))
  /\ j[i].act = Finish => After(j, i, {"plan_scope_expansion"}) = {}

Genuine(j) ==
  /\ \A i \in DOMAIN j : j[i].of # 0 => j[i].kind \in Outcomes
  /\ \A i \in Places(j, Answers) : j[i].act \in StepActions
  /\ \A i \in Places(j, {"plan_completion"}) : j[i].act.kind # "ask"

\* What a journal alone says.
Recorded(j) ==
  /\ Genuine(j) /\ Seamless(j) /\ CallsSettled(j) /\ Effective(j)
  /\ \A i \in Open(j) : Pursued(j, i)
  /\ \A i, k \in Open(j) : i = k

\* Where a task stands whose last entry asks for a reaction.
Poised(j, s, c, l) ==
  j # <<>> =>
    LET e == j[Len(j)] IN
    /\ e.kind = "permission_ask" =>
         /\ e.of = LastToolCall(j)
         /\ \/ c = "off" /\ s \in {"Implementing", "WaitingForPermission"}
            \/ c = "move" /\ s = "Implementing" /\ l = Moving("WaitingForPermission", "off")
    /\ e.kind = "turn_completion" =>
         \/ c = "choose" /\ l.act = e.act
         \/ c = "off" /\ s # "WaitingForPermission" /\ (s = "WaitingForUser" => e.act = Ask)
         \/ /\ c = "move" /\ s = "Implementing"
            /\ l = Moving("Verifying", "off") \/ (l = Moving("WaitingForUser", "off") /\ e.act = Ask)

\* Where no call is under way, and which decisions a task has made at all.
Calm(j, s, p, c, l) ==
  /\ c \in WorkingAt \ {"exec"} => InterruptedToolCall(j) = 0
  /\ s = "WaitingForUser" => InterruptedToolCall(j) = 0
  /\ c = "move" /\ l \in {Moving("Implementing", "top"), Moving("WaitingForUser", "off")} =>
       InterruptedToolCall(j) = 0
  /\ s = "Planning" => Places(j, {"tool"} \union Answers) = {}
  /\ p = NoPlan => Places(j, {"step_completion"}) = {}
  /\ p # NoPlan => Places(j, {"turn_completion"}) = {} /\ c # "turn"

\* Where a task stands that has an open decision, made at i.
Pursues(j, i, s, p, c, l) ==
  /\ c = "top" /\ InterruptedToolCall(j) # 0 =>
       Cardinality(After(j, i, {"tool"})) <= Cardinality(After(j, i, {"note"}))
  /\ c \in {"choose", "act", "issue"} => After(j, i, {"tool"}) = {} /\ l.act = j[i].act
  /\ c \notin {"plan_call", "call", "turn"}
  /\ j[i].kind = "step_completion" =>
       /\ c \notin {"wave", "fold"}
       /\ Alone(p, CompletedPlanSteps(j), j[i].step)
       /\ j[i].act.kind = "tool" /\ After(j, i, {"tool"}) = {} /\ After(j, i, {"note"}) = {} =>
            c \in {"act", "issue"} \/ (c = "off" /\ s = "Implementing")

Minded(j, s, p, c, l) ==
  /\ \A i \in Open(j) : Pursues(j, i, s, p, c, l)
  /\ c \in {"begin", "call", "act"} => Alone(p, CompletedPlanSteps(j), l.step)
  /\ c = "issue" => l.act.kind = "tool"

FaithfulOf(j, s, p, c, l) ==
  Recorded(j) /\ Poised(j, s, c, l) /\ Calm(j, s, p, c, l) /\ Minded(j, s, p, c, l)

AllTold(j) == \A m \in Places(j, {"turn_call"}) : Told(j, m)

Faithful ==
  /\ \A t \in Tasks : FaithfulOf(journal[t], state[t], plan[t], pc[t], at[t])
  /\ AllTold(journal[Root])

-----------------------------------------------------------------------------
\* One more entry in the journal: what it changes of each lookup.

LEMMA AfterAppended ==
  ASSUME NEW j \in Seq(Entries), NEW e, NEW kinds
  PROVE  /\ \A i \in DOMAIN j :
              After(Append(j, e), i, kinds)
                = After(j, i, kinds) \union (IF e.kind \in kinds THEN {Len(j) + 1} ELSE {})
         /\ After(Append(j, e), Len(j) + 1, kinds) = {}
<1>1. Places(Append(j, e), kinds)
        = Places(j, kinds) \union (IF e.kind \in kinds THEN {Len(j) + 1} ELSE {})
  BY AnyAppended
<1>2. /\ Len(j) \in Nat /\ Places(j, kinds) \subseteq DOMAIN j
      /\ \A i \in DOMAIN j : i \in Nat /\ i < Len(j) + 1
  BY AnyAppended, PlacesAre
<1>3. \A i \in DOMAIN j : Len(j) + 1 > i /\ ~(i > Len(j) + 1)
  BY <1>2
<1>4. ~(Len(j) + 1 > Len(j) + 1)
  BY <1>2
<1>5. QED
  BY <1>1, <1>2, <1>3, <1>4 DEF After

LEMMA BetweenKept ==
  ASSUME NEW j \in Seq(Entries), NEW e, NEW kinds, NEW i, NEW k \in DOMAIN j
  PROVE  Between(Append(j, e), i, k, kinds) = Between(j, i, k, kinds)
<1>1. Places(Append(j, e), kinds)
        = Places(j, kinds) \union (IF e.kind \in kinds THEN {Len(j) + 1} ELSE {})
  BY AnyAppended
<1>2. Len(j) \in Nat /\ k \in Nat /\ k < Len(j) + 1
  BY AnyAppended
<1>3. ~(Len(j) + 1 < k)
  BY <1>2
<1>4. QED
  BY <1>1, <1>3 DEF Between

LEMMA BetweenAppended ==
  ASSUME NEW j \in Seq(Entries), NEW e, NEW kinds, NEW i \in DOMAIN j
  PROVE  Between(Append(j, e), i, Len(j) + 1, kinds) = After(j, i, kinds)
<1>1. Places(Append(j, e), kinds)
        = Places(j, kinds) \union (IF e.kind \in kinds THEN {Len(j) + 1} ELSE {})
  BY AnyAppended
<1>2. /\ Len(j) \in Nat /\ Places(j, kinds) \subseteq DOMAIN j
      /\ \A k \in DOMAIN j : k \in Nat /\ k < Len(j) + 1
  BY AnyAppended, PlacesAre
<1>3. ~(Len(j) + 1 < Len(j) + 1)
  BY <1>2
<1>4. \A m \in Places(j, kinds) : m > i <=> i < m
  BY <1>2
<1>5. QED
  BY <1>1, <1>2, <1>3, <1>4 DEF Between, After

LEMMA CutOffAppended ==
  ASSUME NEW j \in Seq(Entries), NEW e, NEW i \in DOMAIN j
  PROVE  /\ i # Len(j) => (CutOffAfter(Append(j, e), i) <=> CutOffAfter(j, i))
         /\ CutOffAfter(j, i) => CutOffAfter(Append(j, e), i) /\ i # Len(j)
<1>1. /\ Len(j) \in Nat /\ i \in Nat /\ i < Len(j) + 1
      /\ Len(Append(j, e)) = Len(j) + 1
      /\ \A k \in DOMAIN j : Append(j, e)[k] = j[k]
      /\ DOMAIN j = 1 .. Len(j)
  BY AnyAppended
<1>2. i # Len(j) => i < Len(j) /\ i < Len(j) + 1 /\ i + 1 \in DOMAIN j
  BY <1>1
<1>3. ~(Len(j) < Len(j))
  BY <1>1
<1>4. CutOffAfter(j, i) => i # Len(j)
  BY <1>3 DEF CutOffAfter
<1>5. i # Len(j) => (CutOffAfter(Append(j, e), i) <=> CutOffAfter(j, i))
  BY <1>1, <1>2 DEF CutOffAfter
<1>6. QED
  BY <1>4, <1>5

LEMMA LastToolAppended ==
  ASSUME NEW j \in Seq(Entries), NEW e
  PROVE  LastToolCall(Append(j, e)) = IF e.kind = "tool" THEN Len(j) + 1 ELSE LastToolCall(j)
<1> DEFINE K == {"tool"}
<1>1. Places(Append(j, e), K) = Places(j, K) \union (IF e.kind \in K THEN {Len(j) + 1} ELSE {})
  BY AnyAppended
<1>2. CASE e.kind # "tool"
  BY <1>1, <1>2 DEF LastToolCall
<1>3. CASE e.kind = "tool"
  <2> DEFINE n == Len(j) + 1
             S == Places(j, K) \union {n}
  <2>1. n \in Nat /\ Places(j, K) \in SUBSET (1 .. Len(j)) /\ Len(j) \in Nat
    BY PlacesAre
  <2>2. S \in SUBSET (1 .. n) /\ n \in S
    BY <2>1
  <2>3. LastOf(S) \in S /\ n <= LastOf(S) /\ LastOf(S) \in 0 .. n
    BY <2>1, <2>2, LastOfIs
  <2>4. LastOf(S) = n
    BY <2>1, <2>3
  <2>5. QED
    BY <1>1, <1>3, <2>4 DEF LastToolCall
<1>4. QED
  BY <1>2, <1>3

\* The outcomes of the call at i.
OutcomesOf(j, i) == {k \in DOMAIN j : k > i /\ j[k].of = i}

LEMMA OutcomesAre ==
  ASSUME NEW j \in Seq(Entries), NEW i
  PROVE  /\ OutcomeOf(j, i) = IF LastOf(OutcomesOf(j, i)) = 0 THEN None
                              ELSE j[LastOf(OutcomesOf(j, i))].kind
         /\ OutcomesOf(j, i) \in SUBSET (1 .. Len(j)) /\ Len(j) \in Nat
         /\ OutcomesOf(j, i) = {} => OutcomeOf(j, i) = None
         /\ OutcomesOf(j, i) # {} =>
              /\ LastOf(OutcomesOf(j, i)) \in OutcomesOf(j, i)
              /\ OutcomeOf(j, i) = j[LastOf(OutcomesOf(j, i))].kind
<1>1. OutcomesOf(j, i) \in SUBSET (1 .. Len(j)) /\ Len(j) \in Nat
  BY DEF OutcomesOf
<1>2. OutcomeOf(j, i) = IF LastOf(OutcomesOf(j, i)) = 0 THEN None
                        ELSE j[LastOf(OutcomesOf(j, i))].kind
  BY DEF OutcomeOf, OutcomesOf
<1>3. /\ OutcomesOf(j, i) = {} => LastOf(OutcomesOf(j, i)) = 0
      /\ OutcomesOf(j, i) # {} => LastOf(OutcomesOf(j, i)) \in OutcomesOf(j, i) /\ LastOf(OutcomesOf(j, i)) # 0
  BY <1>1, LastOfIs
<1>4. QED
  BY <1>1, <1>2, <1>3

LEMMA KindsNamed == \A k \in Kinds : k # None
BY DEF Kinds, None

\* A call is under way as long as nothing tells how it ended.
LEMMA InterruptedIs ==
  ASSUME NEW j \in Seq(Entries)
  PROVE  /\ InterruptedToolCall(j) # 0 <=> LastToolCall(j) # 0 /\ OutcomesOf(j, LastToolCall(j)) = {}
         /\ InterruptedToolCall(j) # 0 => InterruptedToolCall(j) = LastToolCall(j)
<1> DEFINE i == LastToolCall(j)
           S == OutcomesOf(j, i)
<1>1. ASSUME NEW k \in DOMAIN j PROVE j[k].kind # None
  <2>1. j[k] \in Entries
    OBVIOUS
  <2>2. j[k].kind \in Kinds
    BY <2>1 DEF Entries
  <2>3. QED
    BY <2>2, KindsNamed
<1>2. S # {} => OutcomeOf(j, i) # None
  <2>1. S \subseteq DOMAIN j
    BY DEF OutcomesOf
  <2>2. QED
    BY <1>1, <2>1, OutcomesAre
<1>3. S = {} => OutcomeOf(j, i) = None
  BY OutcomesAre
<1>4. QED
  BY <1>2, <1>3 DEF InterruptedToolCall

LEMMA LastToolIs ==
  ASSUME NEW j \in Seq(Entries)
  PROVE  /\ LastToolCall(j) \in Nat
         /\ LastToolCall(j) # 0 => LastToolCall(j) \in Places(j, {"tool"}) /\ LastToolCall(j) \in DOMAIN j
         /\ \A i \in Places(j, {"tool"}) : i <= LastToolCall(j) /\ LastToolCall(j) # 0
<1>1. Places(j, {"tool"}) \in SUBSET (1 .. Len(j)) /\ Len(j) \in Nat /\ Places(j, {"tool"}) \subseteq DOMAIN j
  BY PlacesAre
<1>2. QED
  BY <1>1, LastOfIs DEF LastToolCall

\* Every entry is the outcome of the last call or no outcome.
Fresh(j, e) == e.of = 0 \/ (e.kind \in Outcomes /\ e.of = LastToolCall(j))

LEMMA InterruptedAppended ==
  ASSUME NEW j \in Seq(Entries), NEW e \in Entries, Fresh(j, e)
  PROVE  /\ e.kind = "tool" => InterruptedToolCall(Append(j, e)) # 0
         /\ e.kind # "tool" /\ InterruptedToolCall(j) = 0 => InterruptedToolCall(Append(j, e)) = 0
         /\ e.kind \in Outcomes /\ e.of = LastToolCall(j) => InterruptedToolCall(Append(j, e)) = 0
         /\ e.kind # "tool" /\ InterruptedToolCall(Append(j, e)) # 0 => InterruptedToolCall(j) # 0
<1> DEFINE k == Append(j, e)
           i == LastToolCall(j)
           n == Len(j) + 1
<1>1. /\ k \in Seq(Entries) /\ n \in Nat /\ k[n] = e /\ DOMAIN k = DOMAIN j \union {n}
      /\ \A m \in DOMAIN j : k[m] = j[m] /\ m \in Nat /\ m < n
  BY AnyAppended
<1>2. LastToolCall(k) = IF e.kind = "tool" THEN n ELSE i
  BY LastToolAppended
<1>3. i \in Nat /\ (i # 0 => i \in DOMAIN j)
  BY LastToolIs
<1>4. n # 0 /\ \A m \in DOMAIN k : ~(m > n)
  BY <1>1
<1>5. OutcomesOf(k, n) = {}
  BY <1>4 DEF OutcomesOf
<1>6. ASSUME e.kind = "tool" PROVE InterruptedToolCall(k) # 0
  BY <1>1, <1>2, <1>4, <1>5, <1>6, InterruptedIs
<1>7. OutcomesOf(j, i) \subseteq OutcomesOf(k, i)
  BY <1>1 DEF OutcomesOf
<1>8. e.kind # "tool" /\ InterruptedToolCall(j) = 0 => InterruptedToolCall(k) = 0
  BY <1>1, <1>2, <1>7, InterruptedIs
<1>9. ASSUME e.kind \in Outcomes, e.of = i PROVE InterruptedToolCall(k) = 0
  <2>1. e.kind # "tool"
    BY <1>9 DEF Outcomes
  <2>2. i # 0 => n > i
    BY <1>1, <1>3
  <2>3. i # 0 => n \in OutcomesOf(k, i)
    BY <1>1, <1>9, <2>2 DEF OutcomesOf
  <2>4. QED
    BY <1>1, <1>2, <2>1, <2>3, InterruptedIs
<1>10. QED
  BY <1>6, <1>8, <1>9

LEMMA OpenAppended ==
  ASSUME NEW j \in Seq(Entries), NEW e
  PROVE  Open(Append(j, e))
           = IF e.kind \in Closers THEN {}
             ELSE Open(j) \union (IF e.kind \in Answers THEN {Len(j) + 1} ELSE {})
<1> DEFINE k == Append(j, e)
           n == Len(j) + 1
<1>1. Places(k, Answers) = Places(j, Answers) \union (IF e.kind \in Answers THEN {n} ELSE {})
  BY AnyAppended
<1>2. Places(j, Answers) \subseteq DOMAIN j
  BY PlacesAre
<1>3. \A i \in DOMAIN j :
        After(k, i, Closers) = After(j, i, Closers) \union (IF e.kind \in Closers THEN {n} ELSE {})
  BY AfterAppended
<1>4. After(k, n, Closers) = {}
  BY AfterAppended
<1>5. e.kind \in Closers => e.kind \notin Answers
  BY DEF Closers, Answers, ModelCall
<1> HIDE DEF k, n
<1>a. /\ \A i : i \in Open(k) <=> i \in Places(k, Answers) /\ After(k, i, Closers) = {}
      /\ \A i : i \in Open(j) <=> i \in Places(j, Answers) /\ After(j, i, Closers) = {}
  BY DEF Open
<1>6. CASE e.kind \in Closers
  <2>1. \A i \in Places(k, Answers) : n \in After(k, i, Closers)
    BY <1>1, <1>2, <1>3, <1>5, <1>6
  <2>2. Open(k) = {}
    BY <1>a, <2>1
  <2>3. QED
    BY <1>6, <2>2 DEF k
<1>7. CASE e.kind \notin Closers
  <2>1. \A i \in DOMAIN j : After(k, i, Closers) = After(j, i, Closers)
    BY <1>3, <1>7
  <2>2. Open(k) = Open(j) \union (IF e.kind \in Answers THEN {n} ELSE {})
    BY <1>a, <1>1, <1>2, <1>4, <2>1
  <2>3. QED
    BY <1>7, <2>2 DEF k, n
<1>8. QED
  BY <1>6, <1>7

LEMMA OpenAre ==
  ASSUME NEW j \in Seq(Entries), NEW i \in Open(j)
  PROVE  i \in DOMAIN j /\ i \in Places(j, Answers) /\ j[i].kind \in Answers
         /\ i \in Nat /\ Len(j) \in Nat /\ i <= Len(j)
<1>1. i \in Places(j, Answers) /\ Places(j, Answers) \in SUBSET (1 .. Len(j)) /\ Len(j) \in Nat
  BY PlacesAre DEF Open
<1>2. QED
  BY <1>1 DEF Places

-----------------------------------------------------------------------------
\* What is settled, told or superseded stays so.

LEMMA SupersededIs ==
  ASSUME NEW j \in Seq(Entries), NEW i
  PROVE  /\ Superseded(j, i) = 0 <=> After(j, i, Closers) = {}
         /\ Superseded(j, i) # 0 =>
              /\ Superseded(j, i) \in After(j, i, Closers)
              /\ \A k \in After(j, i, Closers) : Superseded(j, i) <= k
<1>1. Superseded(j, i) = FirstOf(After(j, i, Closers))
  BY DEF Superseded, After, Closers
<1>2. After(j, i, Closers) \in SUBSET Nat /\ 0 \notin After(j, i, Closers)
  BY PlacesAre DEF After
<1>3. QED
  BY <1>1, <1>2, FirstOfIs

LEMMA SupersededAppended ==
  ASSUME NEW j \in Seq(Entries), NEW e, NEW i \in DOMAIN j
  PROVE  /\ Superseded(j, i) # 0 => Superseded(Append(j, e), i) = Superseded(j, i)
         /\ Superseded(j, i) = 0 /\ e.kind \in Closers => Superseded(Append(j, e), i) = Len(j) + 1
         /\ Superseded(j, i) = 0 /\ e.kind \notin Closers => Superseded(Append(j, e), i) = 0
<1> DEFINE n == Len(j) + 1
           A == After(j, i, Closers)
           B == After(Append(j, e), i, Closers)
           a == Superseded(j, i)
           b == Superseded(Append(j, e), i)
<1>1. /\ n \in Nat /\ B = A \union (IF e.kind \in Closers THEN {n} ELSE {})
      /\ \A m \in DOMAIN j : m \in Nat /\ m < n
      /\ A \subseteq DOMAIN j
  BY AnyAppended, AfterAppended, PlacesAre DEF After
<1>2. (a = 0 <=> A = {}) /\ (a # 0 => a \in A /\ \A k \in A : a <= k)
  BY SupersededIs
<1>3. /\ b = 0 <=> B = {}
      /\ b # 0 => b \in B /\ \A k \in B : b <= k
  <2>1. (Append(j, e) \in Seq(Entries)) \/ (Append(j, e) \in Seq(Entries \union {e}))
    OBVIOUS
  <2>2. b = FirstOf(B)
    BY DEF Superseded, After, Closers
  <2>3. B \in SUBSET Nat /\ 0 \notin B
    <3>1. \A m \in A : m \in Nat /\ m # 0
      BY PlacesAre DEF After
    <3>2. n # 0
      BY AnyAppended
    <3>3. QED
      BY <1>1, <3>1, <3>2
  <2>4. QED
    BY <2>2, <2>3, FirstOfIs
<1> HIDE DEF A, B, a, b, n
<1>4. ASSUME a # 0 PROVE b = a
  <2>1. a \in A /\ a \in B /\ b # 0 /\ b \in B /\ b <= a
    BY <1>1, <1>2, <1>3, <1>4
  <2>2. a \in Nat /\ a < n /\ b \in Nat
    BY <1>1, <2>1
  <2>3. b # n
    BY <1>1, <2>1, <2>2
  <2>4. b \in A
    BY <1>1, <2>1, <2>3
  <2>5. a <= b
    BY <1>2, <1>4, <2>4
  <2>6. QED
    BY <2>1, <2>2, <2>5
<1>5. ASSUME a = 0, e.kind \in Closers PROVE b = n
  BY <1>1, <1>2, <1>3, <1>5
<1>6. ASSUME a = 0, e.kind \notin Closers PROVE b = 0
  BY <1>1, <1>2, <1>3, <1>6
<1>7. QED
  BY <1>4, <1>5, <1>6 DEF a, b, n

LEMMA EffectStays ==
  ASSUME NEW j \in Seq(Entries), NEW e, NEW i \in DOMAIN j, NEW k \in DOMAIN j, i < k,
         Effect(j, i, k)
  PROVE  Effect(Append(j, e), i, k)
<1> DEFINE q == Append(j, e)
<1>1. ASSUME NEW kinds PROVE Between(q, i, k, kinds) = Between(j, i, k, kinds)
  BY BetweenKept
<1>2. /\ \A m \in DOMAIN j : q[m] = j[m] /\ m \in Nat /\ m < Len(j) + 1
      /\ Len(j) \in Nat /\ i \in Nat /\ k \in Nat
  BY AnyAppended
<1>3. \A kinds : Between(j, i, k, kinds) \subseteq DOMAIN j
  BY PlacesAre DEF Between
<1>4. CutOffAfter(q, i) <=> CutOffAfter(j, i)
  BY <1>2, CutOffAppended
<1>5. Excused(q, i, k) <=> Excused(j, i, k)
  <2> DEFINE s == j[i].step
             K == {"model_call"}
  <2>1. PlacesFor(q, K, s)
          = PlacesFor(j, K, s) \union (IF e.kind \in K /\ e.step = s THEN {Len(j) + 1} ELSE {})
    BY PlacesForAppended
  <2>2. ~(Len(j) + 1 < i)
    BY <1>2
  <2>3. {m \in PlacesFor(q, K, s) : m < i} = {m \in PlacesFor(j, K, s) : m < i}
    BY <2>1, <2>2
  <2>4. q[i].step = s
    BY <1>2
  <2>5. QED
    BY <1>1, <2>3, <2>4 DEF Excused
<1>6. {m \in Between(q, i, k, {"tool"}) : q[m].act = q[i].act}
        = {m \in Between(j, i, k, {"tool"}) : j[m].act = j[i].act}
  BY <1>1, <1>2, <1>3
<1>7. q[i] = j[i] /\ q[k] = j[k]
  BY <1>2
<1> HIDE DEF q
<1>8. QED
  BY <1>1, <1>4, <1>5, <1>6, <1>7 DEF Effect, q

LEMMA SettledStays ==
  ASSUME NEW j \in Seq(Entries), NEW e, NEW i \in DOMAIN j, Settled(j, i)
  PROVE  Settled(Append(j, e), i)
<1> DEFINE q == Append(j, e)
<1>1. /\ \A m \in DOMAIN j : q[m] = j[m]
      /\ \A kinds : Places(j, kinds) \subseteq Places(q, kinds)
      /\ \A kinds : Places(j, kinds) \subseteq DOMAIN j
      /\ \A kinds : After(j, i, kinds) \subseteq After(q, i, kinds)
      /\ \A kinds : After(j, i, kinds) \subseteq DOMAIN j
  BY AnyAppended, AfterAppended, PlacesAre DEF After
<1>2. ASSUME NEW k \in DOMAIN j, NEW kinds PROVE Between(q, i, k, kinds) = Between(j, i, k, kinds)
  BY BetweenKept
<1>3. \A k \in DOMAIN j : CutOffAfter(j, k) => CutOffAfter(q, k)
  BY CutOffAppended
<1> HIDE DEF q
<1>4. CASE \E x \in Places(j, {"tool_result", "tool_denied"}) : j[x].of = i
  BY <1>1, <1>4 DEF Settled, q
<1>5. CASE \E k \in After(j, i, {"tool"}) : j[k].act = j[i].act /\ Between(j, i, k, {"turn_call"}) = {}
  <2>1. PICK k \in After(j, i, {"tool"}) : j[k].act = j[i].act /\ Between(j, i, k, {"turn_call"}) = {}
    BY <1>5
  <2>2. k \in DOMAIN j /\ k \in After(q, i, {"tool"}) /\ q[k] = j[k] /\ q[i] = j[i]
    BY <1>1, <2>1
  <2>3. Between(q, i, k, {"turn_call"}) = {}
    BY <1>2, <2>1, <2>2
  <2>4. Settled(q, i)
    BY <2>1, <2>2, <2>3 DEF Settled
  <2>5. QED
    BY <2>4 DEF q
<1>6. CASE \E k \in After(j, i, {"permission_ask"}) : j[k].of = i /\ CutOffAfter(j, k)
  <2>1. PICK k \in After(j, i, {"permission_ask"}) : j[k].of = i /\ CutOffAfter(j, k)
    BY <1>6
  <2>2. k \in DOMAIN j /\ k \in After(q, i, {"permission_ask"}) /\ q[k] = j[k]
    BY <1>1, <2>1
  <2>3. CutOffAfter(q, k)
    BY <1>3, <2>1, <2>2
  <2>4. Settled(q, i)
    BY <2>1, <2>2, <2>3 DEF Settled
  <2>5. QED
    BY <2>4 DEF q
<1>7. QED
  BY <1>4, <1>5, <1>6 DEF Settled

LEMMA ToldStays ==
  ASSUME NEW j \in Seq(Entries), NEW e \in Entries, NEW m \in DOMAIN j, Told(j, m)
  PROVE  Told(Append(j, e), m)
<1> DEFINE q == Append(j, e)
           told == Conversation(SubSeq(j, 1, m))
<1>1. /\ \A i \in DOMAIN j : q[i] = j[i] /\ i \in Nat /\ i < Len(j) + 1
      /\ m \in Nat /\ Len(j) \in Nat
      /\ \A kinds : Places(q, kinds)
           = Places(j, kinds) \union (IF e.kind \in kinds THEN {Len(j) + 1} ELSE {})
      /\ \A kinds : Places(j, kinds) \subseteq DOMAIN j
      /\ Len(q) = Len(j) + 1 /\ DOMAIN q = DOMAIN j \union {Len(j) + 1}
      /\ m <= Len(j) /\ 1 <= m
  BY AnyAppended, PlacesAre
<1>2. SubSeq(q, 1, m) = SubSeq(j, 1, m)
  BY <1>1
<1>3. ~(Len(j) + 1 < m)
  BY <1>1
<1>4. \A k \in DOMAIN j : CutOffAfter(j, k) => CutOffAfter(q, k)
  BY CutOffAppended
<1>5. ASSUME NEW i, NEW k \in DOMAIN j, NEW kinds
      PROVE  Between(q, i, k, kinds) = Between(j, i, k, kinds)
  BY BetweenKept
<1>6. \A i : \A kinds : Between(j, i, m, kinds) \subseteq DOMAIN j
  BY <1>1 DEF Between
<1> HIDE DEF q, told
<1>7. ASSUME NEW i \in Places(q, {"tool"}), i < m
      PROVE  \/ \E x \in DOMAIN told : told[x] = i
             \/ \E k \in Between(q, i, m, {"tool"}) :
                  q[k].act = q[i].act /\ Between(q, i, k, {"turn_call"}) = {}
             \/ \E k \in Between(q, i, m, {"permission_ask"}) : q[k].of = i /\ CutOffAfter(q, k)
  <2>1. i \in Places(j, {"tool"}) /\ i \in DOMAIN j
    BY <1>1, <1>3, <1>7
  <2>2. \/ \E x \in DOMAIN told : told[x] = i
        \/ \E k \in Between(j, i, m, {"tool"}) :
             j[k].act = j[i].act /\ Between(j, i, k, {"turn_call"}) = {}
        \/ \E k \in Between(j, i, m, {"permission_ask"}) : j[k].of = i /\ CutOffAfter(j, k)
    BY <1>7, <2>1 DEF Told, told
  <2>3. CASE \E x \in DOMAIN told : told[x] = i
    BY <2>3
  <2>4. CASE \E k \in Between(j, i, m, {"tool"}) :
               j[k].act = j[i].act /\ Between(j, i, k, {"turn_call"}) = {}
    <3>1. PICK k \in Between(j, i, m, {"tool"}) :
                 j[k].act = j[i].act /\ Between(j, i, k, {"turn_call"}) = {}
      BY <2>4
    <3>2. k \in DOMAIN j
      BY <1>6, <3>1
    <3>3. k \in Between(q, i, m, {"tool"}) /\ Between(q, i, k, {"turn_call"}) = {}
          /\ q[k] = j[k] /\ q[i] = j[i]
      BY <1>1, <1>5, <2>1, <3>1, <3>2
    <3>4. QED
      BY <3>1, <3>3
  <2>5. CASE \E k \in Between(j, i, m, {"permission_ask"}) : j[k].of = i /\ CutOffAfter(j, k)
    <3>1. PICK k \in Between(j, i, m, {"permission_ask"}) : j[k].of = i /\ CutOffAfter(j, k)
      BY <2>5
    <3>2. k \in DOMAIN j
      BY <1>6, <3>1
    <3>3. k \in Between(q, i, m, {"permission_ask"}) /\ q[k] = j[k] /\ CutOffAfter(q, k)
      BY <1>1, <1>4, <1>5, <2>1, <3>1, <3>2
    <3>4. QED
      BY <3>1, <3>3
  <2>6. QED
    BY <2>2, <2>3, <2>4, <2>5
<1>8. ASSUME NEW i \in Questions(q), i < m
      PROVE  (\E x \in DOMAIN told : told[x] = i) \/ CutOffAfter(q, i)
  <2>1. i \in Questions(j) /\ i \in DOMAIN j
    BY <1>1, <1>3, <1>8 DEF Questions
  <2>2. (\E x \in DOMAIN told : told[x] = i) \/ CutOffAfter(j, i)
    BY <1>8, <2>1 DEF Told, told
  <2>3. QED
    BY <1>4, <2>1, <2>2
<1>9. told = Conversation(SubSeq(q, 1, m))
  BY <1>2 DEF told
<1>10. Told(q, m)
  BY <1>7, <1>8, <1>9 DEF Told
<1>11. QED
  BY <1>10 DEF q

-----------------------------------------------------------------------------
\* What each part of the record asks of the entry that is appended.

Follows(j, e) == j # <<>> => MayFollow(j[Len(j)], e)

LEMMA GenuineAppended ==
  ASSUME NEW j \in Seq(Entries), NEW e, Genuine(j), Fresh(j, e),
         e.kind \in Answers => e.act \in StepActions,
         e.kind = "plan_completion" => e.act.kind # "ask"
  PROVE  Genuine(Append(j, e))
<1> DEFINE q == Append(j, e)
           n == Len(j) + 1
<1>1. /\ q[n] = e /\ DOMAIN q = DOMAIN j \union {n}
      /\ \A i \in DOMAIN j : q[i] = j[i]
      /\ \A kinds : Places(q, kinds) = Places(j, kinds) \union (IF e.kind \in kinds THEN {n} ELSE {})
      /\ \A kinds : Places(j, kinds) \subseteq DOMAIN j
  BY AnyAppended, PlacesAre
<1> HIDE DEF q, n
<1>2. \A i \in DOMAIN q : q[i].of # 0 => q[i].kind \in Outcomes
  BY <1>1 DEF Genuine, Fresh
<1>3. \A i \in Places(q, Answers) : q[i].act \in StepActions
  BY <1>1 DEF Genuine
<1>4. \A i \in Places(q, {"plan_completion"}) : q[i].act.kind # "ask"
  BY <1>1 DEF Genuine
<1>5. Genuine(q)
  BY <1>2, <1>3, <1>4 DEF Genuine
<1>6. QED
  BY <1>5 DEF q

LEMMA SeamlessAppended ==
  ASSUME NEW j \in Seq(Entries), NEW e, Seamless(j), Follows(j, e)
  PROVE  Seamless(Append(j, e))
<1> DEFINE q == Append(j, e)
           n == Len(j) + 1
<1>1. /\ q[n] = e /\ DOMAIN q = DOMAIN j \union {n} /\ Len(j) \in Nat
      /\ \A i \in DOMAIN j : q[i] = j[i] /\ i \in Nat /\ i < n
  BY AnyAppended
<1>2. SUFFICES ASSUME NEW i \in DOMAIN q, NEW k \in DOMAIN q, k = i + 1
               PROVE  MayFollow(q[i], q[k])
  BY DEF Seamless
<1>3. CASE k \in DOMAIN j
  <2>1. k \in Nat /\ k < n
    BY <1>1, <1>3
  <2>2. i # n
    BY <1>1, <1>2, <2>1
  <2>3. i \in DOMAIN j
    BY <1>1, <2>2
  <2>4. MayFollow(j[i], j[k])
    BY <1>2, <1>3, <2>3 DEF Seamless
  <2>5. QED
    BY <1>1, <1>3, <2>3, <2>4
<1>4. CASE k = n
  <2>1. i # n
    BY <1>1, <1>2, <1>4
  <2>2. i \in DOMAIN j
    BY <1>1, <2>1
  <2>3. i = Len(j)
    BY <1>1, <1>2, <1>4, <2>2
  <2>4. j # <<>>
    BY <2>2
  <2>5. QED
    BY <1>1, <1>4, <2>2, <2>3, <2>4 DEF Follows
<1>5. QED
  BY <1>1, <1>3, <1>4

LEMMA CallsSettledAppended ==
  ASSUME NEW j \in Seq(Entries), NEW e \in Entries, CallsSettled(j), Fresh(j, e),
         e.kind = "tool" /\ LastToolCall(j) # 0 => Settled(Append(j, e), LastToolCall(j)),
         e.kind = "turn_call" => InterruptedToolCall(j) = 0
  PROVE  CallsSettled(Append(j, e))
<1> DEFINE q == Append(j, e)
           n == Len(j) + 1
<1>1. LastToolCall(q) = IF e.kind = "tool" THEN n ELSE LastToolCall(j)
  BY LastToolAppended
<1>2. /\ Places(q, {"tool"}) = Places(j, {"tool"}) \union (IF e.kind \in {"tool"} THEN {n} ELSE {})
      /\ Places(j, {"tool"}) \subseteq DOMAIN j
  BY AnyAppended, PlacesAre
<1>3. ASSUME NEW i \in Places(q, {"tool"}), i # LastToolCall(q)
      PROVE  Settled(q, i)
  <2>1. i \in Places(j, {"tool"}) /\ i \in DOMAIN j
    BY <1>1, <1>2, <1>3
  <2>2. CASE i # LastToolCall(j)
    <3>1. Settled(j, i)
      BY <2>1, <2>2 DEF CallsSettled
    <3>2. QED
      BY <2>1, <3>1, SettledStays
  <2>3. CASE i = LastToolCall(j)
    <3>1. e.kind = "tool" /\ i # 0
      BY <1>1, <1>3, <2>1, <2>3, LastToolIs
    <3>2. QED
      BY <2>3, <3>1
  <2>4. QED
    BY <2>2, <2>3
<1>4. ASSUME InterruptedToolCall(q) # 0
      PROVE  After(q, LastToolCall(q), {"turn_call"}) = {}
  <2>1. CASE e.kind = "tool"
    BY <1>1, <2>1, AfterAppended
  <2>2. CASE e.kind # "tool"
    <3>1. InterruptedToolCall(j) # 0
      BY <1>4, <2>2, InterruptedAppended
    <3>2. After(j, LastToolCall(j), {"turn_call"}) = {} /\ e.kind # "turn_call"
      BY <3>1 DEF CallsSettled
    <3>3. LastToolCall(j) \in DOMAIN j
      BY <3>1, InterruptedIs, LastToolIs
    <3>4. After(q, LastToolCall(j), {"turn_call"})
            = After(j, LastToolCall(j), {"turn_call"})
                \union (IF e.kind \in {"turn_call"} THEN {n} ELSE {})
      BY <3>3, AfterAppended
    <3>5. QED
      BY <1>1, <2>2, <3>2, <3>4
  <2>3. QED
    BY <2>1, <2>2
<1> HIDE DEF q
<1>5. CallsSettled(q)
  BY <1>3, <1>4 DEF CallsSettled
<1>6. QED
  BY <1>5 DEF q

LEMMA OpenIs ==
  ASSUME NEW j \in Seq(Entries), NEW i \in Places(j, Answers)
  PROVE  i \in Open(j) <=> Superseded(j, i) = 0
BY SupersededIs DEF Open

LEMMA EffectiveAppended ==
  ASSUME NEW j \in Seq(Entries), NEW e, Effective(j),
         e.kind \in Closers => \A i \in Open(j) : Effect(Append(j, e), i, Len(j) + 1)
  PROVE  Effective(Append(j, e))
<1> DEFINE q == Append(j, e)
           n == Len(j) + 1
<1>1. /\ Places(q, Answers) = Places(j, Answers) \union (IF e.kind \in Answers THEN {n} ELSE {})
      /\ Places(j, Answers) \subseteq DOMAIN j
  BY AnyAppended, PlacesAre
<1>2. SUFFICES ASSUME NEW i \in Places(q, Answers), Superseded(q, i) # 0
               PROVE  Effect(q, i, Superseded(q, i))
  BY DEF Effective
<1>3. i \in Places(j, Answers) /\ i \in DOMAIN j
  <2>1. CASE i = n
    <3>1. n \notin Places(j, Answers) /\ e.kind \in Answers
      BY <1>1, <1>2, <2>1, AnyAppended
    <3>2. After(q, n, Closers) = {}
      BY AfterAppended
    <3>3. Superseded(q, n) = FirstOf(After(q, n, Closers))
      BY DEF Superseded, After, Closers
    <3>4. FirstOf({}) = 0
      BY DEF FirstOf
    <3>5. QED
      BY <1>2, <2>1, <3>2, <3>3, <3>4
  <2>2. QED
    BY <1>1, <1>2, <2>1
<1>4. CASE Superseded(j, i) # 0
  <2> DEFINE k == Superseded(j, i)
  <2>1. Superseded(q, i) = k
    BY <1>3, <1>4, SupersededAppended
  <2>2. k \in After(j, i, Closers)
    BY <1>4, SupersededIs
  <2>3. k \in DOMAIN j /\ i < k
    BY <2>2, <1>3, PlacesAre DEF After
  <2>4. Effect(j, i, k)
    BY <1>3, <1>4 DEF Effective
  <2> HIDE DEF k
  <2>5. QED
    BY <1>3, <2>1, <2>3, <2>4, EffectStays
<1>5. CASE Superseded(j, i) = 0
  <2>1. e.kind \in Closers
    BY <1>2, <1>3, <1>5, SupersededAppended
  <2>2. Superseded(q, i) = n /\ i \in Open(j)
    BY <1>3, <1>5, <2>1, SupersededAppended, OpenIs
  <2>3. QED
    BY <2>1, <2>2
<1>6. QED
  BY <1>4, <1>5

\* Counting what comes after i.
LEMMA AfterCounted ==
  ASSUME NEW j \in Seq(Entries), NEW e, NEW i \in DOMAIN j, NEW kinds
  PROVE  /\ IsFiniteSet(After(j, i, kinds)) /\ Cardinality(After(j, i, kinds)) \in Nat
         /\ Cardinality(After(j, i, kinds)) = 0 <=> After(j, i, kinds) = {}
         /\ Cardinality(After(Append(j, e), i, kinds))
              = Cardinality(After(j, i, kinds)) + (IF e.kind \in kinds THEN 1 ELSE 0)
<1>1. IsFiniteSet(After(j, i, kinds)) /\ Cardinality(After(j, i, kinds)) \in Nat
  <2>1. IsFiniteSet(Places(j, kinds))
    BY CountTyped
  <2>2. After(j, i, kinds) \subseteq Places(j, kinds)
    BY DEF After
  <2>3. QED
    BY <2>1, <2>2, FS_Subset, FS_CardinalityType
<1>2. Cardinality(After(j, i, kinds)) = 0 <=> After(j, i, kinds) = {}
  BY <1>1, FS_EmptySet
<1>3. After(Append(j, e), i, kinds)
        = After(j, i, kinds) \union (IF e.kind \in kinds THEN {Len(j) + 1} ELSE {})
  BY AfterAppended
<1>4. Len(j) + 1 \notin After(j, i, kinds)
  BY AnyAppended, PlacesAre DEF After
<1>5. Cardinality(After(j, i, kinds) \union {Len(j) + 1}) = Cardinality(After(j, i, kinds)) + 1
  BY <1>1, <1>4, FS_AddElement
<1>6. CASE e.kind \in kinds
  BY <1>1, <1>2, <1>3, <1>5, <1>6
<1>7. CASE e.kind \notin kinds
  <2>1. After(Append(j, e), i, kinds) = After(j, i, kinds)
    BY <1>3, <1>7
  <2>2. QED
    BY <1>1, <1>2, <1>7, <2>1
<1>8. QED
  BY <1>6, <1>7

LEMMA PursuedAppended ==
  ASSUME NEW j \in Seq(Entries), NEW e \in Entries, NEW i \in Open(j), Pursued(j, i),
         Fresh(j, e), e.kind # "tool",
         e.kind = "plan_scope_expansion" => j[i].act # Finish
  PROVE  Pursued(Append(j, e), i)
<1> DEFINE q == Append(j, e)
<1>1. i \in DOMAIN j
  BY OpenAre
<1>2. q[i] = j[i] /\ \A m \in DOMAIN j : q[m] = j[m]
  BY <1>1, AnyAppended
<1>3. After(q, i, {"tool"}) = After(j, i, {"tool"})
  <2>1. After(q, i, {"tool"})
          = After(j, i, {"tool"}) \union (IF e.kind \in {"tool"} THEN {Len(j) + 1} ELSE {})
    BY <1>1, AfterAppended
  <2>2. QED
    BY <2>1
<1>4. After(j, i, {"tool"}) \subseteq DOMAIN j
  BY PlacesAre DEF After
<1>5. After(j, i, {"tool"}) = {} => InterruptedToolCall(q) = 0
  BY InterruptedAppended DEF Pursued
<1>6. \A m \in After(j, i, {"tool"}) : q[m].act = q[i].act /\ q[i].act.kind = "tool"
  BY <1>2, <1>4 DEF Pursued
<1>7. Cardinality(After(j, i, {"tool"})) <= 1 + Cardinality(After(q, i, {"note"}))
  <2> DEFINE a == Cardinality(After(j, i, {"tool"}))
             b == Cardinality(After(j, i, {"note"}))
             c == Cardinality(After(q, i, {"note"}))
  <2>1. a \in Nat /\ b \in Nat
    BY <1>1, AfterCounted
  <2>2. c = b + (IF e.kind \in {"note"} THEN 1 ELSE 0)
    BY <1>1, AfterCounted
  <2>3. a <= 1 + b
    BY DEF Pursued
  <2> HIDE DEF a, b, c
  <2>4. a <= 1 + c
    BY <2>1, <2>2, <2>3
  <2>5. QED
    BY <2>4 DEF a, c
<1>8. j[i].act = Finish => After(q, i, {"plan_scope_expansion"}) = {}
  <2>1. After(q, i, {"plan_scope_expansion"})
          = After(j, i, {"plan_scope_expansion"})
              \union (IF e.kind \in {"plan_scope_expansion"} THEN {Len(j) + 1} ELSE {})
    BY <1>1, AfterAppended
  <2>2. QED
    BY <2>1 DEF Pursued
<1> HIDE DEF q
<1>9. Pursued(q, i)
  BY <1>2, <1>3, <1>5, <1>6, <1>7, <1>8 DEF Pursued
<1>10. QED
  BY <1>9 DEF q

LEMMA ToolPursued ==
  ASSUME NEW j \in Seq(Entries), NEW e \in Entries, NEW i \in Open(j), Pursued(j, i),
         e.kind = "tool", e.act = j[i].act, e.act.kind = "tool",
         Cardinality(After(j, i, {"tool"})) <= Cardinality(After(j, i, {"note"}))
  PROVE  Pursued(Append(j, e), i)
<1> DEFINE q == Append(j, e)
           n == Len(j) + 1
<1>1. i \in DOMAIN j
  BY OpenAre
<1>2. q[i] = j[i] /\ q[n] = e /\ \A m \in DOMAIN j : q[m] = j[m]
  BY <1>1, AnyAppended
<1>3. After(q, i, {"tool"}) = After(j, i, {"tool"}) \union {n}
  <2>1. After(q, i, {"tool"})
          = After(j, i, {"tool"}) \union (IF e.kind \in {"tool"} THEN {n} ELSE {})
    BY <1>1, AfterAppended
  <2>2. QED
    BY <2>1
<1>4. After(j, i, {"tool"}) \subseteq DOMAIN j
  BY PlacesAre DEF After
<1>5. \A m \in After(q, i, {"tool"}) : q[m].act = q[i].act /\ q[i].act.kind = "tool"
  BY <1>2, <1>3, <1>4 DEF Pursued
<1>6. Cardinality(After(q, i, {"tool"})) <= 1 + Cardinality(After(q, i, {"note"}))
  <2> DEFINE a == Cardinality(After(j, i, {"tool"}))
             b == Cardinality(After(j, i, {"note"}))
             c == Cardinality(After(q, i, {"note"}))
             d == Cardinality(After(q, i, {"tool"}))
  <2>1. a \in Nat /\ b \in Nat
    BY <1>1, AfterCounted
  <2>2. c = b + (IF e.kind \in {"note"} THEN 1 ELSE 0)
    BY <1>1, AfterCounted
  <2>3. d = a + (IF e.kind \in {"tool"} THEN 1 ELSE 0)
    BY <1>1, AfterCounted
  <2>4. a <= b
    OBVIOUS
  <2> HIDE DEF a, b, c, d
  <2>5. d <= 1 + c
    BY <2>1, <2>2, <2>3, <2>4
  <2>6. QED
    BY <2>5 DEF d, c
<1>7. After(q, i, {"plan_scope_expansion"}) = After(j, i, {"plan_scope_expansion"})
  <2>1. After(q, i, {"plan_scope_expansion"})
          = After(j, i, {"plan_scope_expansion"})
              \union (IF e.kind \in {"plan_scope_expansion"} THEN {n} ELSE {})
    BY <1>1, AfterAppended
  <2>2. QED
    BY <2>1
<1> HIDE DEF q
<1>8. Pursued(q, i)
  BY <1>2, <1>3, <1>5, <1>6, <1>7 DEF Pursued
<1>9. QED
  BY <1>8 DEF q

LEMMA NewPursued ==
  ASSUME NEW j \in Seq(Entries), NEW e \in Entries, Fresh(j, e),
         e.kind # "tool", InterruptedToolCall(j) = 0
  PROVE  Pursued(Append(j, e), Len(j) + 1)
<1> DEFINE q == Append(j, e)
           n == Len(j) + 1
<1>1. After(q, n, {"tool"}) = {} /\ After(q, n, {"note"}) = {} /\ After(q, n, {"plan_scope_expansion"}) = {}
  BY AfterAppended
<1>2. InterruptedToolCall(q) = 0
  BY InterruptedAppended
<1>3. Cardinality({}) <= 1 + Cardinality({})
  <2>1. Cardinality({}) = 0
    BY FS_EmptySet
  <2>2. QED
    BY <2>1
<1> HIDE DEF q, n
<1>4. Pursued(q, n)
  BY <1>1, <1>2, <1>3 DEF Pursued
<1>5. QED
  BY <1>4 DEF q, n

-----------------------------------------------------------------------------
\* The record with one more entry, by what the entry is.

LEMMA SideRecorded ==
  ASSUME NEW j \in Seq(Entries), NEW e \in Entries, Recorded(j), Fresh(j, e), Follows(j, e),
         e.kind # "tool", e.kind \notin Closers, e.kind \notin Answers,
         e.kind = "plan_completion" => e.act.kind # "ask",
         e.kind = "plan_scope_expansion" => \A i \in Open(j) : j[i].act # Finish
  PROVE  Recorded(Append(j, e)) /\ Open(Append(j, e)) = Open(j)
<1>1. Genuine(Append(j, e))
  BY GenuineAppended DEF Recorded
<1>2. Seamless(Append(j, e))
  BY SeamlessAppended DEF Recorded
<1>3. CallsSettled(Append(j, e))
  <2>1. e.kind # "turn_call"
    BY DEF Closers, ModelCall
  <2>2. QED
    BY <2>1, CallsSettledAppended DEF Recorded
<1>4. Effective(Append(j, e))
  BY EffectiveAppended DEF Recorded
<1>5. Open(Append(j, e)) = Open(j)
  BY OpenAppended
<1>6. ASSUME NEW i \in Open(j) PROVE Pursued(Append(j, e), i)
  BY PursuedAppended DEF Recorded
<1>7. QED
  BY <1>1, <1>2, <1>3, <1>4, <1>5, <1>6 DEF Recorded

LEMMA ToolRecorded ==
  ASSUME NEW j \in Seq(Entries), NEW e \in Entries, Recorded(j), e.of = 0, Follows(j, e),
         e.kind = "tool",
         LastToolCall(j) # 0 => Settled(Append(j, e), LastToolCall(j)),
         \A i \in Open(j) :
           /\ e.act = j[i].act /\ e.act.kind = "tool"
           /\ Cardinality(After(j, i, {"tool"})) <= Cardinality(After(j, i, {"note"}))
  PROVE  Recorded(Append(j, e)) /\ Open(Append(j, e)) = Open(j)
<1>0. Fresh(j, e) /\ e.kind \notin Closers /\ e.kind \notin Answers
  BY DEF Fresh, Closers, Answers, ModelCall
<1>1. Genuine(Append(j, e))
  BY <1>0, GenuineAppended DEF Recorded
<1>2. Seamless(Append(j, e))
  BY SeamlessAppended DEF Recorded
<1>3. CallsSettled(Append(j, e))
  BY <1>0, CallsSettledAppended DEF Recorded
<1>4. Effective(Append(j, e))
  BY <1>0, EffectiveAppended DEF Recorded
<1>5. Open(Append(j, e)) = Open(j)
  BY <1>0, OpenAppended
<1>6. ASSUME NEW i \in Open(j) PROVE Pursued(Append(j, e), i)
  BY ToolPursued DEF Recorded
<1>7. QED
  BY <1>1, <1>2, <1>3, <1>4, <1>5, <1>6 DEF Recorded

LEMMA CloserRecorded ==
  ASSUME NEW j \in Seq(Entries), NEW e \in Entries, Recorded(j), e.of = 0, Follows(j, e),
         e.kind \in Closers,
         e.kind = "turn_call" => InterruptedToolCall(j) = 0,
         \A i \in Open(j) : Effect(Append(j, e), i, Len(j) + 1)
  PROVE  Recorded(Append(j, e)) /\ Open(Append(j, e)) = {}
<1>0. Fresh(j, e) /\ e.kind # "tool" /\ e.kind \notin Answers /\ e.kind # "plan_completion"
  BY DEF Fresh, Closers, Answers, ModelCall
<1>1. Genuine(Append(j, e))
  BY <1>0, GenuineAppended DEF Recorded
<1>2. Seamless(Append(j, e))
  BY SeamlessAppended DEF Recorded
<1>3. CallsSettled(Append(j, e))
  BY <1>0, CallsSettledAppended DEF Recorded
<1>4. Effective(Append(j, e))
  BY <1>0, EffectiveAppended DEF Recorded
<1>5. Open(Append(j, e)) = {}
  BY <1>0, OpenAppended
<1>6. QED
  BY <1>1, <1>2, <1>3, <1>4, <1>5 DEF Recorded

LEMMA AnswerRecorded ==
  ASSUME NEW j \in Seq(Entries), NEW e \in Entries, Recorded(j), e.of = 0, Follows(j, e),
         e.kind \in Answers, e.act \in StepActions, InterruptedToolCall(j) = 0, Open(j) = {}
  PROVE  Recorded(Append(j, e)) /\ Open(Append(j, e)) = {Len(j) + 1}
<1>0. /\ Fresh(j, e) /\ e.kind # "tool" /\ e.kind \notin Closers /\ e.kind # "plan_completion"
      /\ e.kind # "turn_call" /\ e.kind # "plan_scope_expansion"
  BY DEF Fresh, Closers, Answers, ModelCall
<1>1. Genuine(Append(j, e))
  BY <1>0, GenuineAppended DEF Recorded
<1>2. Seamless(Append(j, e))
  BY SeamlessAppended DEF Recorded
<1>3. CallsSettled(Append(j, e))
  BY <1>0, CallsSettledAppended DEF Recorded
<1>4. Effective(Append(j, e))
  BY <1>0, EffectiveAppended DEF Recorded
<1>5. Open(Append(j, e)) = {Len(j) + 1}
  BY <1>0, OpenAppended
<1>6. Pursued(Append(j, e), Len(j) + 1)
  BY <1>0, NewPursued
<1>8. QED
  BY <1>1, <1>2, <1>3, <1>4, <1>5, <1>6 DEF Recorded

\* What is told to the turns there were.
LEMMA ToldKept ==
  ASSUME NEW j \in Seq(Entries), NEW e \in Entries, AllTold(j),
         e.kind = "turn_call" => Told(Append(j, e), Len(j) + 1)
  PROVE  AllTold(Append(j, e))
<1> DEFINE K == {"turn_call"}
<1>1. Places(Append(j, e), K) = Places(j, K) \union (IF e.kind \in K THEN {Len(j) + 1} ELSE {})
  BY AnyAppended
<1>2. Places(j, K) \subseteq DOMAIN j
  BY PlacesAre
<1>3. ASSUME NEW m \in Places(j, K) PROVE Told(Append(j, e), m)
  BY <1>2, <1>3, ToldStays DEF AllTold
<1>4. QED
  BY <1>1, <1>3 DEF AllTold

\* How the last call ended is told, or a kill cut its prompt off.
LEMMA LastCallSettled ==
  ASSUME NEW j \in Seq(Entries), Genuine(j), Seamless(j), InterruptedToolCall(j) = 0,
         LastToolCall(j) # 0, j[Len(j)].kind # "permission_ask"
  PROVE  Settled(j, LastToolCall(j))
<1> DEFINE i == LastToolCall(j)
<1>1. OutcomesOf(j, i) # {}
  BY InterruptedIs
<1>2. PICK k \in DOMAIN j : k > i /\ j[k].of = i
  BY <1>1 DEF OutcomesOf
<1>3. j[k].kind \in Outcomes
  BY <1>2 DEF Genuine
<1>4. CASE j[k].kind \in {"tool_result", "tool_denied"}
  BY <1>2, <1>4 DEF Settled, Places
<1>5. CASE j[k].kind = "permission_ask"
  <2>1. k # Len(j) /\ DOMAIN j = 1 .. Len(j) /\ Len(j) \in Nat
    BY <1>5
  <2>2. k + 1 \in DOMAIN j /\ k < Len(j)
    BY <2>1
  <2>3. MayFollow(j[k], j[k + 1])
    BY <2>2 DEF Seamless
  <2>4. CASE j[k + 1].kind = "note"
    <3>1. CutOffAfter(j, k) /\ k \in After(j, i, {"permission_ask"})
      BY <1>2, <1>5, <2>2, <2>4 DEF CutOffAfter, After, Places
    <3>2. QED
      BY <1>2, <3>1 DEF Settled
  <2>5. CASE j[k + 1].kind \in {"tool_result", "tool_denied"} /\ j[k + 1].of = j[k].of
    <3>1. k + 1 \in Places(j, {"tool_result", "tool_denied"}) /\ j[k + 1].of = i
      BY <1>2, <2>2, <2>5 DEF Places
    <3>2. QED
      BY <3>1 DEF Settled
  <2>6. QED
    BY <1>5, <2>3, <2>4, <2>5 DEF MayFollow
<1>6. QED
  BY <1>3, <1>4, <1>5 DEF Outcomes

LEMMA AskIs == \A a \in StepActions : a.kind = "ask" => a = Ask
BY DEF StepActions, ToolCall, Finish, Ask

\* Every question of a turn was answered or cut off.
LEMMA QuestionAnswered ==
  ASSUME NEW j \in Seq(Entries), Genuine(j), Seamless(j), Places(j, {"step_completion"}) = {},
         j # <<>> => j[Len(j)].kind # "turn_completion",
         NEW i \in Questions(j)
  PROVE  \/ CutOffAfter(j, i)
         \/ i + 1 \in Places(j, {"user_response"}) /\ QuestionOf(j, i + 1) = i
<1>1. /\ DOMAIN j = 1 .. Len(j) /\ Len(j) \in Nat
      /\ i \in DOMAIN j /\ j[i].kind \in ModelCompletion /\ j[i].act.kind = "ask"
  BY DEF Questions, Places
<1>2. j[i].kind = "turn_completion"
  <2>1. j[i].kind # "plan_completion"
    BY <1>1 DEF Genuine, Places
  <2>2. j[i].kind # "step_completion"
    BY <1>1 DEF Places
  <2>3. QED
    BY <1>1, <2>1, <2>2 DEF ModelCompletion
<1>3. j[i].act = Ask
  <2>1. i \in Places(j, Answers)
    BY <1>1, <1>2 DEF Places, Answers
  <2>2. j[i].act \in StepActions
    BY <2>1 DEF Genuine
  <2>3. QED
    BY <1>1, <2>2, AskIs
<1>4. i # Len(j)
  <2>1. j # <<>>
    BY <1>1
  <2>2. QED
    BY <1>2, <2>1
<1>5. i + 1 \in DOMAIN j /\ i < Len(j) /\ i \in Nat
  BY <1>1, <1>4
<1>6. MayFollow(j[i], j[i + 1])
  BY <1>1, <1>5 DEF Seamless
<1>7. j[i].act.kind # "tool"
  BY <1>1
<1>8. CASE j[i + 1].kind = "note"
  BY <1>5, <1>8 DEF CutOffAfter
<1>9. CASE j[i + 1].kind = "user_response"
  <2> DEFINE S == {k \in Questions(j) : k < i + 1}
             n == Len(j)
  <2>1. i + 1 \in Places(j, {"user_response"})
    BY <1>5, <1>9 DEF Places
  <2>2. Questions(j) \in SUBSET (1 .. n)
    BY <1>1 DEF Questions, Places
  <2>3. S \in SUBSET (1 .. n) /\ i \in S /\ n \in Nat
    BY <1>1, <1>5, <2>2
  <2>4. LastOf(S) \in S /\ \A k \in S : k <= LastOf(S)
    <3> HIDE DEF S, n
    <3> QED BY <2>3, LastOfIs
  <2>5. LastOf(S) = i
    BY <2>2, <2>3, <2>4, <1>5
  <2>6. ~\E k \in Places(j, {"user_response"}) : i < k /\ k < i + 1
    <3>1. \A k \in Places(j, {"user_response"}) : k \in Nat
      BY PlacesAre
    <3>2. QED
      BY <1>5, <3>1
  <2>7. QuestionOf(j, i + 1) = i
    BY <2>5, <2>6 DEF QuestionOf
  <2>8. QED
    BY <2>1, <2>7
<1>10. QED
  BY <1>2, <1>6, <1>7, <1>8, <1>9 DEF MayFollow

\* A turn that is requested is told everything.
LEMMA TurnTold ==
  ASSUME NEW j \in Seq(Entries), NEW e \in Entries, Recorded(j), e.kind = "turn_call",
         InterruptedToolCall(j) = 0, Places(j, {"step_completion"}) = {},
         j # <<>> => j[Len(j)].kind \notin {"permission_ask", "turn_completion"}
  PROVE  Told(Append(j, e), Len(j) + 1)
<1> DEFINE q == Append(j, e)
           n == Len(j) + 1
           told == Conversation(q)
           K == {"tool_result", "tool_denied", "user_response"}
<1>1. /\ \A i \in DOMAIN j : q[i] = j[i] /\ i \in Nat /\ i < n
      /\ Len(j) \in Nat /\ n \in Nat /\ n \notin DOMAIN j
      /\ \A kinds : Places(q, kinds) = Places(j, kinds) \union (IF e.kind \in kinds THEN {n} ELSE {})
      /\ \A kinds : Places(j, kinds) \subseteq DOMAIN j
      /\ DOMAIN q = DOMAIN j \union {n} /\ q[n] = e
  BY AnyAppended, PlacesAre
<1>2. SubSeq(q, 1, n) = q
  <2>1. q \in Seq(Entries) /\ Len(q) = n
    OBVIOUS
  <2>2. QED
    BY <2>1
<1>3. /\ Genuine(j) /\ Seamless(j) /\ CallsSettled(j)
  BY DEF Recorded
<1>4. Places(q, K) = Places(j, K) /\ DOMAIN told = Places(j, K)
  <2>1. Places(q, K) = Places(j, K) \union (IF e.kind \in K THEN {n} ELSE {})
    BY <1>1
  <2>2. e.kind \notin K
    OBVIOUS
  <2>3. Places(q, K) = Places(j, K)
    BY <2>1, <2>2
  <2>4. DOMAIN told = Places(q, K)
    BY DEF Conversation
  <2>5. QED
    BY <2>3, <2>4
<1>5. \A x \in Places(j, {"tool_result", "tool_denied"}) : x \in DOMAIN told /\ told[x] = j[x].of
  <2> TAKE x \in Places(j, {"tool_result", "tool_denied"})
  <2>1. x \in Places(j, K) /\ x \in DOMAIN j /\ j[x].kind # "user_response"
    BY DEF Places
  <2>2. told[x] = q[x].of
    BY <1>1, <1>4, <2>1 DEF Conversation
  <2>3. QED
    BY <1>1, <1>4, <2>1, <2>2
<1>6. \A x \in Places(j, {"user_response"}) : x \in DOMAIN told /\ told[x] = QuestionOf(j, x)
  <2> TAKE x \in Places(j, {"user_response"})
  <2>1. x \in Places(j, K) /\ x \in DOMAIN j /\ j[x].kind = "user_response"
    BY DEF Places
  <2>2. told[x] = QuestionOf(q, x)
    BY <1>1, <1>4, <2>1 DEF Conversation
  <2>3. Places(q, ModelCompletion) = Places(j, ModelCompletion)
        /\ Places(q, {"user_response"}) = Places(j, {"user_response"})
    <3>1. e.kind \notin ModelCompletion /\ e.kind \notin {"user_response"}
      BY DEF ModelCompletion
    <3>2. /\ Places(q, ModelCompletion)
               = Places(j, ModelCompletion) \union (IF e.kind \in ModelCompletion THEN {n} ELSE {})
          /\ Places(q, {"user_response"})
               = Places(j, {"user_response"})
                   \union (IF e.kind \in {"user_response"} THEN {n} ELSE {})
      BY <1>1
    <3>3. QED
      BY <3>1, <3>2
  <2>4. Questions(q) = Questions(j)
    BY <1>1, <2>3 DEF Questions
  <2>5. QuestionOf(q, x) = QuestionOf(j, x)
    BY <2>3, <2>4 DEF QuestionOf
  <2>6. QED
    BY <1>4, <2>1, <2>2, <2>5
<1> HIDE DEF told
<1>7. ASSUME NEW i \in Places(q, {"tool"}), i < n
      PROVE  \/ \E x \in DOMAIN told : told[x] = i
             \/ \E k \in Between(q, i, n, {"tool"}) :
                  q[k].act = q[i].act /\ Between(q, i, k, {"turn_call"}) = {}
             \/ \E k \in Between(q, i, n, {"permission_ask"}) : q[k].of = i /\ CutOffAfter(q, k)
  <2>1. i \in Places(j, {"tool"}) /\ i \in DOMAIN j
    BY <1>1, <1>7
  <2>2. Settled(j, i)
    <3>1. CASE i # LastToolCall(j)
      BY <1>3, <2>1, <3>1 DEF CallsSettled
    <3>2. CASE i = LastToolCall(j)
      <4>1. LastToolCall(j) # 0 /\ j # <<>>
        BY <2>1, LastToolIs
      <4>2. j[Len(j)].kind # "permission_ask"
        BY <4>1
      <4>3. QED
        BY <1>3, <3>2, <4>1, <4>2, LastCallSettled
    <3>3. QED
      BY <3>1, <3>2
  <2>3. /\ Between(q, i, n, {"tool"}) = After(j, i, {"tool"})
        /\ Between(q, i, n, {"permission_ask"}) = After(j, i, {"permission_ask"})
    BY <2>1, BetweenAppended
  <2>4. \A kinds : After(j, i, kinds) \subseteq DOMAIN j
    BY <1>1 DEF After
  <2>5. CASE \E x \in Places(j, {"tool_result", "tool_denied"}) : j[x].of = i
    BY <1>5, <2>5
  <2>6. CASE \E k \in After(j, i, {"tool"}) : j[k].act = j[i].act /\ Between(j, i, k, {"turn_call"}) = {}
    <3>1. PICK k \in After(j, i, {"tool"}) : j[k].act = j[i].act /\ Between(j, i, k, {"turn_call"}) = {}
      BY <2>6
    <3>2. k \in DOMAIN j
      BY <2>4, <3>1
    <3>3. Between(q, i, k, {"turn_call"}) = {}
      BY <3>1, <3>2, BetweenKept
    <3>4. QED
      BY <1>1, <2>1, <2>3, <3>1, <3>2, <3>3
  <2>7. CASE \E k \in After(j, i, {"permission_ask"}) : j[k].of = i /\ CutOffAfter(j, k)
    <3>1. PICK k \in After(j, i, {"permission_ask"}) : j[k].of = i /\ CutOffAfter(j, k)
      BY <2>7
    <3>2. k \in DOMAIN j
      BY <2>4, <3>1
    <3>3. CutOffAfter(q, k)
      BY <3>1, <3>2, CutOffAppended
    <3>4. QED
      BY <1>1, <2>1, <2>3, <3>1, <3>2, <3>3
  <2>8. QED
    BY <2>2, <2>5, <2>6, <2>7 DEF Settled
<1>8. ASSUME NEW i \in Questions(q), i < n
      PROVE  (\E x \in DOMAIN told : told[x] = i) \/ CutOffAfter(q, i)
  <2>1. i \in Questions(j) /\ i \in DOMAIN j
    BY <1>1, <1>8 DEF Questions, ModelCompletion
  <2>2. \/ CutOffAfter(j, i)
        \/ i + 1 \in Places(j, {"user_response"}) /\ QuestionOf(j, i + 1) = i
    BY <1>3, <2>1, QuestionAnswered
  <2>3. CASE CutOffAfter(j, i)
    BY <2>1, <2>3, CutOffAppended
  <2>4. CASE i + 1 \in Places(j, {"user_response"}) /\ QuestionOf(j, i + 1) = i
    BY <1>6, <2>4
  <2>5. QED
    BY <2>2, <2>3, <2>4
<1>9. told = Conversation(SubSeq(q, 1, n))
  BY <1>2 DEF told
<1> HIDE DEF q, n
<1>10. Told(q, n)
  BY <1>7, <1>8, <1>9 DEF Told
<1>11. QED
  BY <1>10 DEF q, n

-----------------------------------------------------------------------------
\* What comes after a place, with one more entry of another kind.

LEMMA AfterSame ==
  ASSUME NEW j \in Seq(Entries), NEW e, NEW i \in DOMAIN j, NEW kinds, e.kind \notin kinds
  PROVE  After(Append(j, e), i, kinds) = After(j, i, kinds)
<1>1. After(Append(j, e), i, kinds)
        = After(j, i, kinds) \union (IF e.kind \in kinds THEN {Len(j) + 1} ELSE {})
  BY AfterAppended
<1>2. QED
  BY <1>1

LEMMA AfterMore ==
  ASSUME NEW j \in Seq(Entries), NEW e, NEW i \in DOMAIN j, NEW kinds, e.kind \in kinds
  PROVE  After(Append(j, e), i, kinds) = After(j, i, kinds) \union {Len(j) + 1}
<1>1. After(Append(j, e), i, kinds)
        = After(j, i, kinds) \union (IF e.kind \in kinds THEN {Len(j) + 1} ELSE {})
  BY AfterAppended
<1>2. QED
  BY <1>1

\* A journal whose last entry asks for nothing.
Rested(j) == j # <<>> => j[Len(j)].kind \notin {"permission_ask", "turn_completion"}

LEMMA RestedIs ==
  ASSUME NEW j, NEW s, NEW c, NEW l, Poised(j, s, c, l), c \notin {"off", "move", "choose"}
  PROVE  Rested(j)
BY DEF Poised, Rested

LEMMA RestedPoised ==
  ASSUME NEW j, NEW s, NEW c, NEW l, Rested(j)
  PROVE  Poised(j, s, c, l)
BY DEF Poised, Rested

LEMMA RestedFollows ==
  ASSUME NEW j, NEW e, Rested(j) \/ e.kind = "note"
  PROVE  Follows(j, e)
BY DEF Follows, MayFollow, Rested

LEMMA LastAppended ==
  ASSUME NEW j \in Seq(Entries), NEW e \in Entries
  PROVE  /\ Append(j, e) # <<>> /\ Append(j, e)[Len(Append(j, e))] = e
         /\ e.kind \notin {"permission_ask", "turn_completion"} => Rested(Append(j, e))
<1>1. Append(j, e) # <<>> /\ Len(Append(j, e)) = Len(j) + 1 /\ Append(j, e)[Len(j) + 1] = e
  BY Appended
<1>2. QED
  BY <1>1 DEF Rested

\* The fields of the entries the handlers write.
LEMMA EntryFields ==
  /\ \A k, x, a, n, i : /\ Entry(k, x, a, n, i).kind = k /\ Entry(k, x, a, n, i).step = x
                        /\ Entry(k, x, a, n, i).act = a /\ Entry(k, x, a, n, i).of = i
  /\ \A k, x : About(k, x).kind = k /\ About(k, x).step = x /\ About(k, x).of = 0
  /\ \A k : Plain(k).kind = k /\ Plain(k).of = 0
  /\ \A k, i : Outcome(k, i).kind = k /\ Outcome(k, i).of = i
BY DEF Entry, About, Plain, Outcome

Telling == {Moving("Implementing", "top"), Moving("WaitingForUser", "off")}

LEMMA NotTelling ==
  /\ Moving("Failed", "off") \notin Telling /\ Moving("Verifying", "off") \notin Telling
  /\ Moving("WaitingForPermission", "off") \notin Telling
<1> DEFINE S == {"Failed", "Verifying", "WaitingForPermission", "Implementing", "WaitingForUser"}
<1>1. S \subseteq States
  BY DEF States
<1>2. \A x \in S : Moving(x, "off").to = x /\ Moving(x, "top").to = x
  BY <1>1, MovingIs
<1>3. QED
  BY <1>2 DEF Telling

\* Where a task may go while nothing is written.
LEMMA CalmStays ==
  ASSUME NEW j, NEW p, NEW s, NEW c, NEW l, NEW s2, NEW c2, NEW l2, Calm(j, s, p, c, l),
         \/ InterruptedToolCall(j) = 0
         \/ /\ c2 \notin WorkingAt \ {"exec"} /\ s2 # "WaitingForUser"
            /\ c2 = "move" => l2 \notin Telling,
         s2 = "Planning" => s = "Planning",
         c2 = "turn" => p = NoPlan
  PROVE  Calm(j, s2, p, c2, l2)
BY DEF Calm, Telling

LEMMA CalmWritten ==
  ASSUME NEW j \in Seq(Entries), NEW e \in Entries, NEW p, NEW s, NEW c, NEW l,
         Calm(j, s, p, c, l), Fresh(j, e), e.kind # "tool", e.kind \notin Answers
  PROVE  Calm(Append(j, e), s, p, c, l)
<1> DEFINE q == Append(j, e)
<1>1. InterruptedToolCall(j) = 0 => InterruptedToolCall(q) = 0
  BY InterruptedAppended
<1>2. \A kinds : Places(q, kinds) = Places(j, kinds) \union (IF e.kind \in kinds THEN {Len(j) + 1} ELSE {})
  BY AnyAppended
<1> HIDE DEF q
<1>3. /\ Places(q, {"tool"} \union Answers) = Places(j, {"tool"} \union Answers)
      /\ Places(q, {"step_completion"}) = Places(j, {"step_completion"})
      /\ Places(q, {"turn_completion"}) = Places(j, {"turn_completion"})
  <2>1. e.kind \notin {"tool"} \union Answers
    OBVIOUS
  <2>2. e.kind \notin {"step_completion"} /\ e.kind \notin {"turn_completion"}
    BY DEF Answers
  <2>3. /\ Places(q, {"tool"} \union Answers)
             = Places(j, {"tool"} \union Answers)
                 \union (IF e.kind \in {"tool"} \union Answers THEN {Len(j) + 1} ELSE {})
        /\ Places(q, {"step_completion"})
             = Places(j, {"step_completion"})
                 \union (IF e.kind \in {"step_completion"} THEN {Len(j) + 1} ELSE {})
        /\ Places(q, {"turn_completion"})
             = Places(j, {"turn_completion"})
                 \union (IF e.kind \in {"turn_completion"} THEN {Len(j) + 1} ELSE {})
    BY <1>2
  <2>4. QED
    BY <2>1, <2>2, <2>3
<1>4. Calm(q, s, p, c, l)
  BY <1>1, <1>3 DEF Calm
<1>5. QED
  BY <1>4 DEF q

\* A call was issued, or a decision was made.
LEMMA CalmWorking ==
  ASSUME NEW j \in Seq(Entries), NEW e \in Entries, NEW p, NEW c, NEW l, NEW c2, NEW l2,
         Calm(j, "Implementing", p, c, l), Fresh(j, e),
         c2 \in {"exec", "act", "choose"},
         e.kind = "tool" => c2 = "exec",
         e.kind # "tool" => InterruptedToolCall(j) = 0,
         e.kind = "step_completion" => p # NoPlan,
         e.kind = "turn_completion" => p = NoPlan
  PROVE  Calm(Append(j, e), "Implementing", p, c2, l2)
<1> DEFINE q == Append(j, e)
<1>1. e.kind # "tool" => InterruptedToolCall(q) = 0
  BY InterruptedAppended
<1>2. /\ Places(q, {"step_completion"})
           = Places(j, {"step_completion"})
               \union (IF e.kind \in {"step_completion"} THEN {Len(j) + 1} ELSE {})
      /\ Places(q, {"turn_completion"})
           = Places(j, {"turn_completion"})
               \union (IF e.kind \in {"turn_completion"} THEN {Len(j) + 1} ELSE {})
  BY AnyAppended
<1> HIDE DEF q
<1>3. Calm(q, "Implementing", p, c2, l2)
  BY <1>1, <1>2 DEF Calm
<1>4. QED
  BY <1>3 DEF q

LEMMA MindedRests ==
  ASSUME NEW j, NEW p, NEW s, NEW c, NEW l, NEW s2, NEW c2, NEW l2, Minded(j, s, p, c, l),
         c2 \in {"off", "top", "move"},
         c2 = "top" => InterruptedToolCall(j) = 0,
         \/ c \notin {"act", "issue", "off"}
         \/ c = "off" /\ s # "Implementing"
         \/ c2 = "off" /\ s2 = "Implementing"
         \/ \A i \in Open(j) : j[i].act.kind # "tool"
  PROVE  Minded(j, s2, p, c2, l2)
<1>1. ASSUME NEW i \in Open(j) PROVE Pursues(j, i, s2, p, c2, l2)
  <2>1. Pursues(j, i, s, p, c, l)
    BY DEF Minded
  <2>2. QED
    BY <2>1 DEF Pursues
<1>2. QED
  BY <1>1 DEF Minded

LEMMA MindedWritten ==
  ASSUME NEW j \in Seq(Entries), NEW e \in Entries, NEW p, NEW s, NEW c, NEW l,
         Minded(j, s, p, c, l), Fresh(j, e),
         e.kind # "tool", e.kind \notin Closers, e.kind \notin Answers
  PROVE  Minded(Append(j, e), s, p, c, l)
<1> DEFINE q == Append(j, e)
<1>1. Open(q) = Open(j)
  BY OpenAppended
<1>2. CompletedPlanSteps(q) = CompletedPlanSteps(j)
  <2>1. e.kind # "plan_step_completed"
    BY DEF Closers
  <2>2. QED
    BY <2>1, CompletedAppended
<1>3. InterruptedToolCall(q) # 0 => InterruptedToolCall(j) # 0
  BY InterruptedAppended
<1>4. ASSUME NEW i \in Open(j) PROVE Pursues(q, i, s, p, c, l)
  <2>1. Pursues(j, i, s, p, c, l) /\ i \in DOMAIN j
    BY OpenAre DEF Minded
  <2>2. q[i] = j[i]
    BY <2>1, AnyAppended
  <2>3. After(q, i, {"tool"}) = After(j, i, {"tool"})
    <3>1. e.kind \notin {"tool"}
      OBVIOUS
    <3>2. QED
      BY <2>1, <3>1, AfterSame
  <2>4. After(q, i, {"note"}) = {} => After(j, i, {"note"}) = {}
    <3>1. After(q, i, {"note"})
            = After(j, i, {"note"}) \union (IF e.kind \in {"note"} THEN {Len(j) + 1} ELSE {})
      BY <2>1, AfterAppended
    <3>2. QED
      BY <3>1
  <2>5. Cardinality(After(j, i, {"tool"})) <= Cardinality(After(j, i, {"note"}))
          => Cardinality(After(j, i, {"tool"})) <= Cardinality(After(q, i, {"note"}))
    <3> DEFINE a == Cardinality(After(j, i, {"tool"}))
               b == Cardinality(After(j, i, {"note"}))
               d == Cardinality(After(q, i, {"note"}))
    <3>1. a \in Nat /\ b \in Nat
      BY <2>1, AfterCounted
    <3>2. d = b + (IF e.kind \in {"note"} THEN 1 ELSE 0)
      BY <2>1, AfterCounted
    <3> HIDE DEF a, b, d
    <3>3. a <= b => a <= d
      BY <3>1, <3>2
    <3>4. QED
      BY <3>3 DEF a, b, d
  <2> HIDE DEF q
  <2>6. QED
    BY <1>2, <1>3, <2>1, <2>2, <2>3, <2>4, <2>5 DEF Pursues
<1> HIDE DEF q
<1>5. Minded(q, s, p, c, l)
  BY <1>1, <1>2, <1>4 DEF Minded
<1>6. QED
  BY <1>5 DEF q

\* After a note the task may be failing, or it is taken up again.
LEMMA MindedNoted ==
  ASSUME NEW j \in Seq(Entries), NEW e \in Entries, NEW p, NEW s, NEW c, NEW l,
         NEW s2, NEW c2, NEW l2,
         Minded(j, s, p, c, l), Recorded(j), e.kind = "note", Fresh(j, e), c2 \in {"top", "move"}
  PROVE  Minded(Append(j, e), s2, p, c2, l2)
<1> DEFINE q == Append(j, e)
<1>0. e.kind \notin Closers /\ e.kind \notin Answers /\ e.kind # "tool" /\ e.kind # "plan_step_completed"
  BY DEF Closers, Answers, ModelCall
<1>1. Open(q) = Open(j)
  BY <1>0, OpenAppended
<1>2. CompletedPlanSteps(q) = CompletedPlanSteps(j)
  BY <1>0, CompletedAppended
<1>4. ASSUME NEW i \in Open(j) PROVE Pursues(q, i, s2, p, c2, l2)
  <2>1. Pursues(j, i, s, p, c, l) /\ i \in DOMAIN j /\ Pursued(j, i)
    BY OpenAre DEF Minded, Recorded
  <2>2. q[i] = j[i]
    BY <2>1, AnyAppended
  <2>3. After(q, i, {"tool"}) = After(j, i, {"tool"})
    <3>1. e.kind \notin {"tool"}
      BY <1>0
    <3>2. QED
      BY <2>1, <3>1, AfterSame
  <2>4. After(q, i, {"note"}) # {}
    <3>1. After(q, i, {"note"})
            = After(j, i, {"note"}) \union (IF e.kind \in {"note"} THEN {Len(j) + 1} ELSE {})
      BY <2>1, AfterAppended
    <3>2. QED
      BY <3>1
  <2>5. Cardinality(After(j, i, {"tool"})) <= Cardinality(After(q, i, {"note"}))
    <3> DEFINE a == Cardinality(After(j, i, {"tool"}))
               b == Cardinality(After(j, i, {"note"}))
               d == Cardinality(After(q, i, {"note"}))
    <3>1. a \in Nat /\ b \in Nat
      BY <2>1, AfterCounted
    <3>2. d = b + (IF e.kind \in {"note"} THEN 1 ELSE 0)
      BY <2>1, AfterCounted
    <3>3. a <= 1 + b
      BY <2>1 DEF Pursued
    <3> HIDE DEF a, b, d
    <3>4. a <= d
      BY <3>1, <3>2, <3>3
    <3>5. QED
      BY <3>4 DEF a, d
  <2> HIDE DEF q
  <2>6. QED
    BY <1>2, <2>1, <2>2, <2>3, <2>4, <2>5 DEF Pursues
<1> HIDE DEF q
<1>5. Minded(q, s2, p, c2, l2)
  BY <1>1, <1>4 DEF Minded
<1>6. QED
  BY <1>5 DEF q

\* An entry that neither decides nor issues nor supersedes anything.
Aside(j, e) ==
  /\ Fresh(j, e) /\ Follows(j, e)
  /\ e.kind # "tool" /\ e.kind \notin Closers /\ e.kind \notin Answers
  /\ e.kind = "plan_completion" => e.act.kind # "ask"
  /\ e.kind = "plan_scope_expansion" => \A i \in Open(j) : j[i].act # Finish

LEMMA FaithfulAside ==
  ASSUME NEW j \in Seq(Entries), NEW e \in Entries, NEW p, NEW s, NEW c, NEW l,
         Recorded(j), Aside(j, e),
         e.kind # "permission_ask" \/ Poised(Append(j, e), s, c, l),
         Calm(j, s, p, c, l), Minded(j, s, p, c, l)
  PROVE  FaithfulOf(Append(j, e), s, p, c, l)
<1>1. Recorded(Append(j, e))
  BY SideRecorded DEF Aside
<1>2. Poised(Append(j, e), s, c, l)
  <2>1. e.kind # "turn_completion"
    BY DEF Aside, Answers
  <2>2. QED
    BY <2>1, LastAppended, RestedPoised
<1>3. Calm(Append(j, e), s, p, c, l)
  BY CalmWritten DEF Aside
<1>4. Minded(Append(j, e), s, p, c, l)
  BY MindedWritten DEF Aside
<1>5. QED
  BY <1>1, <1>2, <1>3, <1>4 DEF FaithfulOf

LEMMA FaithfulNoted ==
  ASSUME NEW j \in Seq(Entries), NEW p, NEW s, NEW c, NEW l, NEW c2, NEW l2,
         FaithfulOf(j, s, p, c, l), c2 = "top" \/ (c2 = "move" /\ l2 = Moving("Failed", "off"))
  PROVE  FaithfulOf(Append(j, Plain("note")), s, p, c2, l2)
<1> DEFINE e == Plain("note")
<1>1. e \in Entries /\ e.kind = "note" /\ e.of = 0
  <2>1. "note" \in Kinds
    BY DEF Kinds
  <2>2. QED
    BY <2>1, PlainTyped, EntryFields
<1> HIDE DEF e
<1>2. Aside(j, e)
  BY <1>1, RestedFollows DEF Aside, Fresh, Closers, Answers, ModelCall
<1>3. Recorded(Append(j, e))
  BY <1>1, <1>2, SideRecorded DEF Aside, FaithfulOf
<1>4. Poised(Append(j, e), s, c2, l2)
  BY <1>1, LastAppended, RestedPoised
<1>5. Calm(Append(j, e), s, p, c2, l2)
  <2>1. Calm(Append(j, e), s, p, c, l)
    BY <1>1, <1>2, CalmWritten DEF Aside, FaithfulOf
  <2>2. c2 \notin WorkingAt /\ c2 # "turn"
    BY DEF WorkingAt
  <2>3. c2 = "move" => l2 \notin Telling
    BY NotTelling
  <2>4. s = "WaitingForUser" => InterruptedToolCall(Append(j, e)) = 0
    BY <2>1 DEF Calm
  <2>5. QED
    BY <2>1, <2>2, <2>3, <2>4, CalmStays
<1>6. Minded(Append(j, e), s, p, c2, l2)
  BY <1>1, <1>2, MindedNoted DEF Aside, FaithfulOf
<1>7. FaithfulOf(Append(j, e), s, p, c2, l2)
  BY <1>3, <1>4, <1>5, <1>6 DEF FaithfulOf
<1>8. QED
  BY <1>7 DEF e

\* Nothing written, and the task goes to rest or on.
LEMMA FaithfulRests ==
  ASSUME NEW j, NEW p, NEW s, NEW c, NEW l, NEW s2, NEW c2, NEW l2,
         FaithfulOf(j, s, p, c, l), Poised(j, s2, c2, l2),
         c2 \in {"off", "top", "move"},
         InterruptedToolCall(j) = 0
           \/ (c2 # "top" /\ s2 # "WaitingForUser" /\ (c2 = "move" => l2 \notin Telling)),
         s2 = "Planning" => s = "Planning",
         \/ c \notin {"act", "issue", "off"}
         \/ c = "off" /\ s # "Implementing"
         \/ c2 = "off" /\ s2 = "Implementing"
         \/ \A i \in Open(j) : j[i].act.kind # "tool"
  PROVE  FaithfulOf(j, s2, p, c2, l2)
<1>1. c2 \notin WorkingAt /\ c2 # "turn"
  BY DEF WorkingAt
<1>2. Calm(j, s2, p, c2, l2)
  BY <1>1, CalmStays DEF FaithfulOf
<1>3. Minded(j, s2, p, c2, l2)
  BY MindedRests DEF FaithfulOf
<1>4. QED
  BY <1>2, <1>3 DEF FaithfulOf

-----------------------------------------------------------------------------
\* The whole system, when one task has become another record.

LEMMA FaithfulBecomes ==
  ASSUME Shaped, Faithful, NEW t \in Tasks, NEW j, NEW s, NEW p, NEW c, NEW l, NEW v,
         Becomes(t, j, s, p, c, l, v), FaithfulOf(j, s, p, c, l), t = Root => AllTold(j)
  PROVE  Faithful'
<1>1. Root \in Tasks
  BY TasksAre
<1>2. QED
  BY <1>1, BecameAt DEF Faithful

LEMMA FaithfulUnwritten ==
  ASSUME Shaped, Faithful, NEW t \in Tasks, NEW s, NEW p, NEW c, NEW l, NEW v,
         Becomes(t, journal[t], s, p, c, l, v), FaithfulOf(journal[t], s, p, c, l)
  PROVE  Faithful'
BY FaithfulBecomes DEF Faithful

LEMMA FaithfulWritten ==
  ASSUME Shaped, Faithful, NEW t \in Tasks, NEW e \in Entries, NEW s, NEW p, NEW c, NEW l, NEW v,
         Becomes(t, Append(journal[t], e), s, p, c, l, v), FaithfulOf(Append(journal[t], e), s, p, c, l),
         e.kind # "turn_call"
  PROVE  Faithful'
<1>1. journal[t] \in Seq(Entries)
  BY TaskTyped
<1>2. t = Root => AllTold(Append(journal[t], e))
  BY <1>1, ToldKept DEF Faithful
<1>3. QED
  BY <1>2, FaithfulBecomes

\* What is known of the task a handler runs for.
LEMMA TaskFaithful ==
  ASSUME Shaped, Faithful, NEW t \in Tasks
  PROVE  /\ journal[t] \in Seq(Entries) /\ at[t] \in Locals
         /\ FaithfulOf(journal[t], state[t], plan[t], pc[t], at[t])
         /\ Recorded(journal[t]) /\ Poised(journal[t], state[t], pc[t], at[t])
         /\ Calm(journal[t], state[t], plan[t], pc[t], at[t])
         /\ Minded(journal[t], state[t], plan[t], pc[t], at[t])
         /\ ShapeOf(t, journal[t], state[t], plan[t], pc[t], at[t], verdict[t])
BY TaskTyped DEF Faithful, FaithfulOf

\* An entry that was written is one.
LEMMA WrittenTyped ==
  ASSUME Shaped, NEW t \in Tasks, NEW e, NEW s, NEW p, NEW c, NEW l, NEW v,
         Becomes(t, Append(journal[t], e), s, p, c, l, v), Shaped'
  PROVE  e \in Entries
<1>1. journal[t] \in Seq(Entries)
  BY TaskTyped
<1>2. journal'[t] = Append(journal[t], e)
  BY TaskTyped DEF Becomes, Shaped, TypeOK
<1>3. journal'[t] \in Seq(Entries)
  BY DEF Shaped, TypeOK
<1>4. Append(journal[t], e)[Len(journal[t]) + 1] = e /\ Len(journal[t]) + 1 \in DOMAIN Append(journal[t], e)
  BY <1>1, AnyAppended
<1>5. QED
  BY <1>2, <1>3, <1>4

-----------------------------------------------------------------------------
\* Planning: nothing was decided yet.

LEMMA PlanningIdle ==
  ASSUME NEW j \in Seq(Entries), NEW p, NEW c, NEW l, Calm(j, "Planning", p, c, l)
  PROVE  InterruptedToolCall(j) = 0 /\ Open(j) = {} /\ Places(j, {"tool"} \union Answers) = {}
<1>1. Places(j, {"tool"} \union Answers) = {}
  BY DEF Calm
<1>2. Places(j, {"tool"}) = {} /\ Places(j, Answers) = {}
  BY <1>1 DEF Places
<1>3. LastToolCall(j) = 0
  BY <1>2, LastToolIs
<1>4. QED
  BY <1>1, <1>2, <1>3, InterruptedIs DEF Open

LEMMA FaithfulPlans ==
  ASSUME NEW j \in Seq(Entries), NEW p, NEW c, NEW l, NEW p2, NEW c2, NEW l2,
         FaithfulOf(j, "Planning", p, c, l), Rested(j), c2 \in PlanningAt
  PROVE  FaithfulOf(j, "Planning", p2, c2, l2)
<1>1. /\ InterruptedToolCall(j) = 0 /\ Open(j) = {} /\ Places(j, {"tool"} \union Answers) = {}
  BY PlanningIdle DEF FaithfulOf
<1>2. Places(j, {"step_completion"}) = {} /\ Places(j, {"turn_completion"}) = {}
  BY <1>1 DEF Places, Answers
<1>3. c2 \notin WorkingAt /\ c2 # "turn" /\ c2 # "move" /\ c2 \notin {"begin", "call", "act", "issue"}
  BY DEF PlanningAt, WorkingAt
<1>4. Calm(j, "Planning", p2, c2, l2)
  BY <1>1, <1>2, <1>3 DEF Calm
<1>5. Minded(j, "Planning", p2, c2, l2)
  BY <1>1, <1>3 DEF Minded
<1>6. Poised(j, "Planning", c2, l2)
  BY RestedPoised
<1>7. QED
  BY <1>4, <1>5, <1>6 DEF FaithfulOf

LEMMA PlanningAside ==
  ASSUME NEW j \in Seq(Entries), NEW e \in Entries, NEW p, NEW c, NEW l, NEW c2, NEW l2,
         FaithfulOf(j, "Planning", p, c, l), Rested(j), c2 \in PlanningAt,
         e.of = 0, e.kind \in {"plan_completion", "plan_rejected", "plan_accepted"},
         e.kind = "plan_completion" => e.act.kind # "ask"
  PROVE  FaithfulOf(Append(j, e), "Planning", p, c2, l2)
<1>1. FaithfulOf(j, "Planning", p, c2, l2)
  BY FaithfulPlans
<1>2. Aside(j, e) /\ e.kind # "permission_ask"
  BY RestedFollows DEF Aside, Fresh, Closers, Answers, ModelCall
<1>3. QED
  BY <1>1, <1>2, FaithfulAside DEF FaithfulOf

\* Out of planning.
LEMMA PlanningLeft ==
  ASSUME NEW j \in Seq(Entries), NEW p, NEW c, NEW l,
         FaithfulOf(j, "Planning", p, c, l), Rested(j), c \notin {"act", "issue", "off"}
  PROVE  FaithfulOf(j, "Planning", p, "move", Moving("Implementing", "top"))
<1>1. InterruptedToolCall(j) = 0
  BY PlanningIdle DEF FaithfulOf
<1>2. Poised(j, "Planning", "move", Moving("Implementing", "top"))
  BY RestedPoised
<1>3. QED
  BY <1>1, <1>2, FaithfulRests

LEMMA PassPlanningFaithful ==
  ASSUME Shaped, Faithful, NEW t \in Tasks, PassPlanning(t)
  PROVE  Faithful'
<1>1. pc[t] = "top" /\ state[t] = "Planning"
  BY DEF PassPlanning
<1>2. Rested(journal[t])
  BY <1>1, TaskFaithful, RestedIs
<1>3. FaithfulOf(journal[t], state[t], plan[t], "move", Moving("Implementing", "top"))
  BY <1>1, <1>2, TaskFaithful, PlanningLeft
<1>4. QED
  BY <1>3, PassPlanningIs, FaithfulUnwritten

LEMMA EnterPlanningFaithful ==
  ASSUME Shaped, Faithful, NEW t \in Tasks, EnterPlanning(t)
  PROVE  Faithful'
<1> DEFINE l == WithTries(Idle, PlanRejectionCount(journal[t]))
<1>1. pc[t] = "top" /\ state[t] = "Planning" /\ "propose" \in PlanningAt
  BY DEF EnterPlanning, AtPlanning, PlanningAt
<1>2. Rested(journal[t])
  BY <1>1, TaskFaithful, RestedIs
<1>3. Becomes(t, journal[t], state[t], plan[t], "propose", l, verdict[t])
  BY EnterPlanningIs
<1> HIDE DEF l
<1>4. FaithfulOf(journal[t], state[t], plan[t], "propose", l)
  BY <1>1, <1>2, TaskFaithful, FaithfulPlans
<1>5. QED
  BY <1>3, <1>4, FaithfulUnwritten

\* A note, and the task is failing.
LEMMA Failing ==
  ASSUME Shaped, Faithful, NEW t \in Tasks, NEW v,
         Becomes(t, Append(journal[t], Plain("note")), state[t], plan[t], "move",
                 Moving("Failed", "off"), v)
  PROVE  Faithful'
<1> DEFINE e == Plain("note")
<1>1. e \in Entries /\ e.kind # "turn_call"
  <2>1. "note" \in Kinds
    BY DEF Kinds
  <2>2. QED
    BY <2>1, PlainTyped, EntryFields
<1>2. FaithfulOf(Append(journal[t], e), state[t], plan[t], "move", Moving("Failed", "off"))
  BY TaskFaithful, FaithfulNoted
<1> HIDE DEF e
<1>3. Becomes(t, Append(journal[t], e), state[t], plan[t], "move", Moving("Failed", "off"), v)
  BY DEF e
<1>4. QED
  BY <1>1, <1>2, <1>3, FaithfulWritten

LEMMA LeavePlanningFaithful ==
  ASSUME Shaped, Faithful, NEW t \in Tasks, LeavePlanning(t)
  PROVE  Faithful'
<1>1. pc[t] = "top" /\ state[t] = "Planning"
  BY DEF LeavePlanning, AtPlanning
<1>2. Rested(journal[t])
  BY <1>1, TaskFaithful, RestedIs
<1>3. ASSUME Becomes(t, journal[t], state[t], plan[t], "move", Moving("Implementing", "top"), verdict[t])
      PROVE  Faithful'
  <2>1. FaithfulOf(journal[t], state[t], plan[t], "move", Moving("Implementing", "top"))
    BY <1>1, <1>2, TaskFaithful, PlanningLeft
  <2>2. QED
    BY <1>3, <2>1, FaithfulUnwritten
<1>4. QED
  BY <1>3, LeavePlanningIs, Failing

LEMMA ProposeFaithful ==
  ASSUME Shaped, Faithful, NEW t \in Tasks, Propose(t)
  PROVE  Faithful'
<1>1. pc[t] = "propose" /\ state[t] = "Planning" /\ {"judge", "plan_call"} \subseteq PlanningAt
  BY TaskFaithful DEF Propose, ShapeOf, PlanningAt
<1>2. Rested(journal[t]) /\ journal[t] \in Seq(Entries)
  BY <1>1, TaskFaithful, RestedIs
<1>3. ASSUME NEW l, Becomes(t, journal[t], state[t], plan[t], "judge", l, verdict[t])
      PROVE  Faithful'
  <2>1. FaithfulOf(journal[t], state[t], plan[t], "judge", l)
    BY <1>1, <1>2, TaskFaithful, FaithfulPlans
  <2>2. QED
    BY <1>3, <2>1, FaithfulUnwritten
<1>4. ASSUME NEW n,
             Becomes(t, Append(journal[t], Entry("model_call", None, Nothing, n, 0)), state[t],
                     plan[t], "plan_call", at[t], verdict[t])
      PROVE  Faithful'
  <2> DEFINE e == Entry("model_call", None, Nothing, n, 0)
             q == Append(journal[t], e)
  <2>1. e.kind = "model_call" /\ e.of = 0
    BY EntryFields
  <2>2. e \in Entries
    BY <1>4, WrittenTyped, ProposeShaped
  <2> HIDE DEF e
  <2>3. FaithfulOf(journal[t], "Planning", plan[t], "plan_call", at[t])
    BY <1>1, <1>2, TaskFaithful, FaithfulPlans
  <2>4. Open(journal[t]) = {}
    BY <1>2, <2>3, PlanningIdle DEF FaithfulOf
  <2>5. Recorded(q) /\ Open(q) = {}
    <3>1. e.kind \in Closers /\ e.kind # "turn_call"
      BY <2>1 DEF Closers, ModelCall
    <3>2. Follows(journal[t], e)
      BY <1>2, RestedFollows
    <3>3. QED
      BY <1>2, <2>1, <2>2, <2>3, <2>4, <3>1, <3>2, CloserRecorded DEF FaithfulOf
  <2>6. Poised(q, "Planning", "plan_call", at[t])
    BY <1>2, <2>1, <2>2, LastAppended, RestedPoised
  <2>7. Calm(q, "Planning", plan[t], "plan_call", at[t])
    <3>1. Fresh(journal[t], e) /\ e.kind # "tool" /\ e.kind \notin Answers
      BY <2>1 DEF Fresh, Answers
    <3>2. QED
      BY <1>2, <2>2, <2>3, <3>1, CalmWritten DEF FaithfulOf
  <2>8. Minded(q, "Planning", plan[t], "plan_call", at[t])
    BY <2>5 DEF Minded
  <2>9. FaithfulOf(q, state[t], plan[t], "plan_call", at[t])
    BY <1>1, <2>5, <2>6, <2>7, <2>8 DEF FaithfulOf
  <2>10. Becomes(t, Append(journal[t], e), state[t], plan[t], "plan_call", at[t], verdict[t])
    BY <1>4 DEF e
  <2>11. QED
    BY <2>1, <2>2, <2>9, <2>10, FaithfulWritten
<1>5. QED
  BY <1>3, <1>4, ProposeIs

LEMMA PlanAnsweredFaithful ==
  ASSUME Shaped, Faithful, NEW t \in Tasks, PlanAnswered(t)
  PROVE  Faithful'
<1>1. pc[t] = "plan_call" /\ state[t] = "Planning" /\ "judge" \in PlanningAt
  BY TaskFaithful DEF PlanAnswered, ShapeOf, PlanningAt
<1>2. Rested(journal[t]) /\ journal[t] \in Seq(Entries)
  BY <1>1, TaskFaithful, RestedIs
<1>3. ASSUME NEW sub \in {Submitted(p) : p \in Submissions} \union {NotAPlan}, NEW n,
             Becomes(t, Append(journal[t], Entry("plan_completion", None, sub, n, 0)), state[t],
                     plan[t], "judge", WithAct(at[t], sub), verdict[t])
      PROVE  Faithful'
  <2> DEFINE e == Entry("plan_completion", None, sub, n, 0)
             l == WithAct(at[t], sub)
  <2>1. e.kind = "plan_completion" /\ e.of = 0 /\ e.act = sub
    BY EntryFields
  <2>2. e \in Entries
    BY <1>3, WrittenTyped, PlanAnsweredShaped
  <2>3. sub.kind # "ask"
    BY DEF Submitted, NotAPlan
  <2> HIDE DEF e, l
  <2>4. FaithfulOf(Append(journal[t], e), state[t], plan[t], "judge", l)
    BY <1>1, <1>2, <2>1, <2>2, <2>3, TaskFaithful, PlanningAside
  <2>5. Becomes(t, Append(journal[t], e), state[t], plan[t], "judge", l, verdict[t])
    BY <1>3 DEF e, l
  <2>6. e.kind # "turn_call"
    BY <2>1
  <2>7. QED
    BY <2>2, <2>4, <2>5, <2>6, FaithfulWritten
<1>4. QED
  BY <1>3, PlanAnsweredIs

LEMMA SavePlanFaithful ==
  ASSUME Shaped, Faithful, NEW t \in Tasks, SavePlan(t)
  PROVE  Faithful'
<1>1. pc[t] = "judge" /\ state[t] = "Planning" /\ "accept" \in PlanningAt
  BY TaskFaithful DEF SavePlan, ShapeOf, PlanningAt
<1>2. Rested(journal[t])
  BY <1>1, TaskFaithful, RestedIs
<1>3. FaithfulOf(journal[t], state[t], at[t].act.plan, "accept", at[t])
  BY <1>1, <1>2, TaskFaithful, FaithfulPlans
<1>4. QED
  BY <1>3, SavePlanIs, FaithfulUnwritten

LEMMA AcceptPlanFaithful ==
  ASSUME Shaped, Faithful, NEW t \in Tasks, AcceptPlan(t)
  PROVE  Faithful'
<1> DEFINE e == Plain("plan_accepted")
           q == Append(journal[t], e)
           l == Moving("Implementing", "top")
<1>1. pc[t] = "accept" /\ state[t] = "Planning" /\ "accept" \in PlanningAt
  BY TaskFaithful DEF AcceptPlan, ShapeOf, PlanningAt
<1>2. Rested(journal[t]) /\ journal[t] \in Seq(Entries)
  BY <1>1, TaskFaithful, RestedIs
<1>3. Becomes(t, q, state[t], plan[t], "move", l, verdict[t])
  BY AcceptPlanIs
<1>4. e.kind = "plan_accepted" /\ e.of = 0
  BY EntryFields
<1>5. e \in Entries
  BY <1>3, WrittenTyped, AcceptPlanShaped
<1> HIDE DEF e, l
<1>6. FaithfulOf(q, "Planning", plan[t], "accept", at[t])
  BY <1>1, <1>2, <1>4, <1>5, TaskFaithful, PlanningAside
<1>7. Rested(q) /\ q \in Seq(Entries)
  BY <1>2, <1>4, <1>5, LastAppended
<1> HIDE DEF q
<1>8. FaithfulOf(q, "Planning", plan[t], "move", l)
  BY <1>6, <1>7, PlanningLeft DEF l
<1>9. QED
  BY <1>1, <1>3, <1>4, <1>5, <1>8, FaithfulWritten DEF q

LEMMA RejectPlanFaithful ==
  ASSUME Shaped, Faithful, NEW t \in Tasks, RejectPlan(t)
  PROVE  Faithful'
<1> DEFINE e == Plain("plan_rejected")
           f == Plain("note")
           q == Append(journal[t], e)
           k == Append(q, f)
           l == Again(at[t])
<1>1. pc[t] = "judge" /\ state[t] = "Planning" /\ "propose" \in PlanningAt
  BY TaskFaithful DEF RejectPlan, ShapeOf, PlanningAt
<1>2. Rested(journal[t]) /\ journal[t] \in Seq(Entries)
  BY <1>1, TaskFaithful, RestedIs
<1>3. /\ e.kind = "plan_rejected" /\ e.of = 0 /\ f.kind = "note"
      /\ e \in Entries /\ f \in Entries
  <2>1. {"plan_rejected", "note"} \subseteq Kinds
    BY DEF Kinds
  <2>2. QED
    BY <2>1, PlainTyped, EntryFields
<1>4. \/ Becomes(t, k, state[t], plan[t], "move", Moving("Failed", "off"), verdict[t])
      \/ Becomes(t, q, state[t], plan[t], "propose", l, verdict[t])
  BY RejectPlanIs
<1> HIDE DEF e, l
<1>5. FaithfulOf(q, "Planning", plan[t], "propose", l)
  BY <1>1, <1>2, <1>3, TaskFaithful, PlanningAside
<1>6. q \in Seq(Entries)
  BY <1>2, <1>3
<1> HIDE DEF q
<1>7. FaithfulOf(k, "Planning", plan[t], "move", Moving("Failed", "off"))
  BY <1>5, <1>6, FaithfulNoted
<1>8. t = Root => AllTold(q) /\ AllTold(k)
  <2>1. t = Root => AllTold(q)
    BY <1>2, <1>3, ToldKept DEF Faithful, q
  <2>2. t = Root => AllTold(k)
    <3> HIDE DEF f
    <3> QED BY <1>3, <1>6, <2>1, ToldKept
  <2>3. QED
    BY <2>1, <2>2
<1> HIDE DEF k
<1>9. QED
  BY <1>1, <1>4, <1>5, <1>7, <1>8, FaithfulBecomes

-----------------------------------------------------------------------------
\* Handlers that write nothing.

LEMMA WaveChildDoneFaithful ==
  ASSUME Shaped, Faithful, NEW t \in Tasks, WaveChildDone(t)
  PROVE  Faithful'
<1>1. pc[t] = "top" /\ state[t] = "Implementing"
  BY DEF WaveChildDone, AtStep
<1>2. Rested(journal[t])
  BY <1>1, TaskFaithful, RestedIs
<1>3. Poised(journal[t], "Completed", "off", Idle)
  BY <1>2, RestedPoised
<1>4. FaithfulOf(journal[t], "Completed", plan[t], "off", Idle)
  BY <1>1, <1>3, TaskFaithful, FaithfulRests
<1>5. QED
  BY <1>4, WaveChildDoneIs, FaithfulUnwritten

LEMMA PlanSpoiledFaithful ==
  ASSUME Shaped, Faithful, NEW t \in Tasks, PlanSpoiled(t)
  PROVE  Faithful'
BY PlanSpoiledIs, Failing

LEMMA StepsDoneFaithful ==
  ASSUME Shaped, Faithful, NEW t \in Tasks, StepsDone(t)
  PROVE  Faithful'
<1> DEFINE l == Moving("Verifying", "off")
<1>1. pc[t] = "top" /\ state[t] = "Implementing"
  BY DEF StepsDone, Undisturbed, MayWork, AtStep
<1>2. Rested(journal[t])
  BY <1>1, TaskFaithful, RestedIs
<1>3. l \notin Telling
  BY NotTelling
<1> HIDE DEF l
<1>4. Poised(journal[t], state[t], "move", l)
  BY <1>2, RestedPoised
<1>5. FaithfulOf(journal[t], state[t], plan[t], "move", l)
  BY <1>1, <1>3, <1>4, TaskFaithful, FaithfulRests
<1>6. QED
  BY <1>5, StepsDoneIs, FaithfulUnwritten DEF l

LEMMA AskUserFaithful ==
  ASSUME Shaped, Faithful, NEW t \in Tasks, AskUser(t)
  PROVE  Faithful'
<1> DEFINE l == Moving("WaitingForUser", "off")
           j == journal[t]
<1>1. pc[t] \in {"act", "choose"} /\ at[t].act = Ask /\ state[t] = "Implementing"
  BY TaskFaithful DEF AskUser, ShapeOf, WorkingAt
<1>2. InterruptedToolCall(j) = 0
  BY <1>1, TaskFaithful DEF Calm, WorkingAt
<1>3. \A i \in Open(j) : j[i].act.kind # "tool"
  <2>1. \A i \in Open(j) : j[i].act = Ask
    BY <1>1, TaskFaithful DEF Minded, Pursues
  <2>2. Ask.kind # "tool"
    BY DEF Ask
  <2>3. QED
    BY <2>1, <2>2
<1>4. Poised(j, state[t], "move", l)
  BY <1>1, TaskFaithful DEF Poised
<1>5. FaithfulOf(j, state[t], plan[t], "move", l)
  <2> HIDE DEF l, j
  <2>1. FaithfulOf(j, state[t], plan[t], pc[t], at[t])
    BY TaskFaithful DEF j
  <2>2. QED
    BY <1>1, <1>2, <1>3, <1>4, <2>1, FaithfulRests
<1>6. QED
  BY <1>5, AskUserIs, FaithfulUnwritten

LEMMA FinishTurnsFaithful ==
  ASSUME Shaped, Faithful, NEW t \in Tasks, FinishTurns(t)
  PROVE  Faithful'
<1> DEFINE l == Moving("Verifying", "off")
           j == journal[t]
<1>1. pc[t] = "choose" /\ at[t].act = Finish /\ state[t] = "Implementing"
  BY TaskFaithful DEF FinishTurns, ShapeOf, WorkingAt
<1>2. InterruptedToolCall(j) = 0
  BY <1>1, TaskFaithful DEF Calm, WorkingAt
<1>3. Poised(j, state[t], "move", l)
  BY <1>1, TaskFaithful DEF Poised
<1>4. FaithfulOf(j, state[t], plan[t], "move", l)
  <2> HIDE DEF l, j
  <2>1. FaithfulOf(j, state[t], plan[t], pc[t], at[t])
    BY TaskFaithful DEF j
  <2>2. QED
    BY <1>1, <1>2, <1>3, <2>1, FaithfulRests
<1>5. QED
  BY <1>4, FinishTurnsIs, FaithfulUnwritten

LEMMA BeginStepFaithful ==
  ASSUME Shaped, Faithful, NEW t \in Tasks, BeginStep(t)
  PROVE  Faithful'
<1> DEFINE l == WithStep(at[t], NextStep(t))
           j == journal[t]
<1>1. Becomes(t, journal[t], state[t], plan[t], "begin", l, verdict[t])
  BY BeginStepIs
<1>2. l.step = NextStep(t)
  BY TaskTyped DEF WithStep, Locals
<1>3. /\ pc[t] = "top" /\ state[t] = "Implementing" /\ InterruptedToolCall(j) = 0
      /\ Len(RestOfGroup(t)) = 1
  BY DEF BeginStep, Undisturbed, MayWork, AtStep
<1>4. Alone(plan[t], CompletedPlanSteps(j), l.step)
  BY <1>2, <1>3 DEF Alone, RestOfGroup, NextStep
<1> HIDE DEF l
<1>5. Rested(j)
  BY <1>3, TaskFaithful, RestedIs
<1>6. Poised(j, state[t], "begin", l)
  BY <1>5, RestedPoised
<1>7. Calm(j, state[t], plan[t], "begin", l)
  BY <1>3, TaskFaithful, CalmStays
<1>8. Minded(j, state[t], plan[t], "begin", l)
  <2>1. \A i \in Open(j) : Pursues(j, i, state[t], plan[t], "begin", l)
    BY <1>3, TaskFaithful DEF Minded, Pursues
  <2>2. QED
    BY <1>4, <2>1 DEF Minded
<1>9. FaithfulOf(journal[t], state[t], plan[t], "begin", l)
  BY <1>6, <1>7, <1>8, TaskFaithful DEF FaithfulOf
<1>10. QED
  BY <1>1, <1>9, FaithfulUnwritten

LEMMA BeginWaveFaithful ==
  ASSUME Shaped, Faithful, NEW t \in Tasks, BeginWave(t)
  PROVE  Faithful'
<1> DEFINE l == WithTodo(at[t], WaveChunks(RestOfGroup(t), plan[t], MaxParallel))
           j == journal[t]
<1>1. Becomes(t, journal[t], state[t], plan[t], "wave", l, verdict[t])
  BY BeginWaveIs
<1> HIDE DEF l
<1>2. pc[t] = "top" /\ state[t] = "Implementing" /\ InterruptedToolCall(j) = 0
  BY DEF BeginWave, Undisturbed, MayWork, AtStep
<1>3. Len(RestOfGroup(t)) > 1
  BY BeginWaveIs
<1>4. Len(RestOfGroup(t)) # 1
  <2>1. ~(1 > 1)
    OBVIOUS
  <2>2. QED
    BY <1>3, <2>1, Zenon
<1>5. ASSUME NEW x PROVE ~Alone(plan[t], CompletedPlanSteps(j), x)
  BY <1>4 DEF Alone, RestOfGroup, NextStep
<1>6. Rested(j)
  BY <1>2, TaskFaithful, RestedIs
<1>7. Poised(j, state[t], "wave", l)
  BY <1>6, RestedPoised
<1>8. Calm(j, state[t], plan[t], "wave", l)
  BY <1>2, TaskFaithful, CalmStays
<1>9. Minded(j, state[t], plan[t], "wave", l)
  <2>1. \A i \in Open(j) : Pursues(j, i, state[t], plan[t], "wave", l)
    BY <1>2, <1>5, TaskFaithful DEF Minded, Pursues
  <2>2. QED
    BY <2>1 DEF Minded
<1>10. FaithfulOf(journal[t], state[t], plan[t], "wave", l)
  BY <1>7, <1>8, <1>9, TaskFaithful DEF FaithfulOf
<1>11. QED
  BY <1>1, <1>10, FaithfulUnwritten

\* Between the steps of a wave.
LEMMA FaithfulWaves ==
  ASSUME NEW j, NEW p, NEW s, NEW c, NEW l, NEW l2, NEW c2,
         FaithfulOf(j, s, p, c, l), c \in {"wave", "fold"}, c2 \in {"wave", "fold", "top"}
  PROVE  FaithfulOf(j, s, p, c2, l2)
<1>1. InterruptedToolCall(j) = 0
  BY DEF FaithfulOf, Calm, WorkingAt
<1>2. Poised(j, s, c2, l2)
  BY RestedIs, RestedPoised DEF FaithfulOf
<1>3. Calm(j, s, p, c2, l2)
  BY <1>1, CalmStays DEF FaithfulOf
<1>4. Minded(j, s, p, c2, l2)
  <2>1. \A i \in Open(j) : Pursues(j, i, s, p, c2, l2)
    BY <1>1 DEF FaithfulOf, Minded, Pursues
  <2>2. QED
    BY <2>1 DEF Minded
<1>5. QED
  BY <1>2, <1>3, <1>4 DEF FaithfulOf

LEMMA JoinChunkFaithful ==
  ASSUME Shaped, Faithful, NEW t \in Tasks, JoinChunk(t)
  PROVE  Faithful'
<1>1. FaithfulOf(journal[t], state[t], plan[t], "fold", at[t])
  BY TaskFaithful, FaithfulWaves DEF JoinChunk
<1>2. QED
  BY <1>1, JoinChunkIs, FaithfulUnwritten

LEMMA NextChunkFaithful ==
  ASSUME Shaped, Faithful, NEW t \in Tasks, NextChunk(t)
  PROVE  Faithful'
<1>1. ASSUME NEW c \in {"wave", "top"}, NEW l
      PROVE  FaithfulOf(journal[t], state[t], plan[t], c, l)
  BY TaskFaithful, FaithfulWaves DEF NextChunk
<1>2. ASSUME NEW c \in {"wave", "top"}, NEW l, Becomes(t, journal[t], state[t], plan[t], c, l, verdict[t])
      PROVE  Faithful'
  BY <1>1, <1>2, FaithfulUnwritten
<1>3. QED
  BY <1>2, NextChunkIs

LEMMA FoldFailureFaithful ==
  ASSUME Shaped, Faithful, NEW t \in Tasks, FoldFailure(t)
  PROVE  Faithful'
BY FoldFailureIs, Failing

LEMMA FaultFaithful ==
  ASSUME Shaped, Faithful, NEW t \in Tasks, Fault(t)
  PROVE  Faithful'
<1>1. pc[t] \in {"plan_call", "call", "turn", "exec"}
  BY DEF Fault
<1>2. CASE InWave(t) /\ Becomes(t, journal[t], state[t], plan[t], "off", Idle, "err")
  <2>1. Rested(journal[t])
    BY <1>1, TaskFaithful, RestedIs
  <2>2. Poised(journal[t], state[t], "off", Idle)
    BY <2>1, RestedPoised
  <2>3. state[t] # "WaitingForUser"
    BY <1>1, TaskFaithful DEF ShapeOf, PlanningAt, WorkingAt
  <2>4. FaithfulOf(journal[t], state[t], plan[t], "off", Idle)
    BY <1>1, <2>2, <2>3, TaskFaithful, FaithfulRests
  <2>5. QED
    BY <1>2, <2>4, FaithfulUnwritten
<1>3. QED
  BY <1>2, FaultIs, Failing

LEMMA ResumeFaithful ==
  ASSUME Shaped, Faithful, Resume
  PROVE  Faithful'
<1> DEFINE e == Plain("note")
<1>0. Root \in Tasks
  BY TasksAre
<1>1. e \in Entries /\ e.kind # "turn_call"
  <2>1. "note" \in Kinds
    BY DEF Kinds
  <2>2. QED
    BY <2>1, PlainTyped, EntryFields
<1>2. FaithfulOf(Append(journal[Root], e), state[Root], plan[Root], "top", at[Root])
  BY <1>0, TaskFaithful, FaithfulNoted
<1>3. Becomes(Root, Append(journal[Root], e), state[Root], plan[Root], "top", at[Root], verdict[Root])
  BY ResumeIs
<1> HIDE DEF e
<1>4. QED
  BY <1>0, <1>1, <1>2, <1>3, FaithfulWritten

LEMMA KilledFaithful ==
  ASSUME NEW t, NEW j, NEW p, NEW s, NEW c, NEW l, NEW v,
         FaithfulOf(j, s, p, c, l), ShapeOf(t, j, s, p, c, l, v)
  PROVE  FaithfulOf(j, s, p, "off", Idle)
<1>1. c \in WorkingAt => s = "Implementing"
  BY DEF ShapeOf
<1>2. Poised(j, s, "off", Idle)
  BY <1>1 DEF FaithfulOf, Poised, WorkingAt
<1>3. Calm(j, s, p, "off", Idle)
  BY DEF FaithfulOf, Calm, WorkingAt
<1>4. Minded(j, s, p, "off", Idle)
  <2>1. ASSUME NEW i \in Open(j) PROVE Pursues(j, i, s, p, "off", Idle)
    <3>1. Pursues(j, i, s, p, c, l)
      BY DEF FaithfulOf, Minded
    <3>2. QED
      BY <1>1, <3>1 DEF Pursues, WorkingAt
  <2>2. QED
    BY <2>1 DEF Minded
<1>5. QED
  BY <1>2, <1>3, <1>4 DEF FaithfulOf

LEMMA KillFaithful ==
  ASSUME Shaped, Faithful, Kill
  PROVE  Faithful'
<1>1. ASSUME NEW t \in Tasks
      PROVE  FaithfulOf(journal[t], state[t], plan[t], "off", Idle)
  BY TaskFaithful, KilledFaithful
<1>2. journal' = journal /\ state' = state /\ plan' = plan
      /\ \A t \in Tasks : pc'[t] = "off" /\ at'[t] = Idle
  BY DEF Kill
<1>3. QED
  BY <1>1, <1>2 DEF Faithful

LEMMA MovedFaithful ==
  ASSUME NEW j, NEW p, NEW s, NEW l, NEW c2 \in {"off", "top"}, NEW s2,
         FaithfulOf(j, s, p, "move", l), l = Moving(s2, c2),
         s2 \in {"Implementing", "Failed", "Verifying", "WaitingForUser", "WaitingForPermission"},
         s2 = "Implementing" <=> c2 = "top"
  PROVE  FaithfulOf(j, s2, p, c2, Idle)
<1> DEFINE S == {"Implementing", "Failed", "Verifying", "WaitingForUser", "WaitingForPermission"}
<1>1. \A x, y \in S : \A a, b \in {"off", "top"} : Moving(x, a) = Moving(y, b) => x = y /\ a = b
  <2>1. S \subseteq States
    BY DEF States
  <2>2. \A x \in S : \A a \in {"off", "top"} : Moving(x, a).to = x /\ Moving(x, a).then = a
    BY <2>1, MovingIs
  <2>3. QED
    BY <2>2
<1>2. Poised(j, s2, c2, Idle)
  <2>1. Poised(j, s, "move", l)
    BY DEF FaithfulOf
  <2>2. QED
    BY <1>1, <2>1 DEF Poised
<1>3. s2 \in {"Implementing", "WaitingForUser"} => InterruptedToolCall(j) = 0
  BY DEF FaithfulOf, Calm
<1>4. s2 # "Planning"
  OBVIOUS
<1>5. QED
  BY <1>2, <1>3, <1>4, FaithfulRests

LEMMA MoveFaithful ==
  ASSUME Shaped, Faithful, NEW t \in Tasks, Move(t)
  PROVE  Faithful'
<1> DEFINE S == {"Implementing", "Failed", "Verifying", "WaitingForUser", "WaitingForPermission"}
<1>1. pc[t] = "move"
  BY DEF Move
<1>2. PICK to \in S, then \in {"off", "top"} :
           at[t] = Moving(to, then) /\ (to = "Implementing" <=> then = "top")
  BY <1>1, TaskFaithful DEF ShapeOf
<1>3. at[t].to = to /\ at[t].then = then
  <2>1. to \in States
    BY DEF States
  <2>2. QED
    BY <1>2, <2>1, MovingIs
<1>4. FaithfulOf(journal[t], to, plan[t], then, Idle)
  BY <1>1, <1>2, TaskFaithful, MovedFaithful
<1>5. ASSUME NEW v, Becomes(t, journal[t], to, plan[t], then, Idle, v) PROVE Faithful'
  BY <1>4, <1>5, FaithfulUnwritten
<1>6. QED
  BY <1>3, <1>5, MoveIs

-----------------------------------------------------------------------------
\* Handlers that only note something.

LEMMA AsideFaithful ==
  ASSUME Shaped, Faithful, NEW t \in Tasks, NEW e \in Entries,
         Becomes(t, Append(journal[t], e), state[t], plan[t], pc[t], at[t], verdict[t]),
         Aside(journal[t], e), e.kind # "permission_ask"
  PROVE  Faithful'
<1>1. FaithfulOf(Append(journal[t], e), state[t], plan[t], pc[t], at[t])
  BY TaskFaithful, FaithfulAside
<1>2. e.kind # "turn_call"
  BY DEF Aside, Closers, ModelCall
<1>3. QED
  BY <1>1, <1>2, FaithfulWritten

LEMMA WorkNoted ==
  ASSUME NEW j, NEW k \in {"plan_checkpoint", "plan_step_started", "subtask_started"}, NEW x,
         Rested(j)
  PROVE  Aside(j, About(k, x)) /\ About(k, x).kind # "permission_ask"
<1> DEFINE e == About(k, x)
<1>1. e.kind = k /\ e.of = 0
  BY EntryFields
<1> HIDE DEF e
<1>2. Follows(j, e)
  BY RestedFollows
<1>3. Aside(j, e) /\ e.kind # "permission_ask"
  BY <1>1, <1>2 DEF Aside, Fresh, Closers, Answers, ModelCall
<1>4. QED
  BY <1>3 DEF e

LEMMA TakeCheckpointFaithful ==
  ASSUME Shaped, Faithful, NEW t \in Tasks, TakeCheckpoint(t)
  PROVE  Faithful'
<1> DEFINE e == About("plan_checkpoint", at[t].step)
<1>1. pc[t] = "begin"
  BY DEF TakeCheckpoint
<1>2. Rested(journal[t])
  BY <1>1, TaskFaithful, RestedIs
<1>3. Aside(journal[t], e) /\ e.kind # "permission_ask"
  BY <1>2, WorkNoted
<1>4. Becomes(t, Append(journal[t], e), state[t], plan[t], pc[t], at[t], verdict[t])
  BY TakeCheckpointIs
<1>5. e \in Entries
  BY <1>4, WrittenTyped, TakeCheckpointShaped
<1> HIDE DEF e
<1>6. QED
  BY <1>3, <1>4, <1>5, AsideFaithful

LEMMA StartStepFaithful ==
  ASSUME Shaped, Faithful, NEW t \in Tasks, StartStep(t)
  PROVE  Faithful'
<1> DEFINE e == About("plan_step_started", at[t].step)
<1>1. pc[t] = "begin"
  BY DEF StartStep
<1>2. Rested(journal[t])
  BY <1>1, TaskFaithful, RestedIs
<1>3. Aside(journal[t], e) /\ e.kind # "permission_ask"
  BY <1>2, WorkNoted
<1>4. Becomes(t, Append(journal[t], e), state[t], plan[t], pc[t], at[t], verdict[t])
  BY StartStepIs
<1>5. e \in Entries
  BY <1>4, WrittenTyped, StartStepShaped
<1> HIDE DEF e
<1>6. QED
  BY <1>3, <1>4, <1>5, AsideFaithful

LEMMA FoldCheckpointFaithful ==
  ASSUME Shaped, Faithful, NEW t \in Tasks, FoldCheckpoint(t)
  PROVE  Faithful'
<1>1. pc[t] = "fold"
  BY DEF FoldCheckpoint, Folding
<1>2. Rested(journal[t])
  BY <1>1, TaskFaithful, RestedIs
<1>3. ASSUME NEW k \in {"plan_checkpoint", "plan_step_started"},
             Becomes(t, Append(journal[t], About(k, Folded(t))), state[t], plan[t], pc[t], at[t],
                     verdict[t])
      PROVE  Faithful'
  <2> DEFINE e == About(k, Folded(t))
  <2>1. Aside(journal[t], e) /\ e.kind # "permission_ask"
    BY <1>2, WorkNoted
  <2>2. e \in Entries
    BY <1>3, WrittenTyped, FoldCheckpointShaped
  <2>3. Becomes(t, Append(journal[t], e), state[t], plan[t], pc[t], at[t], verdict[t])
    BY <1>3
  <2> HIDE DEF e
  <2>4. QED
    BY <2>1, <2>2, <2>3, AsideFaithful
<1>4. QED
  BY <1>3, FoldCheckpointIs

LEMMA NoteScopeExpansionFaithful ==
  ASSUME Shaped, Faithful, NEW t \in Tasks, NoteScopeExpansion(t)
  PROVE  Faithful'
<1> DEFINE e == Plain("plan_scope_expansion")
           j == journal[t]
           q == Append(j, e)
<1>1. pc[t] = "act" /\ at[t].act.kind = "tool" /\ state[t] = "Implementing"
  BY TaskFaithful DEF NoteScopeExpansion, ShapeOf, WorkingAt
<1>2. Rested(j)
  BY <1>1, TaskFaithful, RestedIs
<1>3. \A i \in Open(j) : Pursues(j, i, state[t], plan[t], "act", at[t])
  BY <1>1, TaskFaithful DEF Minded
<1>4. \A i \in Open(j) : j[i].act # Finish
  <2>1. \A i \in Open(j) : j[i].act = at[t].act
    BY <1>3 DEF Pursues
  <2>2. Finish.kind # "tool"
    BY DEF Finish
  <2>3. QED
    BY <1>1, <2>1, <2>2
<1>5. e.kind = "plan_scope_expansion" /\ e.of = 0
  BY EntryFields
<1>6. Becomes(t, q, state[t], plan[t], "issue", at[t], verdict[t])
  BY NoteScopeExpansionIs
<1>7. e \in Entries
  BY <1>6, WrittenTyped, NoteScopeExpansionShaped
<1> HIDE DEF e
<1>8. Aside(j, e) /\ e.kind # "permission_ask" /\ e.kind # "turn_call"
  <2>1. Follows(j, e)
    BY <1>2, RestedFollows
  <2>2. QED
    BY <1>4, <1>5, <2>1 DEF Aside, Fresh, Closers, Answers, ModelCall
<1>9. Calm(j, state[t], plan[t], "issue", at[t])
  <2>1. InterruptedToolCall(j) = 0
    BY <1>1, TaskFaithful DEF Calm, WorkingAt
  <2>2. QED
    BY <1>1, <2>1, TaskFaithful, CalmStays
<1>10. Minded(j, state[t], plan[t], "issue", at[t])
  <2>1. \A i \in Open(j) : Pursues(j, i, state[t], plan[t], "issue", at[t])
    BY <1>3 DEF Pursues
  <2>2. QED
    BY <1>1, <2>1 DEF Minded
<1>11. FaithfulOf(q, state[t], plan[t], "issue", at[t])
  <2> HIDE DEF j
  <2>1. j \in Seq(Entries) /\ Recorded(j)
    BY TaskFaithful DEF j
  <2>2. QED
    BY <1>7, <1>8, <1>9, <1>10, <2>1, FaithfulAside
<1>12. QED
  BY <1>6, <1>7, <1>8, <1>11, FaithfulWritten

\* A task starts with an empty journal.
LEMMA NewFaithful ==
  ASSUME NEW s, NEW p, NEW c \in {"off", "top"}
  PROVE  FaithfulOf(<<>>, s, p, c, Idle)
<1> DEFINE j == <<>>
<1>1. j \in Seq(Entries) /\ DOMAIN j = {}
  OBVIOUS
<1>2. \A kinds : Places(j, kinds) = {}
  BY <1>1 DEF Places
<1>3. LastToolCall(j) = 0
  BY <1>2 DEF LastToolCall, LastOf
<1> HIDE DEF j
<1>4. InterruptedToolCall(j) = 0
  BY <1>3 DEF InterruptedToolCall
<1>5. Open(j) = {}
  BY <1>2 DEF Open
<1>6. Recorded(j)
  BY <1>1, <1>2, <1>4, <1>5 DEF Recorded, Genuine, Seamless, CallsSettled, Effective
<1>7. Poised(j, s, c, Idle)
  BY DEF Poised, j
<1>8. Calm(j, s, p, c, Idle)
  BY <1>2, <1>4 DEF Calm
<1>9. Minded(j, s, p, c, Idle)
  BY <1>5 DEF Minded
<1>10. QED
  BY <1>6, <1>7, <1>8, <1>9 DEF FaithfulOf, j

LEMMA SpawnChildFaithful ==
  ASSUME Shaped, Faithful, NEW t \in Tasks, SpawnChild(t)
  PROVE  Faithful'
<1>0. t = Root /\ pc[Root] = "wave" /\ Root \in Tasks
  BY SpawnChildIs, TasksAre
<1>1. PICK c \in Children : state[c] = "None" /\ Spawns(c, SpawnedFor)
  BY SpawnChildIs
<1> DEFINE e == About("subtask_started", SpawnedFor)
           j == journal[Root]
           q == Append(j, e)
           l == WithKids(at[Root], Append(at[Root].kids, c))
<1>2. /\ c # Root /\ c \in Tasks
      /\ journal'[Root] = q /\ state'[Root] = state[Root] /\ plan'[Root] = plan[Root]
      /\ pc'[Root] = pc[Root] /\ at'[Root] = l
      /\ journal'[c] = journal[c] /\ state'[c] = "Implementing" /\ pc'[c] = "top" /\ at'[c] = at[c]
      /\ \A u \in Tasks : u # c /\ u # Root =>
           /\ journal'[u] = journal[u] /\ state'[u] = state[u] /\ plan'[u] = plan[u]
           /\ pc'[u] = pc[u] /\ at'[u] = at[u]
  BY <1>1, SpawnedAt
<1>3. journal[c] = <<>> /\ at[c] = Idle
  BY <1>1, <1>2, TaskTyped DEF ShapeOf
<1>4. j \in Seq(Entries) /\ Rested(j)
  BY <1>0, TaskFaithful, RestedIs
<1>5. e \in Entries
  <2>1. journal'[Root] \in Seq(Entries)
    BY <1>0, SpawnChildShaped DEF Shaped, TypeOK
  <2>2. q[Len(j) + 1] = e /\ Len(j) + 1 \in DOMAIN q
    BY <1>4, AnyAppended
  <2>3. QED
    BY <1>2, <2>1, <2>2
<1>6. Aside(j, e) /\ e.kind # "permission_ask"
  BY <1>4, WorkNoted
<1> HIDE DEF e, l
<1>7. FaithfulOf(j, state[Root], plan[Root], pc[Root], l)
  BY <1>0, TaskFaithful, FaithfulWaves
<1>8. FaithfulOf(q, state[Root], plan[Root], pc[Root], l)
  BY <1>4, <1>5, <1>6, <1>7, FaithfulAside DEF FaithfulOf
<1>9. AllTold(q)
  <2>1. AllTold(j)
    BY DEF Faithful
  <2>2. e.kind # "turn_call"
    BY <1>6 DEF Aside, Closers, ModelCall
  <2>3. QED
    BY <1>4, <1>5, <2>1, <2>2, ToldKept
<1>10. FaithfulOf(journal'[c], state'[c], plan'[c], pc'[c], at'[c])
  BY <1>2, <1>3, NewFaithful
<1> HIDE DEF q
<1>11. ASSUME NEW u \in Tasks
       PROVE  FaithfulOf(journal'[u], state'[u], plan'[u], pc'[u], at'[u])
  BY <1>2, <1>8, <1>10 DEF Faithful
<1>12. QED
  BY <1>2, <1>9, <1>11 DEF Faithful

-----------------------------------------------------------------------------
\* How a call ends, and what the user answers.

LEMMA OutcomeFaithful ==
  ASSUME NEW j \in Seq(Entries), NEW e \in Entries, NEW p, NEW s, NEW c, NEW l, NEW c2, NEW l2,
         FaithfulOf(j, s, p, c, l), Fresh(j, e), Follows(j, e),
         e.kind \in Outcomes \union {"user_response"},
         InterruptedToolCall(Append(j, e)) = 0,
         Poised(Append(j, e), s, c2, l2), c2 \in {"top", "move"},
         c \notin {"act", "issue"}, c = "off" => s # "Implementing"
  PROVE  FaithfulOf(Append(j, e), s, p, c2, l2)
<1> DEFINE q == Append(j, e)
<1>1. /\ e.kind # "tool" /\ e.kind \notin Closers /\ e.kind \notin Answers
      /\ e.kind # "plan_completion" /\ e.kind # "plan_scope_expansion"
  BY DEF Outcomes, Closers, Answers, ModelCall
<1>2. Recorded(q)
  BY <1>1, SideRecorded DEF FaithfulOf
<1>3. Calm(q, s, p, c, l)
  BY <1>1, CalmWritten DEF FaithfulOf
<1>4. Minded(q, s, p, c, l)
  BY <1>1, MindedWritten DEF FaithfulOf
<1> HIDE DEF q
<1>5. InterruptedToolCall(q) = 0 /\ Poised(q, s, c2, l2)
  BY DEF q
<1>6. Calm(q, s, p, c2, l2)
  <2>1. c2 # "turn"
    OBVIOUS
  <2>2. QED
    BY <1>3, <1>5, <2>1, CalmStays
<1>7. Minded(q, s, p, c2, l2)
  BY <1>4, <1>5, MindedRests
<1>8. FaithfulOf(q, s, p, c2, l2)
  BY <1>2, <1>5, <1>6, <1>7 DEF FaithfulOf
<1>9. QED
  BY <1>8 DEF q

\* The outcome of the last call.
LEMMA CallEnded ==
  ASSUME NEW j \in Seq(Entries), NEW e \in Entries, e.kind \in Outcomes, e.of = LastToolCall(j)
  PROVE  /\ Fresh(j, e) /\ InterruptedToolCall(Append(j, e)) = 0
         /\ e.of = LastToolCall(Append(j, e))
         /\ e.kind # "turn_call"
         /\ e.kind # "permission_ask" =>
              \A s, c, l : Poised(Append(j, e), s, c, l)
<1>1. Fresh(j, e) /\ e.kind # "tool" /\ e.kind # "turn_call" /\ e.kind # "turn_completion"
  BY DEF Fresh, Outcomes
<1>2. InterruptedToolCall(Append(j, e)) = 0
  BY <1>1, InterruptedAppended
<1>3. LastToolCall(Append(j, e)) = LastToolCall(j)
  BY <1>1, LastToolAppended
<1>4. e.kind # "permission_ask" => Rested(Append(j, e))
  BY <1>1, LastAppended
<1>5. QED
  BY <1>1, <1>2, <1>3, <1>4, RestedPoised

LEMMA ToolEndsFaithful ==
  ASSUME Shaped, Faithful, NEW t \in Tasks, ToolEnds(t)
  PROVE  Faithful'
<1> DEFINE j == journal[t]
<1>1. pc[t] = "exec" /\ state[t] = "Implementing"
  BY TaskFaithful DEF ToolEnds, ShapeOf, WorkingAt
<1>2. Rested(j) /\ j \in Seq(Entries) /\ FaithfulOf(j, state[t], plan[t], "exec", at[t])
  BY <1>1, TaskFaithful, RestedIs
<1>3. ASSUME NEW k \in Outcomes, NEW c, NEW l,
             \/ k = "tool_result" /\ c = "top" /\ l = Idle
             \/ k = "permission_ask" /\ c = "move" /\ l = Moving("WaitingForPermission", "off")
             \/ k = "tool_denied" /\ c = "move" /\ l = Moving("Failed", "off"),
             Becomes(t, Append(j, Outcome(k, LastToolCall(j))), state[t], plan[t], c, l, verdict[t])
      PROVE  Faithful'
  <2> DEFINE e == Outcome(k, LastToolCall(j))
             q == Append(j, e)
  <2>1. e.kind = k /\ e.of = LastToolCall(j)
    BY EntryFields
  <2>2. e \in Entries
    BY <1>3, WrittenTyped, ToolEndsShaped
  <2>3. Becomes(t, q, state[t], plan[t], c, l, verdict[t])
    BY <1>3
  <2> HIDE DEF e
  <2>4. /\ Fresh(j, e) /\ InterruptedToolCall(q) = 0 /\ e.of = LastToolCall(q)
        /\ e.kind # "turn_call"
        /\ e.kind # "permission_ask" => Poised(q, state[t], c, l)
    BY <1>2, <1>3, <2>1, <2>2, CallEnded
  <2>5. Follows(j, e)
    BY <1>2, RestedFollows
  <2>6. Poised(q, state[t], c, l)
    <3>1. CASE k = "permission_ask"
      <4>1. q # <<>> /\ q[Len(q)] = e
        BY <1>2, <2>2, LastAppended
      <4>2. c = "move" /\ l = Moving("WaitingForPermission", "off")
        BY <1>3, <3>1
      <4> HIDE DEF q
      <4>3. QED
        BY <1>1, <2>1, <2>4, <3>1, <4>1, <4>2 DEF Poised
    <3>2. QED
      BY <2>1, <2>4, <3>1
  <2>7. c \in {"top", "move"}
    BY <1>3
  <2>8. FaithfulOf(q, state[t], plan[t], c, l)
    <3> HIDE DEF j
    <3> QED BY <1>1, <1>2, <2>1, <2>2, <2>4, <2>5, <2>6, <2>7, OutcomeFaithful
  <2>9. QED
    BY <2>2, <2>3, <2>4, <2>8, FaithfulWritten
<1>4. {"tool_result", "tool_denied", "permission_ask"} \subseteq Outcomes
  BY DEF Outcomes
<1>5. CASE Becomes(t, Append(j, Outcome("tool_result", LastToolCall(j))), state[t], plan[t], "top",
                   Idle, verdict[t])
  BY <1>3, <1>4, <1>5
<1>6. CASE Becomes(t, Append(j, Outcome("permission_ask", LastToolCall(j))), state[t], plan[t],
                   "move", Moving("WaitingForPermission", "off"), verdict[t])
  BY <1>3, <1>4, <1>6
<1>7. CASE Becomes(t, Append(j, Outcome("tool_denied", LastToolCall(j))), state[t], plan[t],
                   "move", Moving("Failed", "off"), verdict[t])
  BY <1>3, <1>4, <1>7
<1>8. QED
  BY <1>5, <1>6, <1>7, ToolEndsIs

LEMMA PendingIs ==
  ASSUME NEW j, PendingToolCall(j) # 0
  PROVE  PendingToolCall(j) = LastToolCall(j)
BY DEF PendingToolCall

\* The user decides about the call the task waits for.
LEMMA PermissionFaithful ==
  ASSUME Shaped, Faithful, NEW t \in Tasks, pc[t] = "off", state[t] = "WaitingForPermission",
         PendingToolCall(journal[t]) # 0,
         NEW k \in {"tool_result", "tool_denied"}, NEW l,
         Becomes(t, Append(journal[t], Outcome(k, PendingToolCall(journal[t]))), state[t], plan[t],
                 "move", l, verdict[t]),
         Shaped'
  PROVE  Faithful'
<1> DEFINE j == journal[t]
           e == Outcome(k, PendingToolCall(j))
           q == Append(j, e)
<1>1. e.kind = k /\ e.of = LastToolCall(j)
  BY EntryFields, PendingIs
<1>2. e \in Entries
  BY WrittenTyped
<1>3. Becomes(t, q, state[t], plan[t], "move", l, verdict[t])
  OBVIOUS
<1>4. j \in Seq(Entries) /\ FaithfulOf(j, state[t], plan[t], "off", at[t])
  BY TaskFaithful
<1> HIDE DEF e
<1>5. Follows(j, e)
  BY <1>1, <1>4 DEF FaithfulOf, Poised, Follows, MayFollow
<1>6. e.kind \in Outcomes /\ e.kind # "permission_ask"
  BY <1>1 DEF Outcomes
<1>7. /\ Fresh(j, e) /\ InterruptedToolCall(q) = 0 /\ e.kind # "turn_call"
      /\ Poised(q, state[t], "move", l)
  BY <1>1, <1>2, <1>4, <1>6, CallEnded
<1>8. FaithfulOf(q, state[t], plan[t], "move", l)
  <2> HIDE DEF j
  <2> QED BY <1>2, <1>4, <1>5, <1>6, <1>7, OutcomeFaithful
<1>9. QED
  BY <1>2, <1>3, <1>7, <1>8, FaithfulWritten

LEMMA ApproveFaithful ==
  ASSUME Shaped, Faithful, NEW t \in Tasks, Approve(t)
  PROVE  Faithful'
<1>1. pc[t] = "off" /\ state[t] = "WaitingForPermission" /\ PendingToolCall(journal[t]) # 0
  BY DEF Approve, MayReply
<1>2. QED
  BY <1>1, ApproveIs, ApproveShaped, PermissionFaithful

LEMMA DenyFaithful ==
  ASSUME Shaped, Faithful, NEW t \in Tasks, Deny(t)
  PROVE  Faithful'
<1>1. pc[t] = "off" /\ state[t] = "WaitingForPermission" /\ PendingToolCall(journal[t]) # 0
  BY DEF Deny, MayReply
<1>2. QED
  BY <1>1, DenyIs, DenyShaped, PermissionFaithful

LEMMA RespondFaithful ==
  ASSUME Shaped, Faithful, NEW t \in Tasks, Respond(t)
  PROVE  Faithful'
<1> DEFINE j == journal[t]
           e == Plain("user_response")
           q == Append(j, e)
           l == Moving("Implementing", "top")
<1>1. pc[t] = "off" /\ state[t] = "WaitingForUser"
  BY DEF Respond, MayReply
<1>2. e.kind = "user_response" /\ e.of = 0
  BY EntryFields
<1>3. Becomes(t, q, state[t], plan[t], "move", l, verdict[t])
  BY RespondIs
<1>4. e \in Entries
  BY <1>3, WrittenTyped, RespondShaped
<1>5. j \in Seq(Entries) /\ FaithfulOf(j, state[t], plan[t], "off", at[t])
  BY <1>1, TaskFaithful
<1> HIDE DEF e, l
<1>6. Follows(j, e)
  BY <1>1, <1>2, <1>5 DEF FaithfulOf, Poised, Follows, MayFollow
<1>7. Fresh(j, e)
  BY <1>2 DEF Fresh
<1>8. InterruptedToolCall(q) = 0
  <2>1. InterruptedToolCall(j) = 0
    BY <1>1, <1>5 DEF FaithfulOf, Calm
  <2>2. QED
    BY <1>2, <1>4, <1>5, <1>7, <2>1, InterruptedAppended
<1>9. Poised(q, state[t], "move", l)
  BY <1>2, <1>4, <1>5, LastAppended, RestedPoised
<1>10. FaithfulOf(q, state[t], plan[t], "move", l)
  <2>1. e.kind \in Outcomes \union {"user_response"}
    BY <1>2
  <2> HIDE DEF j
  <2>2. QED
    BY <1>1, <1>4, <1>5, <1>6, <1>7, <1>8, <1>9, <2>1, OutcomeFaithful
<1>11. QED
  BY <1>2, <1>3, <1>4, <1>10, FaithfulWritten

-----------------------------------------------------------------------------
\* A call is issued.

LEMMA CallIssued ==
  ASSUME NEW j \in Seq(Entries), NEW e \in Entries, NEW p, NEW c, NEW l, NEW l2,
         FaithfulOf(j, "Implementing", p, c, l), e.kind = "tool", e.of = 0, Follows(j, e),
         LastToolCall(j) # 0 => Settled(Append(j, e), LastToolCall(j)),
         \A i \in Open(j) :
           /\ e.act = j[i].act /\ e.act.kind = "tool"
           /\ Cardinality(After(j, i, {"tool"})) <= Cardinality(After(j, i, {"note"}))
  PROVE  FaithfulOf(Append(j, e), "Implementing", p, "exec", l2)
<1> DEFINE q == Append(j, e)
<1>1. Recorded(q) /\ Open(q) = Open(j)
  BY ToolRecorded DEF FaithfulOf
<1>2. Poised(q, "Implementing", "exec", l2)
  BY LastAppended, RestedPoised
<1>3. Calm(q, "Implementing", p, "exec", l2)
  BY CalmWorking DEF FaithfulOf, Fresh
<1>4. CompletedPlanSteps(q) = CompletedPlanSteps(j)
  BY CompletedAppended
<1>5. ASSUME NEW i \in Open(j) PROVE Pursues(q, i, "Implementing", p, "exec", l2)
  <2>1. Pursues(j, i, "Implementing", p, c, l) /\ i \in DOMAIN j
    BY OpenAre DEF FaithfulOf, Minded
  <2>2. q[i] = j[i]
    BY <2>1, AnyAppended
  <2>3. After(q, i, {"tool"}) # {}
    <3>1. e.kind \in {"tool"}
      OBVIOUS
    <3>2. After(q, i, {"tool"}) = After(j, i, {"tool"}) \union {Len(j) + 1}
      BY <2>1, <3>1, AfterMore
    <3>3. QED
      BY <3>2
  <2> HIDE DEF q
  <2>4. QED
    BY <1>4, <2>1, <2>2, <2>3 DEF Pursues
<1> HIDE DEF q
<1>6. Minded(q, "Implementing", p, "exec", l2)
  BY <1>1, <1>5 DEF Minded
<1>7. FaithfulOf(q, "Implementing", p, "exec", l2)
  BY <1>1, <1>2, <1>3, <1>6 DEF FaithfulOf
<1>8. QED
  BY <1>7 DEF q

\* The call that is issued again speaks for the one before it.
LEMMA AgainSettled ==
  ASSUME NEW j \in Seq(Entries), NEW e \in Entries, NEW i \in DOMAIN j,
         e.kind = "tool", e.act = j[i].act, After(j, i, {"turn_call"}) = {}
  PROVE  Settled(Append(j, e), i)
<1> DEFINE q == Append(j, e)
           n == Len(j) + 1
<1>1. q[i] = j[i] /\ q[n] = e
  BY AnyAppended
<1>2. n \in After(q, i, {"tool"})
  <2>1. e.kind \in {"tool"}
    OBVIOUS
  <2>2. After(q, i, {"tool"}) = After(j, i, {"tool"}) \union {n}
    BY <2>1, AfterMore
  <2>3. QED
    BY <2>2
<1>3. Between(q, i, n, {"turn_call"}) = {}
  BY BetweenAppended
<1> HIDE DEF q, n
<1>4. Settled(q, i)
  BY <1>1, <1>2, <1>3 DEF Settled
<1>5. QED
  BY <1>4 DEF q

LEMMA ReissueCallFaithful ==
  ASSUME Shaped, Faithful, NEW t \in Tasks, ReissueCall(t)
  PROVE  Faithful'
<1> DEFINE j == journal[t]
           i == LastToolCall(j)
           e == Entry("tool", None, j[i].act, 0, 0)
           q == Append(j, e)
           l == WithAct(at[t], j[i].act)
<1>1. pc[t] = "top" /\ state[t] = "Implementing"
  BY DEF ReissueCall, MayWork, AtStep
<1>2. Rested(j) /\ j \in Seq(Entries) /\ FaithfulOf(j, "Implementing", plan[t], "top", at[t])
  BY <1>1, TaskFaithful, RestedIs
<1>3. InterruptedToolCall(j) # 0 /\ InterruptedToolCall(j) = i /\ i # 0 /\ i \in DOMAIN j
  <2>1. InterruptedToolCall(j) # 0
    BY ReissueCallIs
  <2>2. QED
    BY <1>2, <2>1, InterruptedIs, LastToolIs
<1>4. Becomes(t, q, state[t], plan[t], "exec", l, verdict[t])
  BY <1>3, ReissueCallIs
<1>5. e.kind = "tool" /\ e.of = 0 /\ e.act = j[i].act
  BY EntryFields
<1>6. e \in Entries
  BY <1>4, WrittenTyped, ReissueCallShaped
<1> HIDE DEF e, l
<1>7. Follows(j, e)
  BY <1>2, RestedFollows
<1>8. Settled(q, i)
  <2>1. After(j, i, {"turn_call"}) = {}
    BY <1>2, <1>3 DEF FaithfulOf, Recorded, CallsSettled
  <2> HIDE DEF j, i
  <2>2. QED
    BY <1>2, <1>3, <1>5, <1>6, <2>1, AgainSettled
<1>9. ASSUME NEW k \in Open(j)
      PROVE  /\ e.act = j[k].act /\ e.act.kind = "tool"
             /\ Cardinality(After(j, k, {"tool"})) <= Cardinality(After(j, k, {"note"}))
  <2>1. Pursued(j, k) /\ Pursues(j, k, "Implementing", plan[t], "top", at[t])
    BY <1>2 DEF FaithfulOf, Recorded, Minded
  <2>2. Cardinality(After(j, k, {"tool"})) <= Cardinality(After(j, k, {"note"}))
    BY <1>3, <2>1 DEF Pursues
  <2>3. After(j, k, {"tool"}) # {}
    BY <1>3, <2>1 DEF Pursued
  <2>4. PICK m : m \in After(j, k, {"tool"})
    BY <2>3
  <2>5. m \in Places(j, {"tool"}) /\ m > k /\ m <= i /\ i \in Places(j, {"tool"})
    BY <1>2, <1>3, <2>4, LastToolIs DEF After
  <2>6. m \in Nat /\ i \in Nat /\ k \in Nat
    BY <1>2, <1>3, <2>5, PlacesAre, OpenAre, LastToolIs
  <2>7. i > k
    <3> HIDE DEF i
    <3> QED BY <2>5, <2>6
  <2>8. i \in After(j, k, {"tool"})
    BY <2>5, <2>7 DEF After
  <2>9. QED
    BY <1>5, <2>1, <2>2, <2>8 DEF Pursued
<1>10. FaithfulOf(q, "Implementing", plan[t], "exec", l)
  <2> HIDE DEF j
  <2>1. LastToolCall(j) # 0 => Settled(q, LastToolCall(j))
    BY <1>8
  <2>2. QED
    BY <1>2, <1>5, <1>6, <1>7, <1>9, <2>1, CallIssued
<1>11. QED
  BY <1>1, <1>4, <1>5, <1>6, <1>10, FaithfulWritten

LEMMA IssueCallFaithful ==
  ASSUME Shaped, Faithful, NEW t \in Tasks, IssueCall(t)
  PROVE  Faithful'
<1> DEFINE j == journal[t]
           e == Entry("tool", None, at[t].act, 0, 0)
           q == Append(j, e)
<1>1. pc[t] \in {"issue", "choose", "act"} /\ state[t] = "Implementing"
  BY TaskFaithful DEF IssueCall, ShapeOf, WorkingAt
<1>2. j \in Seq(Entries) /\ FaithfulOf(j, "Implementing", plan[t], pc[t], at[t])
  BY <1>1, TaskFaithful
<1>3. at[t].act.kind = "tool"
  <2>1. pc[t] = "issue" => at[t].act.kind = "tool"
    BY <1>2 DEF FaithfulOf, Minded
  <2>2. QED
    BY <2>1 DEF IssueCall
<1>4. Becomes(t, q, state[t], plan[t], "exec", at[t], verdict[t])
  BY IssueCallIs
<1>5. e.kind = "tool" /\ e.of = 0 /\ e.act = at[t].act
  BY EntryFields
<1>6. e \in Entries
  BY <1>4, WrittenTyped, IssueCallShaped
<1> HIDE DEF e
<1>7. Follows(j, e)
  BY <1>1, <1>2, <1>3, <1>5 DEF FaithfulOf, Poised, Follows, MayFollow
<1>8. ASSUME LastToolCall(j) # 0 PROVE Settled(q, LastToolCall(j))
  <2>1. InterruptedToolCall(j) = 0
    BY <1>1, <1>2 DEF FaithfulOf, Calm, WorkingAt
  <2>2. LastToolCall(j) \in DOMAIN j /\ j # <<>>
    BY <1>2, <1>8, LastToolIs
  <2>3. j[Len(j)].kind # "permission_ask"
    BY <1>1, <1>2, <2>2 DEF FaithfulOf, Poised
  <2> HIDE DEF j
  <2>4. Settled(j, LastToolCall(j))
    BY <1>2, <1>8, <2>1, <2>3, LastCallSettled DEF FaithfulOf, Recorded
  <2>5. QED
    BY <1>2, <2>2, <2>4, SettledStays
<1>9. ASSUME NEW k \in Open(j)
      PROVE  /\ e.act = j[k].act /\ e.act.kind = "tool"
             /\ Cardinality(After(j, k, {"tool"})) <= Cardinality(After(j, k, {"note"}))
  <2>1. After(j, k, {"tool"}) = {} /\ at[t].act = j[k].act
    BY <1>1, <1>2 DEF FaithfulOf, Minded, Pursues
  <2>2. k \in DOMAIN j
    BY <1>2, OpenAre
  <2> DEFINE a == Cardinality(After(j, k, {"tool"}))
             b == Cardinality(After(j, k, {"note"}))
  <2>3. a = 0 /\ b \in Nat
    <3> HIDE DEF j
    <3> QED BY <1>2, <2>1, <2>2, AfterCounted
  <2>4. a <= b
    <3> HIDE DEF a, b
    <3> QED BY <2>3
  <2>5. QED
    BY <1>3, <1>5, <2>1, <2>4
<1>10. FaithfulOf(q, "Implementing", plan[t], "exec", at[t])
  <2> HIDE DEF j
  <2>1. QED
    BY <1>2, <1>5, <1>6, <1>7, <1>8, <1>9, CallIssued
<1>11. QED
  BY <1>1, <1>4, <1>5, <1>6, <1>10, FaithfulWritten

-----------------------------------------------------------------------------
\* Handlers of a step of a plan, and what they find of an open decision.

LEMMA StepPlanned ==
  ASSUME Shaped, NEW t \in Tasks, NEW x \in StepIds(plan[t])
  PROVE  plan[t] # NoPlan
BY TaskTyped, PlansAre

LEMMA PlannedOpen ==
  ASSUME NEW j \in Seq(Entries), NEW s, NEW p, NEW c, NEW l, Calm(j, s, p, c, l), NEW i \in Open(j)
  PROVE  /\ p # NoPlan => j[i].kind = "step_completion"
         /\ p = NoPlan => j[i].kind = "turn_completion"
<1>1. i \in DOMAIN j /\ j[i].kind \in Answers
  BY OpenAre
<1>2. p # NoPlan => i \notin Places(j, {"turn_completion"})
  BY DEF Calm
<1>3. p = NoPlan => i \notin Places(j, {"step_completion"})
  BY DEF Calm
<1>4. QED
  BY <1>1, <1>2, <1>3 DEF Places, Answers

\* The open decision is the one UnprocessedStepAction looks at.
LEMMA StepActionIs ==
  ASSUME NEW j \in Seq(Entries), Recorded(j), NEW i \in Open(j), j[i].kind = "step_completion"
  PROVE  /\ UnprocessedStepAction(j, j[i].step) # 0 =>
              UnprocessedStepAction(j, j[i].step) = i /\ After(j, i, {"tool"}) = {}
         /\ UnprocessedStepAction(j, j[i].step) = 0 =>
              After(j, i, {"tool"}) # {} \/ After(j, i, {"plan_scope_expansion"}) # {}
<1> DEFINE x == j[i].step
           S == PlacesFor(j, {"step_completion"}, x)
           u == LastOf(S)
           K == {"tool", "plan_step_completed", "plan_scope_expansion"}
<1>1. i \in DOMAIN j /\ i \in Nat /\ i \in Places(j, Answers)
  BY OpenAre
<1>2. i \in S
  BY <1>1 DEF PlacesFor, Places
<1>3. u \in S /\ i <= u /\ u \in Nat /\ u # 0
  <2>1. S \in SUBSET (1 .. Len(j)) /\ Len(j) \in Nat
    BY PlacesForAre
  <2> HIDE DEF S
  <2>2. QED
    BY <1>2, <2>1, LastOfIs
<1>4. u = i
  <2>1. u \in Places(j, Answers)
    BY <1>3 DEF PlacesFor, Places, Answers
  <2>2. After(j, u, Closers) = {}
    <3>1. After(j, i, Closers) = {}
      BY DEF Open
    <3>2. \A m \in Places(j, Closers) : m \in Nat
      BY PlacesAre
    <3>3. \A m \in Places(j, Closers) : m > u => m > i
      <4> HIDE DEF u
      <4> QED BY <1>1, <1>3, <3>2
    <3>4. QED
      BY <3>1, <3>3 DEF After
  <2>3. u \in Open(j)
    BY <2>1, <2>2 DEF Open
  <2>4. QED
    BY <2>3 DEF Recorded
<1>5. UnprocessedStepAction(j, x) = IF Since(j, i, K) THEN 0 ELSE i
  BY <1>4 DEF UnprocessedStepAction
<1>6. i # 0
  BY <1>3, <1>4
<1>7. Since(j, i, K) <=> After(j, i, {"tool"}) # {} \/ After(j, i, {"plan_scope_expansion"}) # {}
  <2>1. After(j, i, {"plan_step_completed"}) = {}
    BY DEF Open, After, Places, Closers
  <2>2. QED
    BY <2>1 DEF Since, After, Places
<1>8. QED
  BY <1>5, <1>6, <1>7

LEMMA ReplayActionFaithful ==
  ASSUME Shaped, Faithful, NEW t \in Tasks, ReplayAction(t)
  PROVE  Faithful'
<1> DEFINE j == journal[t]
           x == at[t].step
           u == UnprocessedStepAction(j, x)
           l == WithAct(at[t], j[u].act)
<1>1. pc[t] = "begin" /\ state[t] = "Implementing" /\ x \in StepIds(plan[t])
  BY TaskFaithful DEF ReplayAction, Begun, ShapeOf, WorkingAt
<1>2. /\ Rested(j) /\ j \in Seq(Entries) /\ at[t] \in Locals /\ Recorded(j)
      /\ Calm(j, state[t], plan[t], "begin", at[t]) /\ Minded(j, state[t], plan[t], "begin", at[t])
  BY <1>1, TaskFaithful, RestedIs
<1>3. u # 0 /\ Becomes(t, j, state[t], plan[t], "act", l, verdict[t])
  BY ReplayActionIs
<1>4. l.step = x /\ l.act = j[u].act
  <2>1. l = [at[t] EXCEPT !.act = j[u].act]
    BY DEF WithAct
  <2>2. QED
    BY <1>2, <2>1 DEF Locals
<1> HIDE DEF l
<1>5. plan[t] # NoPlan
  BY <1>1, StepPlanned
<1>6. Alone(plan[t], CompletedPlanSteps(j), x)
  BY <1>2 DEF Minded
<1>7. ASSUME NEW i \in Open(j) PROVE Pursues(j, i, state[t], plan[t], "act", l)
  <2>1. j[i].kind = "step_completion"
    BY <1>2, <1>5, PlannedOpen
  <2>2. Alone(plan[t], CompletedPlanSteps(j), j[i].step)
    BY <1>2, <2>1 DEF Minded, Pursues
  <2>3. j[i].step = x
    BY <1>6, <2>2 DEF Alone
  <2>4. u = i /\ After(j, i, {"tool"}) = {}
    <3> HIDE DEF j, x
    <3>1. UnprocessedStepAction(j, j[i].step) # 0
      BY <1>3, <2>3
    <3>2. QED
      BY <1>2, <2>1, <2>3, <3>1, StepActionIs
  <2>5. QED
    BY <1>4, <2>2, <2>4 DEF Pursues
<1>8. Minded(j, state[t], plan[t], "act", l)
  BY <1>4, <1>6, <1>7 DEF Minded
<1>9. Calm(j, state[t], plan[t], "act", l)
  <2>1. InterruptedToolCall(j) = 0
    BY <1>2 DEF Calm, WorkingAt
  <2>2. QED
    BY <1>2, <2>1, CalmStays
<1>10. Poised(j, state[t], "act", l)
  BY <1>2, RestedPoised
<1>11. FaithfulOf(j, state[t], plan[t], "act", l)
  BY <1>2, <1>8, <1>9, <1>10 DEF FaithfulOf
<1>12. QED
  BY <1>3, <1>11, FaithfulUnwritten

\* What has become of an open decision, by what came after it.
LEMMA EffectIs ==
  ASSUME NEW j \in Seq(Entries), NEW e \in Entries, NEW i \in Open(j), Pursued(j, i),
         j[i].kind = "step_completion" =>
           /\ j[i].act.kind = "tool" /\ After(j, i, {"tool"}) = {} =>
                /\ After(j, i, {"note"}) # {}
                /\ \/ After(j, i, {"plan_scope_expansion"}) # {}
                   \/ Cardinality({m \in PlacesFor(j, {"model_call"}, j[i].step) : m < i}) >= MaxTurns
           /\ j[i].act = Finish => e.kind = "plan_step_completed",
         j[i].kind # "step_completion" =>
           /\ j[i].act.kind = "tool" => After(j, i, {"tool"}) # {} \/ CutOffAfter(j, i)
           /\ j[i].act = Finish => CutOffAfter(j, i)
           /\ j[i].act = Ask => After(j, i, {"user_response"}) # {} \/ CutOffAfter(j, i)
  PROVE  Effect(Append(j, e), i, Len(j) + 1)
<1> DEFINE q == Append(j, e)
           k == Len(j) + 1
           calls == {m \in Between(q, i, k, {"tool"}) : q[m].act = q[i].act}
           before == {m \in PlacesFor(q, {"model_call"}, q[i].step) : m < i}
<1>1. i \in DOMAIN j /\ i \in Nat /\ Len(j) \in Nat /\ i <= Len(j)
  BY OpenAre
<1>2. q[i] = j[i] /\ q[k] = e /\ \A m \in DOMAIN j : q[m] = j[m]
  BY <1>1, AnyAppended
<1>3. /\ Between(q, i, k, {"tool"}) = After(j, i, {"tool"})
      /\ Between(q, i, k, {"note"}) = After(j, i, {"note"})
      /\ Between(q, i, k, {"plan_scope_expansion"}) = After(j, i, {"plan_scope_expansion"})
      /\ Between(q, i, k, {"user_response"}) = After(j, i, {"user_response"})
  BY <1>1, BetweenAppended
<1>4. calls = After(j, i, {"tool"})
  <2>1. After(j, i, {"tool"}) \subseteq DOMAIN j
    BY PlacesAre DEF After
  <2>2. \A m \in After(j, i, {"tool"}) : j[m].act = j[i].act
    BY DEF Pursued
  <2> HIDE DEF q, k
  <2>3. QED
    BY <1>2, <1>3, <2>1, <2>2
<1>5. before = {m \in PlacesFor(j, {"model_call"}, j[i].step) : m < i}
  <2> DEFINE x == j[i].step
             C == {"model_call"}
  <2>1. q[i].step = x
    BY <1>2
  <2> HIDE DEF x, C
  <2>2. PlacesFor(q, C, x) = PlacesFor(j, C, x) \union (IF e.kind \in C /\ e.step = x THEN {k} ELSE {})
    BY PlacesForAppended
  <2>3. ~(k < i)
    BY <1>1
  <2>4. \A m : m \in PlacesFor(q, C, x) /\ m < i <=> m \in PlacesFor(j, C, x) /\ m < i
    <3> HIDE DEF q, k
    <3> QED BY <2>2, <2>3
  <2>5. {m \in PlacesFor(q, C, x) : m < i} = {m \in PlacesFor(j, C, x) : m < i}
    BY <2>4
  <2>6. QED
    BY <2>1, <2>5 DEF x, C
<1>6. CutOffAfter(j, i) => CutOffAfter(q, i)
  BY <1>1, CutOffAppended
<1>7. Cardinality(calls) <= 1 + Cardinality(Between(q, i, k, {"note"}))
  BY <1>3, <1>4 DEF Pursued
<1>8. Excused(q, i, k)
        <=> /\ After(j, i, {"note"}) # {}
            /\ \/ After(j, i, {"plan_scope_expansion"}) # {}
               \/ Cardinality({m \in PlacesFor(j, {"model_call"}, j[i].step) : m < i}) >= MaxTurns
  BY <1>3, <1>5 DEF Excused
<1> HIDE DEF q, k
<1>9. CASE j[i].kind = "step_completion"
  <2>1. j[i].act.kind = "tool" => calls # {} \/ Excused(q, i, k)
    BY <1>4, <1>8, <1>9
  <2>2. QED
    BY <1>2, <1>7, <1>9, <2>1 DEF Effect, q, k
<1>10. CASE j[i].kind # "step_completion"
  <2>1. j[i].act.kind = "tool" => calls # {} \/ CutOffAfter(q, i)
    BY <1>4, <1>6, <1>10
  <2>2. j[i].act = Ask => Between(q, i, k, {"user_response"}) # {} \/ CutOffAfter(q, i)
    BY <1>3, <1>6, <1>10
  <2>3. QED
    BY <1>2, <1>6, <1>7, <1>10, <2>1, <2>2 DEF Effect, q, k
<1>11. QED
  BY <1>9, <1>10

\* A step is closed, or the model is asked again.
LEMMA Closed ==
  ASSUME NEW j \in Seq(Entries), NEW e \in Entries, NEW p, NEW s, NEW c, NEW l, NEW c2, NEW l2,
         FaithfulOf(j, s, p, c, l), Rested(j), InterruptedToolCall(j) = 0,
         e.kind \in Closers, e.of = 0,
         \A i \in Open(j) : Effect(Append(j, e), i, Len(j) + 1),
         c2 = "turn" => p = NoPlan, c2 # "issue",
         c2 \in {"begin", "call", "act"} => Alone(p, CompletedPlanSteps(Append(j, e)), l2.step)
  PROVE  FaithfulOf(Append(j, e), s, p, c2, l2)
<1> DEFINE q == Append(j, e)
<1>1. e.kind # "tool" /\ e.kind \notin Answers /\ Fresh(j, e)
      /\ e.kind \notin {"permission_ask", "turn_completion"}
  BY DEF Closers, ModelCall, Answers, Fresh
<1>2. Recorded(q) /\ Open(q) = {}
  BY RestedFollows, CloserRecorded DEF FaithfulOf
<1>3. InterruptedToolCall(q) = 0
  BY <1>1, InterruptedAppended
<1>4. Calm(q, s, p, c, l)
  BY <1>1, CalmWritten DEF FaithfulOf
<1>5. Poised(q, s, c2, l2)
  BY <1>1, LastAppended, RestedPoised
<1> HIDE DEF q
<1>6. Calm(q, s, p, c2, l2)
  BY <1>3, <1>4, CalmStays
<1>7. Minded(q, s, p, c2, l2)
  BY <1>2 DEF Minded, q
<1>8. FaithfulOf(q, s, p, c2, l2)
  BY <1>2, <1>5, <1>6, <1>7 DEF FaithfulOf
<1>9. QED
  BY <1>8 DEF q

-----------------------------------------------------------------------------
\* A decision is superseded only when it has taken effect.

\* A step of a plan in hand.
LEMMA StepOpen ==
  ASSUME Shaped, Faithful, NEW t \in Tasks, pc[t] \in {"begin", "act"}, NEW i \in Open(journal[t])
  PROVE  /\ journal[t][i].kind = "step_completion" /\ Pursued(journal[t], i)
         /\ i \in DOMAIN journal[t] /\ i \in Nat
         /\ pc[t] = "begin" => journal[t][i].step = at[t].step
         /\ pc[t] = "act" => journal[t][i].act = at[t].act
         /\ journal[t][i].act.kind = "tool" /\ After(journal[t], i, {"tool"}) = {} /\ pc[t] = "begin" =>
              After(journal[t], i, {"note"}) # {}
<1> DEFINE j == journal[t]
<1>1. /\ j \in Seq(Entries) /\ Recorded(j) /\ Calm(j, state[t], plan[t], pc[t], at[t])
      /\ Minded(j, state[t], plan[t], pc[t], at[t])
  BY TaskFaithful
<1>2. plan[t] # NoPlan
  <2>1. at[t].step \in StepIds(plan[t])
    BY TaskTyped DEF ShapeOf
  <2>2. QED
    BY <2>1, StepPlanned
<1>3. j[i].kind = "step_completion" /\ i \in DOMAIN j /\ i \in Nat
  BY <1>1, <1>2, PlannedOpen, OpenAre
<1>4. Pursues(j, i, state[t], plan[t], pc[t], at[t])
  BY <1>1 DEF Minded
<1>5. pc[t] = "begin" => j[i].step = at[t].step
  BY <1>1, <1>3, <1>4 DEF Minded, Pursues, Alone
<1>6. QED
  BY <1>1, <1>3, <1>4, <1>5 DEF Recorded, Pursues

LEMMA RequestActionFaithful ==
  ASSUME Shaped, Faithful, NEW t \in Tasks, RequestAction(t)
  PROVE  Faithful'
<1> DEFINE j == journal[t]
           x == at[t].step
           e == Entry("model_call", x, Nothing, CountModelCalls(j), 0)
           q == Append(j, e)
<1>1. pc[t] = "begin" /\ state[t] = "Implementing" /\ UnprocessedStepAction(j, x) = 0
  BY TaskFaithful DEF RequestAction, Begun, ShapeOf, WorkingAt
<1>2. /\ Rested(j) /\ j \in Seq(Entries) /\ Recorded(j) /\ InterruptedToolCall(j) = 0
      /\ FaithfulOf(j, state[t], plan[t], "begin", at[t])
      /\ Alone(plan[t], CompletedPlanSteps(j), x)
  BY <1>1, TaskFaithful, RestedIs DEF Calm, WorkingAt, Minded
<1>3. Becomes(t, q, state[t], plan[t], "call", at[t], verdict[t])
  BY RequestActionIs
<1>4. e.kind = "model_call" /\ e.of = 0
  BY EntryFields
<1>5. e \in Entries
  BY <1>3, WrittenTyped, RequestActionShaped
<1> HIDE DEF e
<1>6. ASSUME NEW i \in Open(j) PROVE Effect(q, i, Len(j) + 1)
  <2>1. /\ j[i].kind = "step_completion" /\ Pursued(j, i) /\ j[i].step = x
        /\ j[i].act.kind = "tool" /\ After(j, i, {"tool"}) = {} => After(j, i, {"note"}) # {}
    BY <1>1, StepOpen
  <2>2. After(j, i, {"tool"}) # {} \/ After(j, i, {"plan_scope_expansion"}) # {}
    <3> HIDE DEF j, x
    <3>1. UnprocessedStepAction(j, j[i].step) = 0
      BY <1>1, <2>1
    <3>2. QED
      BY <1>2, <2>1, <3>1, StepActionIs
  <2>3. j[i].act # Finish
    <3>1. Finish.kind # "tool"
      BY DEF Finish
    <3>2. QED
      BY <2>1, <2>2, <3>1 DEF Pursued
  <2> HIDE DEF j
  <2>4. QED
    BY <1>2, <1>5, <2>1, <2>2, <2>3, EffectIs
<1>7. Alone(plan[t], CompletedPlanSteps(q), x)
  <2>1. CompletedPlanSteps(q) = CompletedPlanSteps(j)
    BY <1>2, <1>4, CompletedAppended
  <2>2. QED
    BY <1>2, <2>1
<1>8. e.kind \in Closers
  BY <1>4 DEF Closers, ModelCall
<1>9. FaithfulOf(q, state[t], plan[t], "call", at[t])
  <2> HIDE DEF j
  <2>1. QED
    BY <1>2, <1>4, <1>5, <1>6, <1>7, <1>8, Closed
<1>10. QED
  BY <1>3, <1>4, <1>5, <1>9, FaithfulWritten

\* The turns of a step were all spent before its last decision.
LEMMA TurnsSpent ==
  ASSUME NEW j \in Seq(Entries), NEW i \in Open(j), ModelTurnsForStep(j, j[i].step) >= MaxTurns
  PROVE  Cardinality({m \in PlacesFor(j, {"model_call"}, j[i].step) : m < i}) >= MaxTurns
<1> DEFINE x == j[i].step
           P == PlacesFor(j, {"model_call"}, x)
           start == FirstOf(PlacesFor(j, {"plan_step_started"}, x))
           S == {m \in P : m > start}
           B == {m \in P : m < i}
<1>1. i \in Nat /\ j[i].kind \in Answers /\ i \in DOMAIN j
  BY OpenAre
<1>2. IsFiniteSet(P) /\ P \in SUBSET Nat
  BY Counted, PlacesForAre
<1>3. MaxTurns \in Nat \ {0}
  BY PlanStepsAssumption
<1>4. start # 0 /\ ModelTurnsForStep(j, x) = Cardinality(S)
  <2>1. ModelTurnsForStep(j, x) = IF start = 0 THEN 0 ELSE Cardinality(S)
    BY DEF ModelTurnsForStep
  <2>2. ~(0 >= MaxTurns)
    BY <1>3
  <2> HIDE DEF start, S
  <2>3. QED
    BY <2>1, <2>2
<1>5. P \subseteq B
  <2>1. \A m \in P : m \in Places(j, Closers) /\ j[m].kind = "model_call"
    BY DEF PlacesFor, Places, Closers, ModelCall
  <2>2. \A m \in P : ~(m > i)
    BY <2>1 DEF Open, After
  <2>3. \A m \in P : m # i
    BY <1>1, <2>1 DEF Answers
  <2> HIDE DEF P
  <2>4. QED
    BY <1>1, <1>2, <2>2, <2>3
<1> HIDE DEF P, start
<1>6. IsFiniteSet(B) /\ S \subseteq B
  <2>1. IsFiniteSet(B)
    BY <1>2, FS_Subset
  <2>2. QED
    BY <1>5, <2>1
<1> HIDE DEF B, S
<1>7. Cardinality(S) <= Cardinality(B) /\ Cardinality(S) \in Nat /\ Cardinality(B) \in Nat
  BY <1>6, FS_Subset, FS_CardinalityType
<1>8. Cardinality(S) >= MaxTurns
  BY <1>4
<1>9. Cardinality(B) >= MaxTurns
  BY <1>3, <1>7, <1>8
<1>10. QED
  BY <1>9 DEF B, P

\* A step that is complete: what it decided last took effect.
LEMMA StepClosed ==
  ASSUME Shaped, Faithful, NEW t \in Tasks, pc[t] \in {"begin", "act"},
         Becomes(t, Append(journal[t], About("plan_step_completed", at[t].step)), state[t], plan[t],
                 "top", Idle, verdict[t]),
         Shaped',
         \A i \in Open(journal[t]) :
           journal[t][i].act.kind = "tool" /\ After(journal[t], i, {"tool"}) = {} =>
             /\ pc[t] = "begin"
             /\ Cardinality({m \in PlacesFor(journal[t], {"model_call"}, journal[t][i].step) : m < i})
                  >= MaxTurns
  PROVE  Faithful'
<1> DEFINE j == journal[t]
           e == About("plan_step_completed", at[t].step)
           q == Append(j, e)
<1>1. /\ Rested(j) /\ j \in Seq(Entries) /\ InterruptedToolCall(j) = 0
      /\ FaithfulOf(j, state[t], plan[t], pc[t], at[t])
  BY TaskFaithful, RestedIs DEF Calm, WorkingAt
<1>2. e.kind = "plan_step_completed" /\ e.of = 0
  BY EntryFields
<1>3. e \in Entries
  BY WrittenTyped
<1>4. Becomes(t, q, state[t], plan[t], "top", Idle, verdict[t])
  OBVIOUS
<1> HIDE DEF e
<1>5. ASSUME NEW i \in Open(j) PROVE Effect(q, i, Len(j) + 1)
  <2>1. /\ j[i].kind = "step_completion" /\ Pursued(j, i)
        /\ j[i].act.kind = "tool" /\ After(j, i, {"tool"}) = {} =>
             /\ After(j, i, {"note"}) # {}
             /\ Cardinality({m \in PlacesFor(j, {"model_call"}, j[i].step) : m < i}) >= MaxTurns
    BY StepOpen
  <2> HIDE DEF j
  <2>2. QED
    BY <1>1, <1>2, <1>3, <2>1, EffectIs
<1>6. e.kind \in Closers
  BY <1>2 DEF Closers
<1>7. FaithfulOf(q, state[t], plan[t], "top", Idle)
  <2> HIDE DEF j
  <2>1. QED
    BY <1>1, <1>2, <1>3, <1>5, <1>6, Closed
<1>8. QED
  BY <1>2, <1>3, <1>4, <1>7, FaithfulWritten

LEMMA ForceCompleteFaithful ==
  ASSUME Shaped, Faithful, NEW t \in Tasks, ForceComplete(t)
  PROVE  Faithful'
<1>1. pc[t] = "begin" /\ ModelTurnsForStep(journal[t], at[t].step) >= MaxTurns
  BY DEF ForceComplete, Begun
<1>2. journal[t] \in Seq(Entries)
  BY TaskTyped
<1>3. ASSUME NEW i \in Open(journal[t])
      PROVE  Cardinality({m \in PlacesFor(journal[t], {"model_call"}, journal[t][i].step) : m < i})
               >= MaxTurns
  <2>1. journal[t][i].step = at[t].step
    BY <1>1, StepOpen
  <2>2. QED
    BY <1>1, <1>2, <2>1, TurnsSpent
<1>4. QED
  BY <1>1, <1>3, ForceCompleteIs, ForceCompleteShaped, StepClosed

LEMMA FinishStepFaithful ==
  ASSUME Shaped, Faithful, NEW t \in Tasks, FinishStep(t)
  PROVE  Faithful'
<1>1. pc[t] = "act" /\ at[t].act = Finish
  BY DEF FinishStep
<1>2. \A i \in Open(journal[t]) : journal[t][i].act.kind # "tool"
  <2>1. \A i \in Open(journal[t]) : journal[t][i].act = Finish
    BY <1>1, StepOpen
  <2>2. QED
    BY <2>1 DEF Finish
<1>3. QED
  BY <1>1, <1>2, FinishStepIs, FinishStepShaped, StepClosed

LEMMA FoldCompleteFaithful ==
  ASSUME Shaped, Faithful, NEW t \in Tasks, FoldComplete(t)
  PROVE  Faithful'
<1> DEFINE j == journal[t]
           e == About("plan_step_completed", Folded(t))
           q == Append(j, e)
           l == LessOne(at[t])
<1>1. pc[t] = "fold" /\ Folding(t)
  BY DEF FoldComplete, Folding
<1>2. /\ Rested(j) /\ j \in Seq(Entries) /\ InterruptedToolCall(j) = 0
      /\ FaithfulOf(j, state[t], plan[t], "fold", at[t])
  BY <1>1, TaskFaithful, RestedIs DEF Calm, WorkingAt
<1>3. plan[t] # NoPlan
  <2>1. at[t].todo \in Seq(Seq(StepIds(plan[t])))
    BY <1>1, TaskTyped DEF ShapeOf
  <2>2. at[t].todo # <<>> /\ Head(at[t].todo) # <<>>
    BY <1>1, FoldedIs
  <2>3. Head(at[t].todo) \in Seq(StepIds(plan[t]))
    BY <2>1, <2>2
  <2>4. Head(Head(at[t].todo)) \in StepIds(plan[t])
    BY <2>2, <2>3
  <2>5. QED
    BY <2>4, StepPlanned
<1>4. Open(j) = {}
  <2>1. ASSUME NEW i \in Open(j) PROVE FALSE
    <3>1. j[i].kind = "step_completion"
      BY <1>2, <1>3, PlannedOpen DEF FaithfulOf
    <3>2. QED
      BY <1>2, <3>1 DEF FaithfulOf, Minded, Pursues
  <2>2. QED
    BY <2>1
<1>5. Becomes(t, q, state[t], plan[t], "fold", l, verdict[t])
  BY <1>1, FoldCompleteIs
<1>6. e.kind = "plan_step_completed" /\ e.of = 0
  BY EntryFields
<1>7. e \in Entries
  BY <1>5, WrittenTyped, FoldCompleteShaped
<1> HIDE DEF e, l
<1>8. e.kind \in Closers
  BY <1>6 DEF Closers
<1>9. FaithfulOf(q, state[t], plan[t], "fold", l)
  <2> HIDE DEF j
  <2>1. QED
    BY <1>2, <1>4, <1>6, <1>7, <1>8, Closed
<1>10. QED
  BY <1>5, <1>6, <1>7, <1>9, FaithfulWritten

-----------------------------------------------------------------------------
\* A turn without a plan: what the last one decided took effect, or a kill
\* cut it off, and everything is told.

LEMMA TurnActedOn ==
  ASSUME NEW j \in Seq(Entries), Recorded(j), Rested(j), NEW i \in Open(j),
         j[i].kind = "turn_completion"
  PROVE  \/ CutOffAfter(j, i)
         \/ j[i].act.kind = "tool" /\ After(j, i, {"tool"}) # {}
         \/ j[i].act = Ask /\ After(j, i, {"user_response"}) # {}
<1>1. i \in DOMAIN j /\ i \in Nat /\ Len(j) \in Nat /\ i <= Len(j) /\ DOMAIN j = 1 .. Len(j)
  BY OpenAre
<1>2. i # Len(j)
  <2>1. j # <<>>
    BY <1>1
  <2>2. QED
    BY <2>1 DEF Rested
<1>3. i + 1 \in DOMAIN j /\ i + 1 > i /\ i < Len(j)
  BY <1>1, <1>2
<1>4. MayFollow(j[i], j[i + 1])
  BY <1>1, <1>3 DEF Recorded, Seamless
<1>5. j[i + 1].kind = "note" => CutOffAfter(j, i)
  BY <1>3 DEF CutOffAfter
<1>6. j[i + 1].kind = "tool" => i + 1 \in After(j, i, {"tool"})
  BY <1>3 DEF After, Places
<1>7. j[i + 1].kind = "user_response" => i + 1 \in After(j, i, {"user_response"})
  BY <1>3 DEF After, Places
<1>8. QED
  BY <1>4, <1>5, <1>6, <1>7 DEF MayFollow

LEMMA RequestTurnFaithful ==
  ASSUME Shaped, Faithful, NEW t \in Tasks, RequestTurn(t)
  PROVE  Faithful'
<1> DEFINE j == journal[t]
           e == Entry("turn_call", None, Nothing, CountModelCalls(j), 0)
           q == Append(j, e)
<1>1. pc[t] = "top" /\ plan[t] = NoPlan /\ InterruptedToolCall(j) = 0
  BY DEF RequestTurn, AtStep, HasPlan
<1>2. /\ Rested(j) /\ j \in Seq(Entries) /\ Recorded(j)
      /\ Calm(j, state[t], NoPlan, "top", at[t]) /\ FaithfulOf(j, state[t], NoPlan, "top", at[t])
  BY <1>1, TaskFaithful, RestedIs
<1>3. Becomes(t, q, state[t], NoPlan, "turn", at[t], verdict[t])
  BY <1>1, RequestTurnIs
<1>4. e.kind = "turn_call" /\ e.of = 0
  BY EntryFields
<1>5. e \in Entries
  BY <1>3, WrittenTyped, RequestTurnShaped
<1> HIDE DEF e
<1>6. ASSUME NEW i \in Open(j) PROVE Effect(q, i, Len(j) + 1)
  <2>1. j[i].kind = "turn_completion" /\ Pursued(j, i)
    BY <1>2, PlannedOpen DEF Recorded
  <2>2. \/ CutOffAfter(j, i)
        \/ j[i].act.kind = "tool" /\ After(j, i, {"tool"}) # {}
        \/ j[i].act = Ask /\ After(j, i, {"user_response"}) # {}
    <3> HIDE DEF j
    <3> QED BY <1>2, <2>1, TurnActedOn
  <2>3. Ask.kind # "tool" /\ Finish.kind # "tool" /\ Ask # Finish
    BY DEF Ask, Finish
  <2> HIDE DEF j
  <2>4. /\ j[i].act.kind = "tool" => After(j, i, {"tool"}) # {} \/ CutOffAfter(j, i)
        /\ j[i].act = Finish => CutOffAfter(j, i)
        /\ j[i].act = Ask => After(j, i, {"user_response"}) # {} \/ CutOffAfter(j, i)
    BY <2>2, <2>3
  <2>5. QED
    BY <1>2, <1>5, <2>1, <2>4, EffectIs
<1>7. e.kind \in Closers
  BY <1>4 DEF Closers, ModelCall
<1>8. FaithfulOf(q, state[t], NoPlan, "turn", at[t])
  <2> HIDE DEF j
  <2>1. QED
    BY <1>1, <1>2, <1>4, <1>5, <1>6, <1>7, Closed
<1>9. t = Root => AllTold(q)
  <2>1. t = Root => AllTold(j)
    BY DEF Faithful
  <2>2. Places(j, {"step_completion"}) = {}
    BY <1>2 DEF Calm
  <2>3. j # <<>> => j[Len(j)].kind \notin {"permission_ask", "turn_completion"}
    BY <1>2 DEF Rested
  <2> HIDE DEF j
  <2>4. Told(q, Len(j) + 1)
    BY <1>1, <1>2, <1>4, <1>5, <2>2, <2>3, TurnTold
  <2>5. QED
    BY <1>2, <1>5, <2>1, <2>4, ToldKept
<1> HIDE DEF q
<1>10. QED
  BY <1>3, <1>8, <1>9, FaithfulBecomes

\* The model has decided.
LEMMA Decided ==
  ASSUME NEW j \in Seq(Entries), NEW e \in Entries, NEW p, NEW c \in {"call", "turn"}, NEW l,
         NEW c2, NEW l2,
         FaithfulOf(j, "Implementing", p, c, l), e.of = 0, e.act \in StepActions, l2.act = e.act,
         \/ c = "call" /\ c2 = "act" /\ e.kind = "step_completion" /\ p # NoPlan
              /\ e.step = l.step /\ l2.step = l.step
         \/ c = "turn" /\ c2 = "choose" /\ e.kind = "turn_completion" /\ p = NoPlan
  PROVE  FaithfulOf(Append(j, e), "Implementing", p, c2, l2)
<1> DEFINE q == Append(j, e)
           n == Len(j) + 1
<1>1. /\ e.kind \in Answers /\ e.kind # "tool" /\ Fresh(j, e) /\ c2 \in {"act", "choose"}
      /\ e.kind # "plan_step_completed"
  BY DEF Answers, Fresh
<1>2. InterruptedToolCall(j) = 0 /\ Rested(j)
  BY RestedIs DEF FaithfulOf, Calm, WorkingAt
<1>3. Open(j) = {}
  BY DEF FaithfulOf, Minded, Pursues
<1>4. Recorded(q) /\ Open(q) = {n}
  <2>1. Follows(j, e)
    BY <1>2, RestedFollows
  <2>2. QED
    BY <1>1, <1>2, <1>3, <2>1, AnswerRecorded DEF FaithfulOf
<1>5. Calm(q, "Implementing", p, c2, l2)
  BY <1>1, <1>2, CalmWorking DEF FaithfulOf
<1>6. q # <<>> /\ q[Len(q)] = e /\ q[n] = e
  BY LastAppended, AnyAppended
<1>7. After(q, n, {"tool"}) = {}
  BY AfterAppended
<1>8. CompletedPlanSteps(q) = CompletedPlanSteps(j)
  BY <1>1, CompletedAppended
<1> HIDE DEF q, n
<1>9. Poised(q, "Implementing", c2, l2)
  BY <1>6 DEF Poised
<1>10. c = "call" => Alone(p, CompletedPlanSteps(q), l.step)
  BY <1>8 DEF FaithfulOf, Minded
<1>11. Pursues(q, n, "Implementing", p, c2, l2)
  BY <1>6, <1>7, <1>10 DEF Pursues
<1>12. Minded(q, "Implementing", p, c2, l2)
  BY <1>4, <1>10, <1>11 DEF Minded
<1>13. FaithfulOf(q, "Implementing", p, c2, l2)
  BY <1>4, <1>5, <1>9, <1>12 DEF FaithfulOf
<1>14. QED
  BY <1>13 DEF q

LEMMA StepAnsweredFaithful ==
  ASSUME Shaped, Faithful, NEW t \in Tasks, StepAnswered(t)
  PROVE  Faithful'
<1>1. pc[t] = "call" /\ state[t] = "Implementing" /\ at[t].step \in StepIds(plan[t])
  BY TaskFaithful DEF StepAnswered, ShapeOf, WorkingAt
<1>2. journal[t] \in Seq(Entries) /\ FaithfulOf(journal[t], "Implementing", plan[t], "call", at[t])
  BY <1>1, TaskFaithful
<1>3. plan[t] # NoPlan
  BY <1>1, StepPlanned
<1>4. Decisions[at[t].step] \subseteq StepActions
  <2>1. at[t].step \in DOMAIN Decisions
    BY <1>1, TaskTyped, PlansAre
  <2>2. QED
    BY <2>1, PlanStepsAssumption
<1>5. ASSUME NEW a \in Decisions[at[t].step],
             Becomes(t, Append(journal[t], Entry("step_completion", at[t].step, a, CallTurn(t), 0)),
                     state[t], plan[t], "act", WithAct(at[t], a), verdict[t])
      PROVE  Faithful'
  <2> DEFINE e == Entry("step_completion", at[t].step, a, CallTurn(t), 0)
             q == Append(journal[t], e)
             l == WithAct(at[t], a)
  <2>1. e.kind = "step_completion" /\ e.of = 0 /\ e.act = a /\ e.step = at[t].step
    BY EntryFields
  <2>2. e \in Entries
    BY <1>5, WrittenTyped, StepAnsweredShaped
  <2>3. Becomes(t, q, state[t], plan[t], "act", l, verdict[t])
    BY <1>5
  <2>4. l.act = a /\ l.step = at[t].step
    <3>1. at[t] \in Locals
      BY TaskTyped
    <3>2. QED
      BY <3>1 DEF WithAct, Locals
  <2> HIDE DEF e, l
  <2>5. FaithfulOf(q, "Implementing", plan[t], "act", l)
    BY <1>2, <1>3, <1>4, <2>1, <2>2, <2>4, Decided
  <2>6. e.kind # "turn_call"
    BY <2>1
  <2>7. QED
    BY <1>1, <2>2, <2>3, <2>5, <2>6, FaithfulWritten
<1>6. QED
  BY <1>5, StepAnsweredIs

LEMMA TurnAnsweredFaithful ==
  ASSUME Shaped, Faithful, NEW t \in Tasks, TurnAnswered(t)
  PROVE  Faithful'
<1>1. pc[t] = "turn" /\ state[t] = "Implementing"
  BY TaskFaithful DEF TurnAnswered, ShapeOf, WorkingAt
<1>2. journal[t] \in Seq(Entries) /\ FaithfulOf(journal[t], "Implementing", plan[t], "turn", at[t])
  BY <1>1, TaskFaithful
<1>3. plan[t] = NoPlan
  BY <1>2 DEF FaithfulOf, Calm
<1>4. ASSUME NEW a \in TurnDecisions,
             Becomes(t, Append(journal[t], Entry("turn_completion", None, a, CallTurn(t), 0)),
                     state[t], plan[t], "choose", WithAct(at[t], a), verdict[t])
      PROVE  Faithful'
  <2> DEFINE e == Entry("turn_completion", None, a, CallTurn(t), 0)
             q == Append(journal[t], e)
             l == WithAct(at[t], a)
  <2>1. e.kind = "turn_completion" /\ e.of = 0 /\ e.act = a /\ a \in StepActions
    BY EntryFields, PlanStepsAssumption
  <2>2. e \in Entries
    BY <1>4, WrittenTyped, TurnAnsweredShaped
  <2>3. Becomes(t, q, state[t], plan[t], "choose", l, verdict[t])
    BY <1>4
  <2>4. l.act = a
    <3>1. at[t] \in Locals
      BY TaskTyped
    <3>2. QED
      BY <3>1 DEF WithAct, Locals
  <2> HIDE DEF e, l
  <2>5. FaithfulOf(q, "Implementing", plan[t], "choose", l)
    BY <1>2, <1>3, <2>1, <2>2, <2>4, Decided
  <2>6. e.kind # "turn_call"
    BY <2>1
  <2>7. QED
    BY <1>1, <2>2, <2>3, <2>5, <2>6, FaithfulWritten
<1>5. QED
  BY <1>4, TurnAnsweredIs

-----------------------------------------------------------------------------
LEMMA InitFaithful ==
  ASSUME Init
  PROVE  Faithful
<1>1. \A t \in Tasks : FaithfulOf(journal[t], state[t], plan[t], pc[t], at[t])
  <2> TAKE t \in Tasks
  <2>1. journal[t] = <<>> /\ at[t] = Idle /\ pc[t] \in {"off", "top"}
    BY DEF Init
  <2>2. QED
    BY <2>1, NewFaithful
<1>2. AllTold(journal[Root])
  <2>1. journal[Root] = <<>>
    BY TasksAre DEF Init
  <2>2. Places(<<>>, {"turn_call"}) = {}
    BY DEF Places
  <2>3. QED
    BY <2>1, <2>2 DEF AllTold
<1>3. QED
  BY <1>1, <1>2 DEF Faithful

LEMMA FaithfulNext ==
  ASSUME Shaped, Faithful, [Next]_vars
  PROVE  Faithful'
<1>1. ASSUME NEW t \in Tasks, Driver(t) PROVE Faithful'
  <2>1. CASE Planning(t)
    BY <2>1, PassPlanningFaithful, EnterPlanningFaithful, LeavePlanningFaithful, ProposeFaithful,
       PlanAnsweredFaithful, SavePlanFaithful, AcceptPlanFaithful, RejectPlanFaithful DEF Planning
  <2>2. CASE Working(t)
    BY <2>2, WaveChildDoneFaithful, ReissueCallFaithful, PlanSpoiledFaithful, StepsDoneFaithful,
       BeginStepFaithful, BeginWaveFaithful, TakeCheckpointFaithful, StartStepFaithful,
       ForceCompleteFaithful, ReplayActionFaithful, RequestActionFaithful, StepAnsweredFaithful,
       NoteScopeExpansionFaithful, IssueCallFaithful, FinishStepFaithful, AskUserFaithful,
       ToolEndsFaithful DEF Working
  <2>3. CASE Conversing(t)
    BY <2>3, RequestTurnFaithful, TurnAnsweredFaithful, FinishTurnsFaithful DEF Conversing
  <2>4. CASE Waving(t)
    BY <2>4, SpawnChildFaithful, JoinChunkFaithful, FoldFailureFaithful, FoldCheckpointFaithful,
       FoldCompleteFaithful, NextChunkFaithful DEF Waving
  <2>5. QED
    BY <1>1, <2>1, <2>2, <2>3, <2>4, MoveFaithful, FaultFaithful DEF Driver
<1>2. CASE User
  BY <1>2, ApproveFaithful, DenyFaithful, RespondFaithful, ResumeFaithful DEF User
<1>3. CASE Kill
  BY <1>3, KillFaithful
<1>4. CASE UNCHANGED vars
  <2>1. journal' = journal /\ state' = state /\ plan' = plan /\ pc' = pc /\ at' = at
    BY <1>4 DEF vars
  <2>2. QED
    BY <2>1 DEF Faithful
<1>5. QED
  BY <1>1, <1>2, <1>3, <1>4 DEF Next

LEMMA FaithfulShows ==
  ASSUME Faithful
  PROVE  DecisionsTakeEffect /\ NothingUntold
<1>1. DecisionsTakeEffect
  BY DEF Faithful, FaithfulOf, Recorded, Effective, Effect, DecisionsTakeEffect, Answers
<1>2. NothingUntold
  BY DEF Faithful, AllTold, Told, NothingUntold
<1>3. QED
  BY <1>1, <1>2

\* Whatever the journals say after kills, resumes, prompts and answers holds
\* what they said of decisions and of what the model is told.
THEOREM JournalsAreFaithful == Spec => []Faithful
<1>1. Init => Faithful
  BY InitFaithful
<1>2. Shaped /\ Faithful /\ [Next]_vars => Faithful'
  BY FaithfulNext
<1>3. Spec => []Shaped
  BY RecordsAreWellFormed
<1>4. QED
  BY <1>1, <1>2, <1>3, PTL DEF Spec

\* What the model decided is done before anything else is asked of it, and
\* done once unless a kill left its outcome unknown (unprocessed_step_action and
\* step_implementing): for any decisions, any plans, any number of kills and of children.
THEOREM DecisionsAreKept == Spec => []DecisionsTakeEffect
<1>1. Faithful => DecisionsTakeEffect
  BY FaithfulShows
<1>2. QED
  BY <1>1, JournalsAreFaithful, PTL

\* The conversation a turn without a plan is called with (build_conversation)
\* leaves nothing out but the prompt or the question a kill cut off.
THEOREM ConversationsAreComplete == Spec => []NothingUntold
<1>1. Faithful => NothingUntold
  BY FaithfulShows
<1>2. QED
  BY <1>1, JournalsAreFaithful, PTL

=============================================================================
