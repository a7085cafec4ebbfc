-------------------------- MODULE ContextAssembly --------------------------
(***************************************************************************)
(* How valyria-context fits retrieved candidates into a model's window:    *)
(* allocate (budget.rs) turns a budget and what each section would like    *)
(* into a cap per section, and PromptAssembler::assemble (assemble.rs)     *)
(* then places the candidates one by one, each at the highest fidelity     *)
(* that fits (compress.rs), drops those that fit at none, and fails when   *)
(* a policy item is among them.                                            *)
(*                                                                         *)
(* A text is the sequence of its lines' token counts, a source file the    *)
(* sequence of its symbols' counts at each fidelity and the count of the   *)
(* line of names that may stand for it; labels, fences and the text itself *)
(* are left out, their token counts are kept.                              *)
(***************************************************************************)
EXTENDS Integers, Sequences, SequencesExt

CONSTANTS
  Budgets,    \* ContextBudgets: [available |-> n, specs |-> section -> spec]
  Pool,       \* the RetrievalCandidates a request is drawn from
  Requests,   \* the sets of candidates that are assembled
  Fixed,      \* token counts of policy, frame and task intent, with HEADER_SLACK
  Marker,     \* tokens of the line that says a text or a file was cut
  RefTokens   \* tokens of the one-line reference that replaces a text

SectionOrder == <<"policy", "instructions", "memory", "task", "repository",
                  "evidence", "history">>
SectionKinds == ToSet(SectionOrder)
Place(s) == CHOOSE i \in DOMAIN SectionOrder : SectionOrder[i] = s
Cuts == {"full", "outline", "signature"}

\* A section's maximum is not below its ideal, in every budget there is.
IsBudget(b) ==
  /\ b.available \in Nat
  /\ DOMAIN b.specs \subseteq SectionKinds
  /\ \A s \in DOMAIN b.specs :
       /\ {b.specs[s].min, b.specs[s].ideal, b.specs[s].max, b.specs[s].priority} \subseteq Nat
       /\ b.specs[s].ideal <= b.specs[s].max

\* Every symbol is rendered with a line's end: it is a token at least.
IsCandidate(c) ==
  /\ c.section \in SectionKinds /\ c.kind \in {"text", "source"}
  /\ {c.overhead, c.relevance, c.label} \subseteq Nat
  /\ c.kind = "text" => c.lines \in Seq(Nat)
  /\ c.kind = "source" => /\ {c.header, c.reference} \subseteq Nat
                          /\ c.symbols \in [Cuts -> Seq(Nat \ {0})]

\* Candidates of a section are told apart by relevance and label.
ASSUME AssemblyConstants ==
  /\ \A b \in Budgets : IsBudget(b)
  /\ \A c \in Pool : IsCandidate(c)
  /\ \A c, d \in Pool : c.section = d.section /\ c.relevance = d.relevance /\ c.label = d.label
                          => c = d
  /\ Requests \subseteq SUBSET Pool /\ \A cands \in Requests : IsFiniteSet(cands)
  /\ Fixed \subseteq Nat /\ Marker \in Nat /\ RefTokens \in Nat

VARIABLES
  budget, fixed,   \* the request's budget and fixed overhead
  phase,           \* "allocate", "fit", "done" or the error assemble returned
  cap,             \* Allocation::per_section
  queue,           \* the candidates still to place, in assembly order
  items, dropped,  \* what was placed, as [cand, level, cost], and what was not
  used             \* tokens charged to each section

assemblyVars == <<budget, fixed, phase, cap, queue, items, dropped, used>>

Lesser(a, b) == IF a < b THEN a ELSE b
Greater(a, b) == IF a < b THEN b ELSE a
Total(seq) == FoldSeq(LAMBDA n, sum : n + sum, 0, seq)
\* The elements of S in the order of Before, a strict total order.
Sorted(S, Before(_, _)) ==
  [i \in 1 .. Cardinality(S) |->
     CHOOSE x \in S : Cardinality({y \in S : Before(y, x)}) = i - 1]
SumOf(f) == FoldFunction(LAMBDA n, sum : n + sum, 0, f)

-----------------------------------------------------------------------------
(* The budget                                                              *)

SectionSpec(min, ideal, max, priority) ==
  [min |-> min, ideal |-> ideal, max |-> max, priority |-> priority]

\* ContextBudget::new, with the output reservation already taken off.
DefaultBudget(total) ==
  LET reserve == Lesser(Greater(total \div 8, 256), total)
      Pct(n) == Greater((Greater(total - reserve, 1) * n) \div 100, 1)
  IN  [available |-> total - reserve,
       specs |-> [policy       |-> SectionSpec(1, Pct(6), Pct(12), 250),
                  task         |-> SectionSpec(1, Pct(6), Pct(15), 240),
                  instructions |-> SectionSpec(0, Pct(15), Pct(30), 200),
                  memory       |-> SectionSpec(0, Pct(10), Pct(20), 150),
                  evidence     |-> SectionSpec(0, Pct(25), Pct(55), 120),
                  repository   |-> SectionSpec(0, Pct(35), Pct(70), 100),
                  history      |-> SectionSpec(0, Pct(8), Pct(20), 60)]]

ByPriority(specs) ==
  Sorted(DOMAIN specs,
    LAMBDA a, b : \/ specs[a].priority > specs[b].priority
                  \/ /\ specs[a].priority = specs[b].priority
                     /\ Place(a) < Place(b))

Want(demand, s) == IF s \in DOMAIN demand THEN demand[s] ELSE 0

Floors(specs, demand) ==
  [s \in DOMAIN specs |-> Lesser(specs[s].min, Want(demand, s))]

\* What one section gets of the tokens left, to come up to what it wants of
\* its target.
Grant(acc, specs, demand, target, s) ==
  LET goal == Lesser(specs[s][target], Want(demand, s))
      grant == Lesser(Greater(goal - acc.alloc[s], 0), acc.left)
  IN  [alloc |-> [acc.alloc EXCEPT ![s] = @ + grant], left |-> acc.left - grant]

\* One pass of the top-up, richest priority first.
TopUp(acc, specs, demand, target) ==
  FoldLeft(LAMBDA a, s : Grant(a, specs, demand, target, s), acc, ByPriority(specs))

\* Faulty: the maxima before the ideals.
CapsMaxFirst(b, demand) ==
  LET floors == Floors(b.specs, demand)
      start == [alloc |-> floors, left |-> b.available - SumOf(floors)]
  IN  TopUp(TopUp(start, b.specs, demand, "max"), b.specs, demand, "ideal").alloc

\* allocate's caps, for a budget that covers the floors.
Caps(b, demand) ==
  LET floors == Floors(b.specs, demand)
      start == [alloc |-> floors, left |-> b.available - SumOf(floors)]
  IN  TopUp(TopUp(start, b.specs, demand, "ideal"), b.specs, demand, "max").alloc

-----------------------------------------------------------------------------
(* Rendering one candidate                                                 *)

Ladder == <<"full", "outline", "signature", "reference">>

\* render_text: the whole text, or the most whole lines that fit beside the
\* marker, or, when not even one does, the first line and the marker.
RenderText(lines, target) ==
  LET fitting == {k \in 1 .. Len(lines) - 1 :
                    Total(SubSeq(lines, 1, k)) + Marker <= target}
      kept == IF fitting = {} THEN 1 ELSE Max(fitting)
  IN  IF Total(lines) <= target THEN Total(lines)
      ELSE Total(SubSeq(lines, 1, kept)) + Marker

\* render_source: the first symbol always, then symbols while they fit; the
\* note about those left out is not counted while choosing.
RenderSource(header, symbols, target) ==
  LET Size(k) == header + Total(SubSeq(symbols, 1, k))
      stops == {k \in 1 .. Len(symbols) :
                  \/ Size(k) >= target
                  \/ k < Len(symbols) /\ Size(k + 1) > target}
      kept == IF stops = {} THEN Len(symbols) ELSE Min(stops)
  IN  Size(kept) + (IF kept < Len(symbols) THEN Marker ELSE 0)

Render(c, level, target) ==
  CASE level = "reference" -> IF c.kind = "text" THEN RefTokens ELSE c.reference
    [] level # "reference" /\ c.kind = "text" -> RenderText(c.lines, target)
    [] level # "reference" /\ c.kind = "source" ->
         RenderSource(c.header, c.symbols[level], target)

\* A candidate's tokens at full size, what it adds to its section's demand.
FullTokens(c) ==
  IF c.kind = "text" THEN Total(c.lines)
  ELSE c.header + Total(c.symbols["full"])

\* fit_one: the first fidelity whose rendering fits, as a set of at most one.
FitOne(c, room) ==
  LET fits == {i \in DOMAIN Ladder : Render(c, Ladder[i], room) <= room}
  IN  IF fits = {} THEN {} ELSE {Ladder[Min(fits)]}

-----------------------------------------------------------------------------
(* assemble                                                                *)

\* Sections in their fixed order, most relevant first, labels to break ties.
AssemblyOrder(cands) ==
  Sorted(cands,
    LAMBDA a, b :
      \/ Place(a.section) < Place(b.section)
      \/ /\ a.section = b.section
         /\ \/ a.relevance > b.relevance
            \/ a.relevance = b.relevance /\ a.label < b.label)

Demand(cands) ==
  [s \in {c.section : c \in cands} |->
     SumOf([c \in {d \in cands : d.section = s} |-> FullTokens(c) + c.overhead])]

AssemblyInit ==
  /\ budget \in Budgets /\ fixed \in Fixed
  /\ \E cands \in Requests : queue = AssemblyOrder(cands)
  /\ phase = "allocate"
  /\ cap = [s \in SectionKinds |-> 0]
  /\ items = <<>> /\ dropped = {}
  /\ used = [s \in SectionKinds |-> 0]

Allocate ==
  LET demand == Demand(ToSet(queue))
      caps   == Caps(budget, demand)
  IN  /\ phase = "allocate"
      /\ IF ~ DOMAIN demand \subseteq DOMAIN budget.specs
         THEN phase' = "unbudgeted" /\ cap' = cap
         ELSE IF SumOf(Floors(budget.specs, demand)) > budget.available
         THEN phase' = "infeasible" /\ cap' = cap
         ELSE /\ phase' = "fit"
              /\ cap' = [s \in SectionKinds |-> IF s \in DOMAIN caps THEN caps[s] ELSE 0]
      /\ UNCHANGED <<budget, fixed, queue, items, dropped, used>>

GlobalUsed == fixed + SumOf(used)

\* Faulty: the section's cap is charged, the window's total is not.
HardInSection(s) == Greater(cap[s] - used[s], 0)

\* What an item of this section may still cost, its wrapper included.
Hard(s) == Greater(Lesser(budget.available - GlobalUsed, cap[s] - used[s]), 0)

\* The fidelities (at most one) at which the loop would place c now.
Placeable(c) ==
  LET room == Greater(Hard(c.section) - c.overhead, 0)
  IN  {level \in FitOne(c, room) :
         Render(c, level, room) + c.overhead <= Hard(c.section)}

PlaceNext ==
  LET c == Head(queue)
      room == Greater(Hard(c.section) - c.overhead, 0)
  IN  /\ phase = "fit" /\ queue # <<>>
      /\ \E level \in Placeable(c) :
           LET cost == Render(c, level, room) + c.overhead
           IN  /\ items' = Append(items, [cand |-> c, level |-> level, cost |-> cost])
               /\ used' = [used EXCEPT ![c.section] = @ + cost]
      /\ queue' = Tail(queue)
      /\ UNCHANGED <<budget, fixed, phase, cap, dropped>>

DropNext ==
  /\ phase = "fit" /\ queue # <<>>
  /\ Head(queue).trust # "Policy"
  /\ Placeable(Head(queue)) = {}
  /\ dropped' = dropped \cup {Head(queue)}
  /\ queue' = Tail(queue)
  /\ UNCHANGED <<budget, fixed, phase, cap, items, used>>

PolicyDoesNotFit ==
  /\ phase = "fit" /\ queue # <<>>
  /\ Head(queue).trust = "Policy"
  /\ Placeable(Head(queue)) = {}
  /\ phase' = "policy"
  /\ UNCHANGED <<budget, fixed, cap, queue, items, dropped, used>>

EndAssembly ==
  /\ phase = "fit" /\ queue = <<>>
  /\ phase' = "done"
  /\ UNCHANGED <<budget, fixed, cap, queue, items, dropped, used>>

AssemblyNext == Allocate \/ PlaceNext \/ DropNext \/ PolicyDoesNotFit \/ EndAssembly

AssemblySpec == AssemblyInit /\ [][AssemblyNext]_assemblyVars

-----------------------------------------------------------------------------
(* Properties                                                              *)

\* The reference definition allocate's doc gives (budget.rs:4-14): floors
\* first, then ideals and then maxima in priority order. Nobody has more than
\* its ideal while another is short of its own; a section short of its ideal
\* leaves every lower one at its floor, one short of its maximum leaves every
\* lower one at its ideal; and tokens are left over only when no section
\* wants more.
Given(b, demand, given) ==
  LET floors == Floors(b.specs, demand)
      Goal(s, t) == Greater(floors[s], Lesser(b.specs[s][t], Want(demand, s)))
      order == ByPriority(b.specs)
  IN  /\ SumOf(given) <= b.available
      /\ \A s \in DOMAIN floors : given[s] \in floors[s] .. Goal(s, "max")
      /\ (\E s \in DOMAIN floors : given[s] < Goal(s, "ideal")) =>
           \A s \in DOMAIN floors : given[s] <= Goal(s, "ideal")
      /\ \A i, j \in DOMAIN order : i < j =>
           /\ given[order[i]] < Goal(order[i], "ideal") =>
                given[order[j]] = floors[order[j]]
           /\ given[order[i]] < Goal(order[i], "max") =>
                given[order[j]] <= Goal(order[j], "ideal")
      /\ SumOf(given) < b.available =>
           \A s \in DOMAIN floors : given[s] = Goal(s, "max")

Candidates == {it.cand : it \in ToSet(items)} \cup dropped \cup ToSet(queue)

AllocationByPriority ==
  phase \in {"fit", "done", "policy"} => Given(budget, Demand(Candidates), cap)

\* "the whole assembled prompt ... stays under budget" (assemble.rs:190-193):
\* the wrappers included, no section outgrows its cap and all together, with
\* the fixed messages, stay within the window - provided the fixed messages
\* alone do, which assemble does not check.
FitsBudget ==
  /\ \A s \in SectionKinds : used[s] <= cap[s]
  /\ fixed <= budget.available => GlobalUsed <= budget.available
  /\ SumOf(used) = Total([i \in DOMAIN items |-> items[i].cost])

\* No dropped candidate would fit in what its section and the window have
\* left, however small the items placed after it: not whole at any fidelity,
\* not as its reference, and a text not cut after any of its lines either.  A
\* source cut between two symbols might: the note about the symbols left out
\* is not counted while they are chosen, so a file that overran the room it
\* was given may keep fewer symbols, and fit, in a smaller one.
NothingDroppedThatFits ==
  \A c \in dropped, level \in ToSet(Ladder) :
    LET left == Lesser(budget.available - GlobalUsed,
                       cap[c.section] - used[c.section])
        room == Greater(left - c.overhead, 0)
        size == IF c.kind = "source" /\ level # "reference"
                THEN c.header + Total(c.symbols[level])
                ELSE Render(c, level, room)
    IN  size + c.overhead > left

\* A prompt never outgrows its budget, and when the assembly ends nothing was
\* dropped for want of room that is there.
PromptFillsBudget == FitsBudget /\ (phase = "done" => NothingDroppedThatFits)
=============================================================================
