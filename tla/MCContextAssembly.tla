-------------------------- MODULE MCContextAssembly --------------------------
(* Nine candidates, every request drawn from them, three budgets. Sizes are  *)
(* in tokens; a fence with its warning slack costs about 80, a header 12.    *)
EXTENDS ContextAssembly

MCMarker == 11
MCRefTokens == 14

\* The fixed messages, shorter ones, and those of a task whose objective fills
\* the window.
MCFixed == {155, 220, 800}

\* A budget with floors that matter and one section nobody budgeted for.
Floored ==
  [available |-> 420,
   specs |-> [policy       |-> SectionSpec(80, 80, 100, 250),
              task         |-> SectionSpec(1, 10, 20, 240),
              instructions |-> SectionSpec(60, 120, 200, 200),
              memory       |-> SectionSpec(60, 100, 100, 150),
              evidence     |-> SectionSpec(130, 150, 200, 120),
              repository   |-> SectionSpec(120, 100, 400, 120)]]

MCBudgets == {DefaultBudget(600), DefaultBudget(1000), Floored}

Text(label, section, trust, relevance, overhead, lines) ==
  [label |-> label, section |-> section, trust |-> trust, kind |-> "text",
   relevance |-> relevance, overhead |-> overhead, lines |-> lines,
   header |-> 0, reference |-> 0, symbols |-> <<>>]

Source(label, relevance, reference, full, outline, signature) ==
  [label |-> label, section |-> "repository", trust |-> "RepoData",
   kind |-> "source", relevance |-> relevance, overhead |-> 80, lines |-> <<>>,
   header |-> 5, reference |-> reference,
   symbols |-> [full |-> full, outline |-> outline, signature |-> signature]]

\* Thirty declarations without a body or a comment.
Declarations == [i \in 1 .. 30 |-> 20]

MCPool ==
  {Text(1, "policy", "Policy", 10, 12, <<30, 30>>),
   Text(2, "instructions", "Instruction", 10, 12, <<40, 40, 40>>),
   Text(3, "instructions", "Evidence", 4, 80, <<5>>),
   Text(4, "memory", "Evidence", 8, 80, <<20>>),
   Source(5, 9, 20, <<60, 90>>, <<15, 20>>, <<8, 9>>),
   Source(6, 7, 200, Declarations, Declarations, Declarations),
   Text(7, "evidence", "Evidence", 5, 80, <<50, 60>>),
   Text(8, "history", "ModelOutput", 10, 80, <<>>),
   Text(9, "history", "ModelOutput", 5, 80, <<10, 10>>)}

MCRequests == SUBSET MCPool
=============================================================================
