---------------------------- MODULE MCModelServing ----------------------------
(* Three roles; three models, of which any two fit the pool but the larger   *)
(* two, and a fourth its engine fetches; what a start of the process finds.  *)
EXTENDS ModelServing, TLC

CONSTANTS here, there, c1, c2, coder, fast, embed, small, middle, large, lazy, ep

MCPriority  == [r \in Roles |-> CASE r = coder -> 100 [] r = fast -> 70 [] r = embed -> 35]
MCFootprint == [m \in Models |-> CASE m = small -> 3 [] m = middle -> 5 [] m = large -> 8
                                        [] m = lazy -> 0]

Rows(c, f, e) == [r \in Roles |-> CASE r = coder -> c [] r = fast -> f [] r = embed -> e]
Opening(rows, boots, n) ==
  [requests |-> n, installs |-> 0, installed |-> {small, middle, large}, endpoint |-> TRUE,
   bound |-> rows, boots |-> boots]

Bare(requests, n) ==
  [Opening(Rows(NoModel, NoModel, NoModel), Rows(NoModel, NoModel, NoModel), requests)
     EXCEPT !.installs = n, !.installed = {middle, large}]

MCOpenings ==
  {\* Two boots side by side, one of them of a derived model.
   Opening(Rows(large, NoModel, NoModel), Rows(large, NoModel, small), 1),
   \* Three boots that do not all fit.
   Opening(Rows(middle, large, small), Rows(middle, large, small), 0),
   \* The coder is elsewhere.
   Opening(Rows(ep, NoModel, NoModel), Rows(NoModel, middle, NoModel), 2),
   \* One model is still to be installed, by two processes perhaps ...
   Bare(0, 3),
   \* ... or while it, or another one, is activated or removed.
   Bare(1, 1), Bare(1, 2)}

\* Clients are not told apart.
Symmetry == Permutations({c1, c2})
=============================================================================
