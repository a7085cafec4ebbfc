------------------------------ MODULE ModelPool ------------------------------
(***************************************************************************)
(* The pool's admission control.  Residents are kept in the order of their *)
(* last use; a model is given room by evicting residents of roles no more  *)
(* important than its own.                                                 *)
(***************************************************************************)
EXTENDS ModelCatalog, Naturals, SequencesExt

CONSTANTS
  Roles,
  Priority,   \* ModelRole::priority
  Footprint,  \* Manifest.size_bytes (0 for a model an engine fetches itself)
  Budget      \* ModelPool.budget_bytes

ASSUME ModelPoolAssumption ==
  /\ Priority \in [Roles -> Nat] /\ Footprint \in [Models -> Nat] /\ Budget \in Nat

Entry(m, r) == [id |-> m, role |-> r]

Resident(pool, m) == \E i \in DOMAIN pool : pool[i].id = m

\* The resident that find comes upon.
Place(pool, m) == CHOOSE i \in DOMAIN pool : pool[i].id = m

Used(pool) == FoldLeft(LAMBDA sum, entry : sum + Footprint[entry.id], 0, pool)

Evictable(entry, r) == Priority[entry.role] <= Priority[r]

\* pick_victim: the least important, then the least recently used.
Victims(pool, r) ==
  {i \in DOMAIN pool : /\ Evictable(pool[i], r)
                       /\ \A j \in DOMAIN pool : Evictable(pool[j], r) =>
                            \/ Priority[pool[i].role] < Priority[pool[j].role]
                            \/ Priority[pool[i].role] = Priority[pool[j].role] /\ i <= j}

\* The loop of admit: the pool and the victims after n rounds.
Evictions(pool, m, r) ==
  LET round[n \in 0..Len(pool)] ==
        IF n = 0 THEN [residents |-> pool, victims |-> <<>>]
        ELSE LET was == round[n - 1] IN
             IF Used(was.residents) + Footprint[m] <= Budget \/ Victims(was.residents, r) = {}
               THEN was
               ELSE LET i == CHOOSE k \in Victims(was.residents, r) : TRUE
                    IN  [residents |-> RemoveAt(was.residents, i),
                         victims   |-> Append(was.victims, was.residents[i].id)]
  IN  round[Len(pool)]

\* admit: the victims of an admission that fails all the same are gone.
Admit(pool, m, r) ==
  IF Resident(pool, m)
    THEN [residents |-> Append(RemoveAt(pool, Place(pool, m)), Entry(m, r)),
          victims |-> <<>>, fits |-> TRUE]
  ELSE IF Footprint[m] > Budget
    THEN [residents |-> pool, victims |-> <<>>, fits |-> FALSE]
  ELSE LET room == Evictions(pool, m, r)
           fits == Used(room.residents) + Footprint[m] <= Budget
       IN  [residents |-> IF fits THEN Append(room.residents, Entry(m, r)) ELSE room.residents,
            victims   |-> IF fits THEN room.victims ELSE <<>>, fits |-> fits]

=============================================================================
