-------------------------------- MODULE TopK --------------------------------
(***************************************************************************)
(* What the size-limited heap of internal/optimizer/solver.go promises:    *)
(* routes are offered one by one, in any order and each at most once, and  *)
(* of those offered so far the best `limit' ones are kept.  Better is      *)
(* routeBetter, a strict total order on the routes.                        *)
(***************************************************************************)
EXTENDS Naturals, FiniteSets

CONSTANTS Routes, Better(_, _), MaxLimit

VARIABLES limit,    \* topK
          offered,  \* the routes visited so far
          kept      \* the heap

tvars == <<limit, offered, kept>>

TInit ==
  /\ limit \in 1..MaxLimit
  /\ offered = {}
  /\ kept = {}

(* Less puts the worst retained route at the root of the heap. *)
Root(w) == \A r \in kept \ {w} : Better(r, w)

(* While there is room, a route is pushed; afterwards it replaces the root *)
(* if it is better, and is dropped if it is not.                           *)
Push(r) == Cardinality(kept) < limit /\ kept' = kept \cup {r}

Replace(r) ==
  /\ Cardinality(kept) >= limit
  /\ \E w \in kept : Root(w) /\ Better(r, w) /\ kept' = (kept \ {w}) \cup {r}

Drop(r) ==
  /\ Cardinality(kept) >= limit
  /\ \E w \in kept : Root(w) /\ ~Better(r, w)
  /\ UNCHANGED kept

Offer(r) ==
  /\ r \notin offered
  /\ Push(r) \/ Replace(r) \/ Drop(r)
  /\ offered' = offered \cup {r}
  /\ UNCHANGED limit

TNext == \E r \in Routes : Offer(r)

TSpec == TInit /\ [][TNext]_tvars

----------------------------------------------------------------------------
(* However the routes come, the heap holds the best of them: nothing that  *)
(* was turned away or thrown out is better than anything that was kept,    *)
(* and something was turned away only by a full heap.                      *)
KeepsTheBest ==
  /\ Cardinality(kept) <= limit
  /\ \A r \in offered \ kept : Cardinality(kept) = limit /\ \A q \in kept : Better(q, r)
============================================================================
