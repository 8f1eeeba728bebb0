------------------------------- MODULE Solver -------------------------------
(***************************************************************************)
(* internal/optimizer/solver.go: Solve ranks all round trips from stop 0.  *)
(* The recursive visit swaps the order of the other stops in place and     *)
(* swaps it back; its call stack is `position' (the depth) and `index'     *)
(* (the loop variable of every depth).  The heap of container/heap is the  *)
(* set of its routes, its root the worst of them.                          *)
(*                                                                         *)
(* A route is kept as the order of stops 1.. between the two visits of     *)
(* stop 0.  Durations are integers: the code adds float64s along the path, *)
(* which the comparison of routes does not distinguish here.               *)
(***************************************************************************)
EXTENDS Integers, Sequences, FiniteSets, SequencesExt

CONSTANTS Inputs,    \* [stops, matrix, wellFormed, topK] given to Solve
          MaxStops, MaxTopK

ASSUME SolverLimits == MaxStops \in Nat \ {0} /\ MaxTopK \in Nat \ {0}

(* What validate checks of a matrix. *)
ASSUME InputsAssumption ==
  \A i \in Inputs : i.wellFormed => i.matrix \in [0..i.stops - 1 -> [0..i.stops - 1 -> Nat]]

VARIABLES
  input, pc,
  order,      \* the stops 1..stops-1 as they are permuted
  position, index,
  offered,    \* the tours considered so far
  kept,       \* routeHeap
  routes      \* the result

vars == <<input, pc, order, position, index, offered, kept, routes>>

Depth == input.stops - 1          \* len(order)
Positions == 0..Depth - 1

Init ==
  /\ input \in Inputs
  /\ pc = "start"
  /\ order = <<>> /\ index = <<>>
  /\ position = 0
  /\ offered = {} /\ kept = {}
  /\ routes = <<>>

(* validate: the limits of the request, then the shape and values of the matrix. *)
Valid ==
  /\ input.stops \in 1..MaxStops
  /\ input.topK \in 1..MaxTopK
  /\ input.wellFormed

Reject ==
  /\ pc = "start" /\ ~Valid
  /\ pc' = "rejected"
  /\ UNCHANGED <<input, order, position, index, offered, kept, routes>>

SingleStop ==
  /\ pc = "start" /\ Valid /\ input.stops = 1
  /\ routes' = <<[order |-> <<>>, duration |-> 0]>>
  /\ pc' = "done"
  /\ UNCHANGED <<input, order, position, index, offered, kept>>

Begin ==
  /\ pc = "start" /\ Valid /\ input.stops > 1
  /\ order' = [p \in Positions |-> p + 1]
  /\ index' = [p \in Positions |-> p]
  /\ pc' = "visit"
  /\ UNCHANGED <<input, position, offered, kept, routes>>

(* The tour 0, order, 0 and its duration, added up leg by leg. *)
StopAt(p) == IF p \in Positions THEN order[p] ELSE 0

LegSeconds(p) == input.matrix[StopAt(p - 1)][StopAt(p)]

Travelled[p \in 0..Depth] == LegSeconds(p) + IF p = 0 THEN 0 ELSE Travelled[p - 1]

Duration == Travelled[Depth]

Candidate == [order |-> order, duration |-> Duration]

pathLess(a, b) ==
  \E p \in DOMAIN a : a[p] < b[p] /\ \A q \in DOMAIN a : q < p => a[q] = b[q]

routeBetter(a, b) ==
  \/ a.duration < b.duration
  \/ a.duration = b.duration /\ pathLess(a.order, b.order)

(* Less: the root is the route that no other retained route is worse than. *)
Root(w) == w \in kept /\ \A r \in kept \ {w} : ~routeBetter(w, r)

(* Wrong: the heap may grow by one route too many. *)
ConsiderOneMore(r) ==
  \/ Cardinality(kept) <= input.topK /\ kept' = kept \cup {r}
  \/ /\ Cardinality(kept) > input.topK
     /\ \E w \in kept : Root(w) /\ kept' = IF routeBetter(r, w) THEN (kept \ {w}) \cup {r} ELSE kept

Consider(r) ==
  \/ Cardinality(kept) < input.topK /\ kept' = kept \cup {r}
  \/ /\ Cardinality(kept) >= input.topK
     /\ \E w \in kept : Root(w) /\ kept' = IF routeBetter(r, w) THEN (kept \ {w}) \cup {r} ELSE kept

(* visit(len(order)): a complete tour. *)
Visit ==
  /\ pc = "visit" /\ position = Depth
  /\ Consider(Candidate)
  /\ offered' = offered \cup {Candidate}
  /\ pc' = "back"
  /\ UNCHANGED <<input, order, position, index, routes>>

Exchange(p, i) == [order EXCEPT ![p] = order[i], ![i] = order[p]]

(* One turn of the loop: exchange, and visit the next position ... *)
Descend ==
  /\ pc = "visit" /\ position < Depth /\ index[position] < Depth
  /\ order' = Exchange(position, index[position])
  /\ position' = position + 1
  /\ index' = [p \in Positions |-> IF p > position THEN p ELSE index[p]]
  /\ UNCHANGED <<input, pc, offered, kept, routes>>

(* ... and, when that returns, exchange back and go on with the loop. *)
Back ==
  /\ pc = "back" /\ position > 0
  /\ order' = Exchange(position - 1, index[position - 1])
  /\ index' = [index EXCEPT ![position - 1] = @ + 1]
  /\ position' = position - 1
  /\ pc' = "visit"
  /\ UNCHANGED <<input, offered, kept, routes>>

(* The loop of a position is over: return to its caller. *)
Exhausted ==
  /\ pc = "visit" /\ position < Depth /\ index[position] = Depth
  /\ pc' = IF position = 0 THEN "drain" ELSE "back"
  /\ UNCHANGED <<input, order, position, index, offered, kept, routes>>

(* Wrong: routes filled from the front. *)
DrainForwards ==
  /\ pc = "drain"
  /\ \E w \in kept : /\ Root(w)
                     /\ kept' = kept \ {w}
                     /\ routes' = Append(routes, w)
  /\ UNCHANGED <<input, pc, order, position, index, offered>>

(* The heap is popped into routes from the last index down. *)
Drain ==
  /\ pc = "drain"
  /\ \E w \in kept : /\ Root(w)
                     /\ kept' = kept \ {w}
                     /\ routes' = <<w>> \o routes
  /\ UNCHANGED <<input, pc, order, position, index, offered>>

Finish ==
  /\ pc = "drain" /\ kept = {}
  /\ pc' = "done"
  /\ UNCHANGED <<input, order, position, index, offered, kept, routes>>

Next == \/ Reject \/ SingleStop \/ Begin \/ Visit \/ Descend \/ Back \/ Exhausted
        \/ Drain \/ Finish

Spec == Init /\ [][Next]_vars

----------------------------------------------------------------------------
(* All orders of the stops 1..stops-1. *)
Tours == {f \in [Positions -> 1..Depth] : \A p, q \in Positions : p # q => f[p] # f[q]}

(* Solve returns the topK shortest of all tours, best first, ties in the   *)
(* order of their paths: swapping in place and undoing the swaps missed no *)
(* tour, each result is better than the next, and every tour left out is   *)
(* worse than the last of as many results as were asked for.               *)
ResultIsRanking ==
  pc = "done" /\ input.stops > 1 =>
    /\ {r.order : r \in offered} = Tours
    /\ Len(routes) = IF input.topK < Cardinality(Tours) THEN input.topK ELSE Cardinality(Tours)
    /\ \A i \in 1..Len(routes) - 1 : routeBetter(routes[i], routes[i + 1])
    /\ \A r \in offered \ ToSet(routes) : routeBetter(routes[Len(routes)], r)

(* The heap as TopK describes it; popping it moves routes to the result.   *)
Tour == [order : UNION {[0..n - 1 -> 1..n] : n \in 1..MaxStops}, duration : Nat]

Heap == INSTANCE TopK WITH
          Routes <- Tour, Better <- routeBetter, MaxLimit <- MaxTopK,
          limit <- IF Valid THEN input.topK ELSE 1,
          kept <- IF pc = "done" /\ input.stops = 1 THEN {} ELSE kept \cup ToSet(routes)

(* Offering tours to the heap implements TopK; a step of TopK always       *)
(* offers the tour that is just being visited.                             *)
HeapStep == UNCHANGED Heap!tvars \/ (pc = "visit" /\ position = Depth /\ Heap!Offer(Candidate))
ImplementsTopK == Heap!TInit /\ [][HeapStep]_vars

============================================================================
