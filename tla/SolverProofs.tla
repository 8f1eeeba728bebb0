---------------------------- MODULE SolverProofs ----------------------------
(***************************************************************************)
(* Proofs about Solver for any number of stops, any matrix and any topK.   *)
(*                                                                         *)
(* routeBetter is a strict total order on the tours of an input, so that   *)
(* the heap has a root.  RecursionInv relates the stack of visit to the    *)
(* tours offered so far, and HeapInv these to what the heap holds.         *)
(***************************************************************************)
EXTENDS Solver, FiniteSetTheorems, WellFoundedInduction, TLAPS

(* A tour and its duration, as Solve compares them. *)
Rated == [order : Tours, duration : Nat]

(* A set of numbers that is not empty has a least one. *)
LEMMA LeastNumber ==
  ASSUME NEW T \in SUBSET Nat, T # {} PROVE \E x \in T : \A y \in T : x <= y
<1>1. PICK x \in T : \A y \in T : ~(<<y, x>> \in OpToRel(<, Nat))
  BY WFMin, NatLessThanWellFounded
<1>2. ASSUME NEW y \in T PROVE x <= y
  <2>1. <<y, x>> \in Nat \X Nat /\ x \in Nat /\ y \in Nat
    OBVIOUS
  <2>2. ~(y < x)
    BY <1>1, <2>1 DEF OpToRel
  <2> QED
    BY <2>1, <2>2
<1> QED
  BY <1>2

(* Two orders differ first at some position, ... *)
LEMMA PathsCompare ==
  ASSUME Depth \in Nat, NEW a \in Tours, NEW b \in Tours, a # b
  PROVE  pathLess(a, b) \/ pathLess(b, a)
<1> DEFINE D == {p \in Positions : a[p] # b[p]}
<1>1. a \in [Positions -> 1..Depth] /\ b \in [Positions -> 1..Depth]
  BY DEF Tours
<1>2. D # {} /\ D \in SUBSET Nat
  <2>1. D # {}
    BY <1>1
  <2>2. Positions \in SUBSET Nat
    BY DEF Positions
  <2> QED
    BY <2>1, <2>2
<1>3. PICK p \in D : \A q \in D : p <= q
  <2> HIDE DEF D
  <2> QED
    BY <1>2, LeastNumber
<1>4. \A q \in Positions : q < p => a[q] = b[q]
  BY <1>3 DEF Positions
<1>5. a[p] \in Int /\ b[p] \in Int /\ a[p] # b[p] /\ p \in Positions
  BY <1>1, <1>3
<1> QED
  BY <1>1, <1>4, <1>5 DEF pathLess

(* ... and the order of the paths is strict. *)
LEMMA PathsAreOrdered ==
  ASSUME Depth \in Nat, NEW a \in Tours, NEW b \in Tours, NEW c \in Tours, pathLess(a, b)
  PROVE  ~pathLess(b, a) /\ (pathLess(b, c) => pathLess(a, c))
<1>1. /\ a \in [Positions -> 1..Depth] /\ b \in [Positions -> 1..Depth]
      /\ c \in [Positions -> 1..Depth] /\ Positions \subseteq Nat
  BY DEF Tours, Positions
<1>2. PICK p \in Positions : a[p] < b[p] /\ \A q \in Positions : q < p => a[q] = b[q]
  BY <1>1 DEF pathLess
<1>3. ~pathLess(b, a)
  <2> SUFFICES ASSUME NEW s \in Positions, b[s] < a[s], \A q \in Positions : q < s => b[q] = a[q]
               PROVE  FALSE
    BY <1>1 DEF pathLess
  <2> QED
    BY <1>1, <1>2
<1>4. ASSUME pathLess(b, c) PROVE pathLess(a, c)
  <2>1. PICK s \in Positions : b[s] < c[s] /\ \A q \in Positions : q < s => b[q] = c[q]
    BY <1>1, <1>4 DEF pathLess
  <2>2. CASE s <= p
    BY <1>1, <1>2, <2>1, <2>2 DEF pathLess
  <2>3. CASE p < s
    BY <1>1, <1>2, <2>1, <2>3 DEF pathLess
  <2> QED
    BY <1>1, <2>2, <2>3
<1> QED
  BY <1>3, <1>4

(* Hence routeBetter is a strict total order. *)
LEMMA RatedAreOrdered ==
  ASSUME Depth \in Nat
  PROVE  /\ \A a, b \in Rated : a # b => routeBetter(a, b) \/ routeBetter(b, a)
         /\ \A a, b \in Rated : ~(routeBetter(a, b) /\ routeBetter(b, a))
         /\ \A a, b, c \in Rated : routeBetter(a, b) /\ routeBetter(b, c) => routeBetter(a, c)
<1>1. ASSUME NEW a \in Rated, NEW b \in Rated, a # b PROVE routeBetter(a, b) \/ routeBetter(b, a)
  <2>1. a.duration # b.duration \/ a.order # b.order
    BY <1>1 DEF Rated
  <2>2. a.duration \in Nat /\ b.duration \in Nat /\ a.order \in Tours /\ b.order \in Tours
    BY DEF Rated
  <2> QED
    BY <2>1, <2>2, PathsCompare DEF routeBetter
<1>2. ASSUME NEW a \in Rated, NEW b \in Rated, routeBetter(a, b) PROVE ~routeBetter(b, a)
  <2>1. a.duration \in Nat /\ b.duration \in Nat /\ a.order \in Tours /\ b.order \in Tours
    BY DEF Rated
  <2> QED
    BY <1>2, <2>1, PathsAreOrdered DEF routeBetter
<1>3. ASSUME NEW a \in Rated, NEW b \in Rated, NEW c \in Rated, routeBetter(a, b), routeBetter(b, c)
      PROVE  routeBetter(a, c)
  <2>1. /\ a.duration \in Nat /\ b.duration \in Nat /\ c.duration \in Nat
        /\ a.order \in Tours /\ b.order \in Tours /\ c.order \in Tours
    BY DEF Rated
  <2> QED
    BY <1>3, <2>1, PathsAreOrdered DEF routeBetter
<1> QED
  BY <1>1, <1>2, <1>3

----------------------------------------------------------------------------
(* The sum of the legs is a number: the recursion along the path is well   *)
(* defined up to any of its positions.                                     *)
LEMMA DurationIsNat ==
  ASSUME input \in Inputs, Valid, order \in Tours PROVE Duration \in Nat
<1>1. Depth \in Nat /\ input.matrix \in [0..Depth -> [0..Depth -> Nat]]
  BY InputsAssumption DEF Valid, Depth
<1>2. ASSUME NEW p \in -1..Depth PROVE StopAt(p) \in 0..Depth
  BY <1>1 DEF StopAt, Tours, Positions
<1>3. ASSUME NEW p \in 0..Depth PROVE LegSeconds(p) \in Nat
  <2>1. p - 1 \in -1..Depth /\ p \in -1..Depth
    BY <1>1
  <2> QED
    BY <1>1, <1>2, <2>1 DEF LegSeconds
<1> DEFINE Rest(g, p) == LegSeconds(p) + IF p = 0 THEN 0 ELSE g[p - 1]
           Sums(g, n) == g \in [0..n -> Nat] /\ \A p \in 0..n : g[p] = Rest(g, p)
<1>4. \A n \in 0..Depth : \E g : Sums(g, n)
  <2> DEFINE Missing == {n \in 0..Depth : ~\E g : Sums(g, n)}
  <2>1. SUFFICES ASSUME Missing # {} PROVE FALSE
    OBVIOUS
  <2>2. PICK n \in Missing : \A m \in Missing : n <= m
    <3>1. Missing \in SUBSET Nat
      BY <1>1
    <3> HIDE DEF Missing
    <3> QED
      BY <2>1, <3>1, LeastNumber
  <2>3. n \in 0..Depth /\ n \in Nat
    BY <1>1, <2>2
  <2>4. n # 0
    <3>1. LegSeconds(0) \in Nat
      BY <1>1, <1>3
    <3>2. ASSUME n = 0 PROVE Sums([p \in 0..n |-> LegSeconds(0)], n)
      BY <3>1, <3>2
    <3> QED
      BY <2>2, <3>2
  <2>5. PICK g : Sums(g, n - 1)
    <3>1. n - 1 \in 0..Depth /\ ~(n <= n - 1)
      BY <1>1, <2>3, <2>4
    <3>2. n - 1 \notin Missing
      <4> HIDE DEF Missing
      <4> QED
        BY <2>2, <3>1
    <3> HIDE DEF Sums
    <3> QED
      BY <3>1, <3>2
  <2> DEFINE h == [p \in 0..n |-> IF p = n THEN LegSeconds(n) + g[n - 1] ELSE g[p]]
  <2>6. LegSeconds(n) \in Nat /\ g[n - 1] \in Nat
    BY <1>3, <2>3, <2>4, <2>5
  <2>7. h \in [0..n -> Nat]
    <3>1. ASSUME NEW p \in 0..n, p # n PROVE g[p] \in Nat
      BY <2>3, <2>5, <3>1
    <3> QED
      BY <2>6, <3>1
  <2>8. ASSUME NEW p \in 0..n PROVE h[p] = Rest(h, p)
    <3>1. CASE p = n
      BY <2>3, <2>4, <3>1
    <3>2. CASE p # n
      BY <2>3, <2>5, <3>2
    <3> QED
      BY <3>1, <3>2
  <2> HIDE DEF h
  <2> QED
    BY <2>2, <2>7, <2>8
<1>5. Travelled = [p \in 0..Depth |-> Rest(Travelled, p)]
  <2>1. PICK g : Sums(g, Depth)
    <3>1. Depth \in 0..Depth
      BY <1>1
    <3> HIDE DEF Sums
    <3> QED
      BY <1>4, <3>1
  <2>2. g = [p \in 0..Depth |-> Rest(g, p)]
    BY <2>1
  <2> QED
    BY <2>2 DEF Travelled
<1>6. \A p \in 0..Depth : Travelled[p] \in Nat
  <2> DEFINE Odd == {p \in 0..Depth : Travelled[p] \notin Nat}
  <2>1. SUFFICES ASSUME Odd # {} PROVE FALSE
    OBVIOUS
  <2>2. PICK p \in Odd : \A q \in Odd : p <= q
    <3>1. Odd \in SUBSET Nat
      BY <1>1
    <3> HIDE DEF Odd
    <3> QED
      BY <2>1, <3>1, LeastNumber
  <2>3. Travelled[p] = LegSeconds(p) + IF p = 0 THEN 0 ELSE Travelled[p - 1]
    BY <1>5, <2>2
  <2>4. p # 0 => Travelled[p - 1] \in Nat
    BY <1>1, <2>2
  <2> QED
    BY <1>3, <2>2, <2>3, <2>4
<1> QED
  BY <1>1, <1>6 DEF Duration

----------------------------------------------------------------------------
(* Where the recursion is.  e[k] is the order that visit(k) was called     *)
(* with, for every call on the stack: each of them differs from the one    *)
(* before by the exchange that its caller has made.                        *)
Perms == {f \in Tours : \A v \in 1..Depth : \E p \in Positions : f[p] = v}
Swap(f, p, i) == [f EXCEPT ![p] = f[i], ![i] = f[p]]
Agree(f, g, n) == \A p \in Positions : p < n => f[p] = g[p]

Calls(e) ==
  /\ \A k \in 0..position - 1 :
       /\ index[k] \in k..Depth - 1
       /\ e[k + 1] = Swap(e[k], k, index[k])
  /\ \A k \in 0..position : Agree(order, e[k], k)
  /\ e[position] = order

(* The tours of a call's finished turns, and those of the calls so far. *)
Finished(e, t, k) == Agree(t, e[k], k) /\ \E i \in k..index[k] - 1 : t[k] = e[k][i]
Visited(e, t) ==
  \/ \E k \in 0..position : k < Depth /\ Finished(e, t, k)
  \/ pc = "back" /\ Agree(t, order, position)

Offers(t) == \E r \in offered : r.order = t

RecursionInv ==
  pc \in {"visit", "back"} =>
    /\ position \in 0..Depth /\ index \in [Positions -> 0..Depth]
    /\ position < Depth => index[position] \in position..Depth
    /\ pc = "back" /\ position < Depth => index[position] = Depth
    /\ \E e \in [0..Depth -> Perms] : Calls(e) /\ \A t \in Tours : Offers(t) <=> Visited(e, t)

(* The heap and the routes popped from it hold the best of the tours. *)
Held == kept \cup ToSet(routes)
Ranked == pc \notin {"start", "rejected"} /\ input.stops > 1

PhaseInv ==
  /\ input \in Inputs
  /\ pc \in {"start", "rejected", "visit", "back", "drain", "done"}
  /\ pc \notin {"start", "rejected"} => Valid
  /\ pc \in {"visit", "back", "drain"} => input.stops > 1
  /\ pc \in {"start", "rejected", "visit", "back"} => routes = <<>>
  /\ pc \in {"start", "rejected"} \/ input.stops = 1 => offered = {} /\ kept = {}
  /\ pc = "start" => position = 0
  /\ pc = "done" => kept = {}
  /\ pc \in {"drain", "done"} /\ input.stops > 1 => \A t \in Tours : Offers(t)

HeapInv ==
  Ranked =>
    /\ offered \subseteq Rated /\ IsFiniteSet(offered)
    /\ \A r, s \in offered : r.order = s.order => r = s
    /\ kept \subseteq offered /\ routes \in Seq(offered)
    /\ Cardinality(Held) <= input.topK
    /\ \A r \in offered \ Held : Cardinality(Held) = input.topK /\ \A q \in Held : routeBetter(q, r)
    /\ \A i, j \in 1..Len(routes) : i < j => routeBetter(routes[i], routes[j])
    /\ \A q \in kept, i \in 1..Len(routes) : routeBetter(q, routes[i])

SolverInv == PhaseInv /\ RecursionInv /\ HeapInv

----------------------------------------------------------------------------
(* The input stays, and with it everything that is made of it. *)
LEMMA InputStays ==
  ASSUME UNCHANGED input
  PROVE  /\ Depth' = Depth /\ Positions' = Positions /\ Tours' = Tours /\ Perms' = Perms
         /\ Rated' = Rated /\ Valid' = Valid
  BY DEF Depth, Positions, Tours, Perms, Rated, Valid

(* An exchange turns an order of all stops into another one, leaves what   *)
(* is before both positions alone, and is undone by itself.                *)
LEMMA SwapKeepsPerm ==
  ASSUME Depth \in Nat, NEW f \in Perms, NEW p \in Positions, NEW i \in Positions, p <= i
  PROVE  /\ Swap(f, p, i) \in Perms /\ Swap(f, p, i)[p] = f[i]
         /\ Swap(Swap(f, p, i), p, i) = f
         /\ Agree(Swap(f, p, i), f, p)
<1> DEFINE g == Swap(f, p, i)
<1>1. f \in [Positions -> 1..Depth] /\ Positions \subseteq Nat
  BY DEF Perms, Tours, Positions
<1>2. /\ g \in [Positions -> 1..Depth] /\ g[p] = f[i] /\ g[i] = f[p]
      /\ \A q \in Positions \ {p, i} : g[q] = f[q]
  BY <1>1 DEF Swap
<1>3. \A q, r \in Positions : q # r => f[q] # f[r]
  BY DEF Perms, Tours
<1>4. \A q, r \in Positions : q # r => g[q] # g[r]
  <2> HIDE DEF g
  <2> QED
    BY <1>2, <1>3
<1>5. ASSUME NEW v \in 1..Depth PROVE \E q \in Positions : g[q] = v
  <2>1. PICK q \in Positions : f[q] = v
    BY DEF Perms
  <2> HIDE DEF g
  <2> QED
    BY <1>2, <2>1
<1>6. g \in Perms
  <2> HIDE DEF g
  <2> QED
    BY <1>2, <1>4, <1>5 DEF Perms, Tours
<1>7. Swap(g, p, i) = f
  <2> HIDE DEF g
  <2>1. PICK h : h = Swap(g, p, i)
    OBVIOUS
  <2>2. h \in [Positions -> 1..Depth]
    BY <1>2, <2>1 DEF Swap
  <2>3. \A q \in Positions : h[q] = f[q]
    BY <1>2, <2>1 DEF Swap
  <2>4. f \in [Positions -> 1..Depth]
    BY <1>1
  <2>5. h = f
    BY <2>2, <2>3, <2>4
  <2> QED
    BY <2>1, <2>5
<1>8. Agree(g, f, p)
  BY <1>1, <1>2 DEF Agree
<1> QED
  BY <1>2, <1>6, <1>7, <1>8

(* The recursion starts with the stops in their own order. *)
LEMMA BeginRecursion == ASSUME PhaseInv, Begin PROVE RecursionInv' /\ order' \in Tours'
<1>1. /\ input' = input /\ pc' = "visit" /\ position' = 0 /\ offered' = {}
      /\ order' = [p \in Positions |-> p + 1] /\ index' = [p \in Positions |-> p]
      /\ Valid /\ input.stops > 1
  BY DEF PhaseInv, Begin
<1>2. Depth \in Nat \ {0} /\ 0 \in Positions
  BY <1>1, SolverLimits DEF Valid, Depth, Positions
<1>3. Depth' = Depth /\ Positions' = Positions /\ Tours' = Tours /\ Perms' = Perms
  BY <1>1, InputStays
<1>4. order' \in Perms
  <2>1. order' \in [Positions -> 1..Depth]
    BY <1>1, <1>2 DEF Positions
  <2>2. \A p, q \in Positions : p # q => order'[p] # order'[q]
    BY <1>1 DEF Positions
  <2>3. ASSUME NEW v \in 1..Depth PROVE \E p \in Positions : order'[p] = v
    <3>1. v - 1 \in Positions /\ order'[v - 1] = v
      BY <1>1, <1>2 DEF Positions
    <3> QED
      BY <3>1
  <2> QED
    BY <2>1, <2>2, <2>3 DEF Perms, Tours
<1>5. PICK e : e = [k \in 0..Depth |-> order']
  OBVIOUS
<1>6. Calls(e)'
  BY <1>1, <1>2, <1>3, <1>5 DEF Calls, Agree, Positions
<1>7. ASSUME NEW t \in Tours PROVE ~Visited(e, t)' /\ ~Offers(t)'
  BY <1>1, <1>2, <1>3 DEF Visited, Finished, Offers
<1>8. e \in [0..Depth -> Perms]
  BY <1>4, <1>5
<1>9. index' \in [Positions -> 0..Depth] /\ index'[0] = 0
  BY <1>1, <1>2 DEF Positions
<1> QED
  <2>1. order' \in Tours
    BY <1>4 DEF Perms
  <2>2. /\ 0 \in 0..Depth /\ 0 \in 0..Depth'
        /\ e \in [0..Depth' -> Perms'] /\ index' \in [Positions' -> 0..Depth']
    BY <1>2, <1>3, <1>8, <1>9
  <2>3. \A t \in Tours' : Offers(t)' <=> Visited(e, t)'
    BY <1>3, <1>7
  <2> QED
    BY <1>1, <1>2, <1>3, <1>6, <1>9, <2>1, <2>2, <2>3 DEF RecursionInv

(* What holds while the recursion is at work. *)
LEMMA AtWork ==
  ASSUME PhaseInv, RecursionInv, pc \in {"visit", "back"}
  PROVE  /\ Valid /\ Depth \in Nat \ {0} /\ Positions \subseteq Nat
         /\ \A p \in Int : p \in Positions <=> 0 <= p /\ p < Depth
         /\ position \in 0..Depth /\ index \in [Positions -> 0..Depth]
         /\ order \in Perms /\ order \in Tours
         /\ position < Depth => index[position] \in position..Depth
<1>1. Valid /\ input.stops > 1
  BY DEF PhaseInv
<1>2. Depth \in Nat \ {0}
  BY <1>1, SolverLimits DEF Valid, Depth
<1>3. /\ position \in 0..Depth /\ index \in [Positions -> 0..Depth]
      /\ position < Depth => index[position] \in position..Depth
      /\ \E e \in [0..Depth -> Perms] : Calls(e)
  BY DEF RecursionInv
<1>4. order \in Perms
  BY <1>3 DEF Calls
<1>5. Positions \subseteq Nat /\ \A p \in Int : p \in Positions <=> 0 <= p /\ p < Depth
  BY <1>2 DEF Positions
<1> QED
  BY <1>1, <1>2, <1>3, <1>4, <1>5 DEF Perms

(* A complete tour has not been visited before: the caller at the first    *)
(* position where an earlier tour differs has made another exchange.       *)
LEMMA ToursAreFresh ==
  ASSUME PhaseInv, RecursionInv, pc = "visit", position = Depth PROVE ~Offers(order)
<1>a. /\ Depth \in Nat \ {0} /\ Positions \subseteq Nat /\ order \in Tours
      /\ \A p \in Int : p \in Positions <=> 0 <= p /\ p < Depth
      /\ index \in [Positions -> 0..Depth]
  BY AtWork
<1>1. PICK e \in [0..Depth -> Perms] : Calls(e) /\ \A t \in Tours : Offers(t) <=> Visited(e, t)
  BY DEF RecursionInv
<1>2. ASSUME NEW k \in 0..Depth - 1, Finished(e, order, k) PROVE FALSE
  <2>1. k \in Positions /\ k + 1 \in 0..Depth /\ k \in 0..Depth
    BY <1>a
  <2>2. PICK i \in k..index[k] - 1 : order[k] = e[k][i]
    BY <1>2 DEF Finished
  <2>3. /\ index[k] \in k..Depth - 1 /\ e[k + 1] = Swap(e[k], k, index[k])
        /\ Agree(order, e[k + 1], k + 1)
    BY <1>1, <2>1 DEF Calls
  <2>4. index[k] \in Positions /\ i \in Positions /\ k <= index[k] /\ i # index[k]
    BY <1>a, <2>1, <2>2, <2>3
  <2>5. e[k] \in Perms /\ e[k + 1][k] = e[k][index[k]]
    <3>1. e[k] \in Perms
      BY <2>1
    <3>2. Swap(e[k], k, index[k])[k] = e[k][index[k]]
      BY <1>a, <2>1, <2>4, <3>1, SwapKeepsPerm
    <3> QED
      BY <2>3, <3>1, <3>2
  <2>6. order[k] = e[k + 1][k]
    BY <1>a, <2>1, <2>3 DEF Agree
  <2> QED
    BY <2>2, <2>4, <2>5, <2>6 DEF Perms, Tours
<1> QED
  BY <1>a, <1>1, <1>2 DEF Visited

(* The tour is offered, and visit returns to its caller. *)
LEMMA VisitRecursion == ASSUME PhaseInv, RecursionInv, Visit PROVE RecursionInv'
<1>a. /\ Depth \in Nat \ {0} /\ order \in Tours
      /\ \A p \in Int : p \in Positions <=> 0 <= p /\ p < Depth
      /\ index \in [Positions -> 0..Depth] /\ pc = "visit" /\ position = Depth
  BY AtWork DEF Visit
<1>b. /\ pc' = "back" /\ UNCHANGED <<input, order, position, index>>
      /\ offered' = offered \cup {Candidate} /\ Candidate.order = order
  BY DEF Visit, Candidate
<1>c. Depth' = Depth /\ Positions' = Positions /\ Tours' = Tours /\ Perms' = Perms
  BY <1>b, InputStays
<1>1. PICK e \in [0..Depth -> Perms] : Calls(e) /\ \A t \in Tours : Offers(t) <=> Visited(e, t)
  BY <1>a DEF RecursionInv
<1>2. Calls(e)'
  BY <1>1, <1>b, <1>c DEF Calls, Agree
<1>3. ASSUME NEW t \in Tours PROVE Offers(t)' <=> Visited(e, t)'
  <2>1. Offers(t)' <=> Offers(t) \/ t = order
    BY <1>b DEF Offers
  <2>2. Agree(t, order, position) <=> t = order
    <3>1. t \in [Positions -> 1..Depth] /\ order \in [Positions -> 1..Depth]
      BY <1>a DEF Tours
    <3>2. Agree(t, order, position) => \A p \in Positions : t[p] = order[p]
      BY <1>a DEF Agree, Positions
    <3> QED
      BY <3>1, <3>2 DEF Agree
  <2>3. \A k \in 0..position : Finished(e, t, k)' <=> Finished(e, t, k)
    BY <1>b, <1>c DEF Finished, Agree
  <2>4. Visited(e, t)' <=> Visited(e, t) \/ t = order
    BY <1>a, <1>b, <1>c, <2>2, <2>3 DEF Visited, Agree
  <2> QED
    BY <1>1, <2>1, <2>4
<1> QED
  BY <1>a, <1>b, <1>c, <1>2, <1>3 DEF RecursionInv

(* Exchange, and call visit one position further on. *)
LEMMA DescendRecursion == ASSUME PhaseInv, RecursionInv, Descend PROVE RecursionInv'
<1>a. /\ Depth \in Nat \ {0} /\ order \in Perms /\ Positions \subseteq Nat
      /\ \A p \in Int : p \in Positions <=> 0 <= p /\ p < Depth
      /\ index \in [Positions -> 0..Depth] /\ pc = "visit"
      /\ position \in Nat /\ position < Depth /\ index[position] \in position..Depth - 1
      /\ position \in Positions /\ index[position] \in Positions
  <2>1. /\ pc = "visit" /\ position < Depth /\ index[position] < Depth
    BY DEF Descend
  <2>2. /\ Depth \in Nat \ {0} /\ order \in Perms /\ Positions \subseteq Nat
        /\ \A p \in Int : p \in Positions <=> 0 <= p /\ p < Depth
        /\ index \in [Positions -> 0..Depth] /\ position \in 0..Depth
        /\ index[position] \in position..Depth
    BY <2>1, AtWork
  <2> QED
    BY <2>1, <2>2
<1>b. /\ order' = Swap(order, position, index[position]) /\ position' = position + 1
      /\ index' = [p \in Positions |-> IF p > position THEN p ELSE index[p]]
      /\ UNCHANGED <<input, pc, offered>>
  BY DEF Descend, Exchange, Swap
<1>c. Depth' = Depth /\ Positions' = Positions /\ Tours' = Tours /\ Perms' = Perms
  BY <1>b, InputStays
<1>d. order' \in Perms /\ Agree(order', order, position)
  BY <1>a, <1>b, SwapKeepsPerm
<1>e. /\ index' \in [Positions -> 0..Depth]
      /\ \A p \in Positions : p <= position => index'[p] = index[p]
      /\ position + 1 < Depth => index'[position + 1] = position + 1
  BY <1>a, <1>b
<1>1. PICK e \in [0..Depth -> Perms] : Calls(e) /\ \A t \in Tours : Offers(t) <=> Visited(e, t)
  BY <1>a DEF RecursionInv
<1>2. PICK f : f = [e EXCEPT ![position + 1] = order']
  OBVIOUS
<1>3. /\ f \in [0..Depth -> Perms] /\ f[position + 1] = order'
      /\ \A k \in 0..position : f[k] = e[k]
  BY <1>a, <1>d, <1>2
<1>4. Calls(f)'
  <2>1. ASSUME NEW k \in 0..position
        PROVE  index'[k] \in k..Depth - 1 /\ f[k + 1] = Swap(f[k], k, index'[k])
    <3>1. CASE k = position
      <4>1. e[position] = order
        BY <1>1 DEF Calls
      <4> QED
        BY <1>a, <1>b, <1>e, <1>3, <3>1, <4>1
    <3>2. CASE k # position
      <4>1. k \in 0..position - 1 /\ k + 1 \in 0..position /\ k \in Positions /\ k <= position
        BY <1>a, <3>2
      <4>2. index[k] \in k..Depth - 1 /\ e[k + 1] = Swap(e[k], k, index[k])
        BY <1>1, <4>1 DEF Calls
      <4>3. index'[k] = index[k] /\ f[k] = e[k] /\ f[k + 1] = e[k + 1]
        BY <1>e, <1>3, <4>1
      <4> QED
        BY <4>2, <4>3
    <3> QED
      BY <3>1, <3>2
  <2>2. ASSUME NEW k \in 0..position + 1 PROVE Agree(order', f[k], k)
    <3>1. CASE k = position + 1
      BY <1>3, <3>1 DEF Agree
    <3>2. CASE k # position + 1
      <4>1. k \in 0..position /\ k <= position
        BY <1>a, <3>2
      <4>2. Agree(order, e[k], k) /\ f[k] = e[k]
        BY <1>1, <1>3, <4>1 DEF Calls
      <4> QED
        BY <1>a, <1>d, <4>1, <4>2 DEF Agree
    <3> QED
      BY <3>1, <3>2
  <2>3. position' - 1 = position /\ position' = position + 1 /\ f[position'] = order'
    BY <1>a, <1>b, <1>3
  <2>4. ASSUME NEW k \in 0..position' PROVE Agree(order, f[k], k)'
    BY <1>c, <2>2, <2>3 DEF Agree
  <2> QED
    BY <1>c, <2>1, <2>3, <2>4 DEF Calls, Swap
<1>5. ASSUME NEW t \in Tours PROVE Offers(t)' <=> Visited(f, t)'
  <2>1. Offers(t)' <=> Visited(e, t)
    BY <1>b, <1>1 DEF Offers
  <2>2. ASSUME NEW k \in 0..position PROVE Finished(f, t, k)' <=> Finished(e, t, k)
    <3>1. k \in Positions /\ index'[k] = index[k] /\ f[k] = e[k]
      BY <1>a, <1>e, <1>3
    <3> QED
      BY <1>c, <3>1 DEF Finished, Agree
  <2>3. ASSUME NEW k \in Nat, k = position + 1, k < Depth PROVE ~Finished(f, t, k)'
    <3>1. index'[k] - 1 < k
      BY <1>a, <1>e, <2>3
    <3>2. k..index'[k] - 1 = {}
      BY <1>a, <1>e, <2>3, <3>1
    <3> QED
      BY <3>2 DEF Finished
  <2>4. Visited(e, t) <=> \E k \in 0..position : Finished(e, t, k)
    BY <1>a DEF Visited
  <2>5. Visited(f, t)' <=> \E k \in 0..position + 1 : k < Depth /\ Finished(f, t, k)'
    BY <1>a, <1>b, <1>c DEF Visited
  <2>6. ASSUME NEW k \in 0..position + 1
        PROVE  k < Depth /\ Finished(f, t, k)' <=> k \in 0..position /\ Finished(e, t, k)
    <3>1. CASE k = position + 1
      <4>1. k \in Nat /\ k \notin 0..position
        BY <1>a, <3>1
      <4> QED
        BY <2>3, <3>1, <4>1
    <3>2. CASE k # position + 1
      <4>1. k \in 0..position /\ k < Depth
        BY <1>a, <3>2
      <4> QED
        BY <2>2, <4>1
    <3> QED
      BY <3>1, <3>2
  <2>7. \A k \in 0..position : k \in 0..position + 1
    BY <1>a
  <2> QED
    BY <2>1, <2>4, <2>5, <2>6, <2>7
<1> QED
  BY <1>a, <1>b, <1>c, <1>e, <1>3, <1>4, <1>5 DEF RecursionInv

(* When a loop is over it has put every remaining stop at its position. *)
LEMMA LoopIsComplete ==
  ASSUME Depth \in Nat, NEW f \in Perms, NEW t \in Tours, NEW k \in Positions, Agree(t, f, k)
  PROVE  \E i \in k..Depth - 1 : t[k] = f[i]
<1>1. t[k] \in 1..Depth /\ \A p, q \in Positions : p # q => t[p] # t[q]
  BY DEF Tours
<1>2. PICK i \in Positions : f[i] = t[k]
  BY <1>1 DEF Perms
<1>3. ~(i < k)
  <2>1. i < k => t[i] = f[i] /\ i # k
    BY DEF Agree, Positions
  <2> QED
    BY <1>1, <1>2, <2>1
<1> QED
  BY <1>2, <1>3 DEF Positions

(* A loop that is over returns; from position 0 all tours were offered. *)
LEMMA ExhaustedRecursion ==
  ASSUME PhaseInv, RecursionInv, Exhausted
  PROVE  RecursionInv' /\ (pc' = "drain" => \A t \in Tours : Offers(t))
<1>a. /\ Depth \in Nat \ {0}
      /\ \A p \in Int : p \in Positions <=> 0 <= p /\ p < Depth
      /\ index \in [Positions -> 0..Depth] /\ pc = "visit"
      /\ position \in 0..Depth /\ position < Depth /\ index[position] = Depth
      /\ position \in Positions
  <2>1. pc = "visit" /\ position < Depth /\ index[position] = Depth
    BY DEF Exhausted
  <2>2. /\ Depth \in Nat \ {0} /\ position \in 0..Depth
        /\ \A p \in Int : p \in Positions <=> 0 <= p /\ p < Depth
        /\ index \in [Positions -> 0..Depth]
    BY <2>1, AtWork
  <2> QED
    BY <2>1, <2>2
<1>b. /\ pc' = IF position = 0 THEN "drain" ELSE "back"
      /\ UNCHANGED <<input, order, position, index, offered>>
  BY DEF Exhausted
<1>c. Depth' = Depth /\ Positions' = Positions /\ Tours' = Tours /\ Perms' = Perms
  BY <1>b, InputStays
<1>1. PICK e \in [0..Depth -> Perms] : Calls(e) /\ \A t \in Tours : Offers(t) <=> Visited(e, t)
  BY <1>a DEF RecursionInv
<1>2. ASSUME NEW t \in Tours, Agree(t, order, position) PROVE Visited(e, t)
  <2>1. e[position] = order /\ e[position] \in Perms
    BY <1>a, <1>1 DEF Calls
  <2>2. \E i \in position..Depth - 1 : t[position] = e[position][i]
    BY <1>2, <1>a, <2>1, LoopIsComplete
  <2>3. Finished(e, t, position)
    BY <1>2, <1>a, <2>1, <2>2 DEF Finished
  <2> QED
    BY <1>a, <2>3 DEF Visited
<1>3. position = 0 => \A t \in Tours : Offers(t)
  <2>1. position = 0 => \A t \in Tours : Agree(t, order, position)
    <3>1. \A p \in Positions : ~(p < 0)
      BY <1>a DEF Positions
    <3> QED
      BY <3>1 DEF Agree
  <2> QED
    BY <1>1, <1>2, <2>1
<1>4. Calls(e)'
  BY <1>1, <1>b, <1>c DEF Calls, Agree
<1>5. ASSUME NEW t \in Tours, pc' = "back" PROVE Offers(t)' <=> Visited(e, t)'
  <2>1. Offers(t)' <=> Visited(e, t)
    BY <1>b, <1>1 DEF Offers
  <2>2. \A k \in 0..position : Finished(e, t, k)' <=> Finished(e, t, k)
    BY <1>b, <1>c DEF Finished, Agree
  <2>3. Agree(t, order, position)' <=> Agree(t, order, position)
    BY <1>b, <1>c DEF Agree
  <2>4. Visited(e, t)' <=> Visited(e, t) \/ Agree(t, order, position)
    BY <1>a, <1>b, <1>c, <1>5, <2>2, <2>3 DEF Visited
  <2> QED
    BY <1>2, <2>1, <2>4
<1> QED
  BY <1>a, <1>b, <1>c, <1>3, <1>4, <1>5 DEF RecursionInv

(* Return, exchange back, and go on with the next turn of the loop. *)
LEMMA BackRecursion == ASSUME PhaseInv, RecursionInv, Back PROVE RecursionInv'
<1>a. /\ Depth \in Nat \ {0} /\ order \in Perms /\ Positions \subseteq Nat
      /\ \A p \in Int : p \in Positions <=> 0 <= p /\ p < Depth
      /\ index \in [Positions -> 0..Depth] /\ pc = "back"
      /\ position \in Nat \ {0} /\ position <= Depth
  <2>1. pc = "back" /\ position > 0
    BY DEF Back
  <2>2. /\ Depth \in Nat \ {0} /\ order \in Perms /\ Positions \subseteq Nat
        /\ \A p \in Int : p \in Positions <=> 0 <= p /\ p < Depth
        /\ index \in [Positions -> 0..Depth] /\ position \in 0..Depth
    BY <2>1, AtWork
  <2> QED
    BY <2>1, <2>2
<1>1. PICK e \in [0..Depth -> Perms] : Calls(e) /\ \A t \in Tours : Offers(t) <=> Visited(e, t)
  BY <1>a DEF RecursionInv
<1>2. PICK q : q = position - 1
  OBVIOUS
<1>b. /\ order' = Swap(order, q, index[q]) /\ position' = q /\ pc' = "visit"
      /\ index' = [index EXCEPT ![q] = @ + 1]
      /\ UNCHANGED <<input, offered>>
  BY <1>2 DEF Back, Exchange, Swap
<1>c. Depth' = Depth /\ Positions' = Positions /\ Tours' = Tours /\ Perms' = Perms
  BY <1>b, InputStays
<1>3. /\ q \in Nat /\ q < Depth /\ q \in Positions /\ q + 1 = position /\ q \in 0..Depth
      /\ index[q] \in q..Depth - 1 /\ index[q] \in Positions
      /\ e[position] = Swap(e[q], q, index[q]) /\ e[position] = order
      /\ Agree(order, e[q], q)
  <2>1. q \in Nat /\ q < Depth /\ q \in Positions /\ q + 1 = position
    BY <1>a, <1>2
  <2>2. /\ index[q] \in q..Depth - 1 /\ e[q + 1] = Swap(e[q], q, index[q])
        /\ e[position] = order /\ Agree(order, e[q], q)
    BY <2>1, <1>1 DEF Calls
  <2> QED
    BY <1>a, <2>1, <2>2
<1>4. order' = e[q] /\ order[q] = e[q][index[q]] /\ e[q] \in Perms
  <2>1. e[q] \in Perms
    BY <1>3
  <2>2. /\ Swap(Swap(e[q], q, index[q]), q, index[q]) = e[q]
        /\ Swap(e[q], q, index[q])[q] = e[q][index[q]]
    <3>1. Depth \in Nat /\ q \in Positions /\ index[q] \in Positions /\ q <= index[q]
      BY <1>a, <1>3
    <3> QED
      BY <2>1, <3>1, SwapKeepsPerm
  <2> QED
    BY <1>b, <1>3, <2>1, <2>2
<1>e. /\ index' \in [Positions -> 0..Depth] /\ index'[q] = index[q] + 1
      /\ \A p \in Positions : p < q => index'[p] = index[p]
  BY <1>a, <1>b, <1>3
<1>5. Calls(e)'
  <2>1. ASSUME NEW k \in 0..q - 1
        PROVE  index'[k] \in k..Depth - 1 /\ e[k + 1] = Swap(e[k], k, index'[k])
    <3>1. k \in 0..position - 1 /\ k \in Positions /\ k < q
      BY <1>a, <1>3
    <3> QED
      BY <1>1, <1>e, <3>1 DEF Calls
  <2>2. ASSUME NEW k \in 0..q PROVE Agree(order', e[k], k)
    <3>1. Agree(order, e[k], k) /\ k <= q
      BY <1>1, <1>3 DEF Calls
    <3> QED
      BY <1>a, <1>3, <1>4, <3>1 DEF Agree
  <2>3. ASSUME NEW k \in 0..q PROVE Agree(order, e[k], k)'
    BY <1>c, <2>2 DEF Agree
  <2> QED
    BY <1>b, <1>c, <1>4, <2>1, <2>3 DEF Calls
<1>6. ASSUME NEW t \in Tours PROVE Offers(t)' <=> Visited(e, t)'
  <2>1. Offers(t)' <=> Visited(e, t)
    BY <1>b, <1>1 DEF Offers
  <2>2. ASSUME NEW k \in 0..q - 1 PROVE Finished(e, t, k)' <=> Finished(e, t, k)
    <3>1. k \in Positions /\ index'[k] = index[k]
      BY <1>a, <1>e, <1>3
    <3> QED
      BY <1>c, <3>1 DEF Finished, Agree
  <2>3. Finished(e, t, q)' <=> Finished(e, t, q) \/ Agree(t, order, position)
    <3>1. Agree(t, order, position) <=> Agree(t, e[q], q) /\ t[q] = e[q][index[q]]
      <4>1. \A p \in Positions : p < position <=> p < q \/ p = q
        BY <1>a, <1>3
      <4>2. \A p \in Positions : p < q => order[p] = e[q][p]
        BY <1>3 DEF Agree
      <4> QED
        BY <1>3, <1>4, <4>1, <4>2 DEF Agree
    <3>2. Finished(e, t, q)' <=> Agree(t, e[q], q) /\ \E i \in q..index[q] : t[q] = e[q][i]
      <4>1. q \in Positions /\ index[q] \in Int /\ (index'[q] = index[q] + 1)
        BY <1>a, <1>e, <1>3
      <4>2. index'[q] - 1 = index[q]
        BY <4>1
      <4>3. Agree(t, e[q], q)' <=> Agree(t, e[q], q)
        BY <1>c DEF Agree
      <4> QED
        BY <1>c, <4>2, <4>3 DEF Finished
    <3>3. \A i \in q..index[q] : i = index[q] \/ i \in q..index[q] - 1
      BY <1>a, <1>3
    <3>4. index[q] \in q..index[q] /\ \A i \in q..index[q] - 1 : i \in q..index[q]
      BY <1>a, <1>3
    <3> QED
      BY <3>1, <3>2, <3>3, <3>4 DEF Finished
  <2>4. position < Depth /\ Finished(e, t, position) => Agree(t, order, position)
    BY <1>3 DEF Finished
  <2>5. Visited(e, t)' <=> \E k \in 0..q : k < Depth /\ Finished(e, t, k)'
    BY <1>b, <1>c DEF Visited
  <2>6. Visited(e, t) <=> \/ \E k \in 0..q - 1 : Finished(e, t, k)
                          \/ Finished(e, t, q)
                          \/ Agree(t, order, position)
    <3>1. \A k \in 0..position : k \in 0..q - 1 \/ k = q \/ k = position
      BY <1>3
    <3>2. /\ \A k \in 0..q - 1 : k \in 0..position /\ k < Depth
          /\ q \in 0..position /\ q < Depth
      BY <1>a, <1>3
    <3> QED
      BY <1>a, <2>4, <3>1, <3>2 DEF Visited
  <2>7. /\ \A k \in 0..q : k \in 0..q - 1 \/ k = q
        /\ \A k \in 0..q - 1 : k \in 0..q /\ k < Depth
        /\ q \in 0..q /\ q < Depth
    BY <1>a, <1>3
  <2> QED
    BY <2>1, <2>2, <2>3, <2>5, <2>6, <2>7
<1> QED
  <2>1. q \in 0..Depth' /\ index'[q] \in q..Depth'
    BY <1>a, <1>c, <1>e, <1>3
  <2> QED
    BY <1>b, <1>c, <1>e, <1>5, <1>6, <2>1 DEF RecursionInv

----------------------------------------------------------------------------
(* The heap *)

(* What is held are some of the tours offered, finitely many. *)
LEMMA HeldFacts ==
  ASSUME HeapInv, Ranked
  PROVE  /\ Held \subseteq offered /\ IsFiniteSet(Held) /\ Cardinality(Held) \in Nat
         /\ IsFiniteSet(kept)
<1>1. ToSet(routes) \subseteq offered
  BY DEF HeapInv, ToSet
<1>2. Held \subseteq offered /\ kept \subseteq offered /\ IsFiniteSet(offered)
  BY <1>1 DEF HeapInv, Held
<1> QED
  BY <1>2, FS_Subset, FS_CardinalityType

(* A new route is pushed, replaces the worst one, or is dropped. *)
LEMMA OfferKeepsTheBest ==
  ASSUME PhaseInv, HeapInv, pc = "visit", Depth \in Nat, NEW r \in Rated, r \notin offered, Consider(r),
         offered' = offered \cup {r}, UNCHANGED <<input, routes>>
  PROVE  /\ kept' \subseteq offered' /\ Held = kept /\ Held' = kept' /\ input.topK \in Nat \ {0}
         /\ Cardinality(kept') <= input.topK
         /\ \A x \in offered' \ kept' : Cardinality(kept') = input.topK /\ \A q \in kept' : routeBetter(q, x)
         /\ \/ Cardinality(kept) < input.topK /\ kept' = kept \cup {r}
            \/ /\ Cardinality(kept) >= input.topK
               /\ \E w \in kept : /\ \A q \in kept \ {w} : routeBetter(q, w)
                                  /\ \/ routeBetter(r, w) /\ kept' = (kept \ {w}) \cup {r}
                                     \/ ~routeBetter(r, w) /\ kept' = kept
<1> DEFINE k == input.topK
<1>a. routes = <<>> /\ Ranked /\ k \in Nat \ {0}
  BY SolverLimits DEF PhaseInv, Ranked, Valid
<1>b. Held = kept /\ Held' = kept'
  BY <1>a DEF Held, ToSet
<1>c. /\ kept \subseteq offered /\ offered \subseteq Rated /\ IsFiniteSet(kept)
      /\ Cardinality(kept) \in Nat /\ Cardinality(kept) <= k
      /\ \A x \in offered \ kept : Cardinality(kept) = k /\ \A q \in kept : routeBetter(q, x)
  BY <1>a, <1>b, HeldFacts DEF HeapInv
<1> HIDE DEF k
<1>1. CASE Cardinality(kept) < k /\ kept' = kept \cup {r}
  <2>1. Cardinality(kept') = Cardinality(kept) + 1
    BY <1>c, <1>1, FS_AddElement
  <2>2. offered' \ kept' = {}
    BY <1>c, <1>1
  <2> QED
    BY <1>a, <1>b, <1>c, <1>1, <2>1, <2>2 DEF k
<1>2. CASE Cardinality(kept) >= k
  <2>1. PICK w \in kept : Root(w) /\ kept' = IF routeBetter(r, w) THEN (kept \ {w}) \cup {r} ELSE kept
    BY <1>a, <1>c, <1>2 DEF Consider, k
  <2>2. Cardinality(kept) = k
    BY <1>a, <1>c, <1>2
  <2>3. \A q \in kept \ {w} : routeBetter(q, w)
    BY <1>c, <2>1, RatedAreOrdered DEF Root
  <2>4. CASE routeBetter(r, w)
    <3>1. kept' = (kept \ {w}) \cup {r}
      BY <2>1, <2>4
    <3>2. IsFiniteSet(kept \ {w}) /\ Cardinality(kept \ {w}) = k - 1
      BY <1>c, <2>1, <2>2, FS_RemoveElement
    <3>3. Cardinality(kept') = k
      <4> DEFINE rest == kept \ {w}
      <4>1. r \notin rest /\ Cardinality(rest) = k - 1 /\ IsFiniteSet(rest)
        BY <1>c, <3>2
      <4>2. Cardinality(rest \cup {r}) = Cardinality(rest) + 1
        BY <4>1, FS_AddElement
      <4> QED
        BY <1>a, <3>1, <4>1, <4>2
    <3>4. ASSUME NEW x \in offered' \ kept', NEW q \in kept' PROVE routeBetter(q, x)
      <4>1. q \in Rated /\ w \in Rated /\ x \in Rated
        BY <1>c, <2>1, <3>1, <3>4
      <4>2. routeBetter(q, w)
        BY <2>3, <2>4, <3>1, <3>4
      <4>3. x = w \/ routeBetter(w, x)
        BY <1>c, <2>1, <3>1, <3>4
      <4> QED
        BY <4>1, <4>2, <4>3, RatedAreOrdered
    <3>5. kept' \subseteq offered'
      BY <1>c, <3>1
    <3>6. \E v \in kept : /\ \A q \in kept \ {v} : routeBetter(q, v)
                          /\ routeBetter(r, v) /\ kept' = (kept \ {v}) \cup {r}
      BY <2>3, <2>4, <3>1
    <3> QED
      BY <1>a, <1>b, <1>2, <3>3, <3>4, <3>5, <3>6 DEF k
  <2>5. CASE ~routeBetter(r, w)
    <3>1. kept' = kept
      BY <2>1, <2>5
    <3>2. routeBetter(w, r)
      BY <1>c, <2>1, <2>5, RatedAreOrdered
    <3>3. ASSUME NEW x \in offered' \ kept', NEW q \in kept' PROVE routeBetter(q, x)
      <4>1. CASE x = r
        <5>1. q \in Rated /\ w \in Rated /\ (q = w \/ routeBetter(q, w))
          BY <1>c, <2>1, <2>3, <3>1, <3>3
        <5> QED
          BY <3>2, <4>1, <5>1, RatedAreOrdered
      <4>2. CASE x # r
        BY <1>c, <3>1, <3>3, <4>2
      <4> QED
        BY <4>1, <4>2
    <3> QED
      BY <1>a, <1>b, <1>c, <1>2, <2>1, <2>2, <2>3, <2>5, <3>1, <3>3 DEF k
  <2> QED
    BY <2>4, <2>5
<1> QED
  BY <1>1, <1>2 DEF Consider, k

(* The tour that is visited is new, so that no route is held twice. *)
LEMMA VisitHeap == ASSUME SolverInv, Visit PROVE HeapInv'
<1>a. PhaseInv /\ RecursionInv /\ HeapInv
  BY DEF SolverInv
<1>b. /\ pc = "visit" /\ position = Depth /\ pc' = "back" /\ Consider(Candidate)
      /\ offered' = offered \cup {Candidate} /\ UNCHANGED <<input, routes>>
  BY DEF Visit
<1>c. /\ Depth \in Nat /\ order \in Tours /\ Valid /\ input \in Inputs
      /\ routes = <<>> /\ Ranked /\ ~Offers(order)
  BY <1>a, <1>b, AtWork, ToursAreFresh DEF PhaseInv, Ranked
<1>1. Candidate \in Rated /\ Candidate.order = order
  BY <1>c, DurationIsNat DEF Candidate, Rated
<1>2. /\ offered \subseteq Rated /\ IsFiniteSet(offered)
      /\ \A r, s \in offered : r.order = s.order => r = s
  BY <1>a, <1>c DEF HeapInv
<1>3. Candidate \notin offered /\ \A r \in offered : r.order # order
  BY <1>c, <1>1 DEF Offers
<1>4. /\ kept' \subseteq offered' /\ Held' = kept' /\ Cardinality(kept') <= input.topK
      /\ \A x \in offered' \ kept' : Cardinality(kept') = input.topK /\ \A q \in kept' : routeBetter(q, x)
  BY <1>a, <1>b, <1>c, <1>1, <1>3, OfferKeepsTheBest
<1>5. /\ offered' \subseteq Rated /\ Rated' = Rated /\ IsFiniteSet(offered')
      /\ \A r, s \in offered' : r.order = s.order => r = s
  BY <1>b, <1>1, <1>2, <1>3, FS_AddElement, InputStays
<1>6. routes' = <<>> /\ Len(routes') = 0 /\ routes' \in Seq(offered')
  BY <1>b, <1>c
<1> QED
  BY <1>b, <1>4, <1>5, <1>6 DEF HeapInv, routeBetter, pathLess

(* Popping the root moves the worst of the heap in front of the routes.    *)
LEMMA DrainHeap ==
  ASSUME PhaseInv, HeapInv, Drain
  PROVE  /\ HeapInv' /\ Held' = Held
         /\ UNCHANGED <<input, pc, offered>> /\ pc = "drain"
<1>a. /\ pc = "drain" /\ UNCHANGED <<input, pc, position, offered>> /\ Valid /\ Ranked /\ Ranked'
  BY DEF Drain, PhaseInv, Ranked
<1>b. Depth \in Nat
  BY <1>a, SolverLimits DEF Valid, Depth
<1>1. PICK w \in kept : Root(w) /\ kept' = kept \ {w} /\ routes' = <<w>> \o routes
  BY DEF Drain
<1>2. /\ offered \subseteq Rated /\ kept \subseteq offered /\ routes \in Seq(offered)
      /\ Len(routes) \in Nat
      /\ \A i, j \in 1..Len(routes) : i < j => routeBetter(routes[i], routes[j])
      /\ \A q \in kept, i \in 1..Len(routes) : routeBetter(q, routes[i])
  BY <1>a DEF HeapInv
<1>3. /\ routes' \in Seq(offered) /\ Len(routes') = Len(routes) + 1 /\ routes'[1] = w
      /\ \A i \in 1..Len(routes) : routes'[i + 1] = routes[i]
      /\ \A i \in 2..Len(routes') : routes'[i] = routes[i - 1]
  BY <1>1, <1>2
<1>4. ToSet(routes') = ToSet(routes) \cup {w}
  <2>1. DOMAIN routes = 1..Len(routes) /\ DOMAIN routes' = 1..Len(routes')
    BY <1>2, <1>3
  <2>2. ASSUME NEW i \in DOMAIN routes' PROVE routes'[i] \in ToSet(routes) \cup {w}
    <3>1. i = 1 \/ (i \in 2..Len(routes') /\ i - 1 \in 1..Len(routes))
      BY <1>2, <1>3, <2>1
    <3> QED
      BY <1>3, <2>1, <3>1 DEF ToSet
  <2>3. ASSUME NEW i \in DOMAIN routes PROVE \E j \in DOMAIN routes' : routes'[j] = routes[i]
    <3>1. i + 1 \in DOMAIN routes' /\ routes'[i + 1] = routes[i]
      BY <1>2, <1>3, <2>1
    <3> QED
      BY <3>1
  <2>4. \E j \in DOMAIN routes' : routes'[j] = w
    <3>1. 1 \in DOMAIN routes'
      BY <1>2, <1>3, <2>1
    <3> QED
      BY <1>3, <3>1
  <2> QED
    BY <2>2, <2>3, <2>4 DEF ToSet
<1>5. Held' = Held
  BY <1>1, <1>4 DEF Held
<1>6. \A q \in kept \ {w} : routeBetter(q, w)
  BY <1>b, <1>1, <1>2, RatedAreOrdered DEF Root
<1>7. ASSUME NEW i \in 1..Len(routes'), NEW j \in 1..Len(routes'), i < j
      PROVE  routeBetter(routes'[i], routes'[j])
  <2>1. j - 1 \in 1..Len(routes) /\ routes'[j] = routes[j - 1]
    BY <1>2, <1>3, <1>7
  <2>2. CASE i = 1
    BY <1>1, <1>2, <1>3, <2>1, <2>2
  <2>3. CASE i # 1
    <3>1. i - 1 \in 1..Len(routes) /\ routes'[i] = routes[i - 1] /\ i - 1 < j - 1
      BY <1>2, <1>3, <1>7, <2>3
    <3> QED
      BY <1>2, <2>1, <3>1
  <2> QED
    BY <2>2, <2>3
<1>8. ASSUME NEW q \in kept', NEW i \in 1..Len(routes') PROVE routeBetter(q, routes'[i])
  <2>1. CASE i = 1
    BY <1>1, <1>3, <1>6, <2>1
  <2>2. CASE i # 1
    <3>1. i - 1 \in 1..Len(routes) /\ routes'[i] = routes[i - 1]
      BY <1>2, <1>3, <2>2
    <3> QED
      BY <1>1, <1>2, <3>1
  <2> QED
    BY <2>1, <2>2
<1>9. HeapInv'
  <2>1. Rated' = Rated /\ kept' \subseteq offered
    BY <1>a, <1>1, <1>2, InputStays
  <2> QED
    BY <1>a, <1>3, <1>5, <1>7, <1>8, <2>1 DEF HeapInv, routeBetter, pathLess
<1> QED
  BY <1>a, <1>5, <1>9

(* Steps of the recursion alone keep the heap. *)
LEMMA HeapStays ==
  ASSUME HeapInv, Ranked' => Ranked, UNCHANGED <<input, offered, kept, routes>> PROVE HeapInv'
<1>1. Rated' = Rated /\ Held' = Held
  BY InputStays DEF Held
<1> QED
  BY <1>1 DEF HeapInv

----------------------------------------------------------------------------
(* All parts together, one step per action. *)
LEMMA SolverStep == SolverInv /\ [Next]_vars => SolverInv'
<1> SUFFICES ASSUME SolverInv, [Next]_vars PROVE SolverInv'
  OBVIOUS
<1>a. PhaseInv /\ RecursionInv /\ HeapInv
  BY DEF SolverInv
<1>b. UNCHANGED <<input, offered>> => \A t \in Tours : Offers(t)' <=> Offers(t)
  BY DEF Offers
<1>1. CASE Reject
  BY <1>1, <1>a DEF Reject, SolverInv, PhaseInv, RecursionInv, HeapInv, Ranked
<1>2. CASE SingleStop
  BY <1>2, <1>a, InputStays DEF SingleStop, SolverInv, PhaseInv, RecursionInv, HeapInv, Ranked
<1>3. CASE Begin
  <2>1. RecursionInv'
    BY <1>3, <1>a, BeginRecursion
  <2>2. PhaseInv'
    BY <1>3, <1>a, InputStays DEF Begin, PhaseInv
  <2>3. HeapInv'
    <3>1. offered' = {} /\ kept' = {} /\ routes' = <<>> /\ input' = input /\ Valid
      BY <1>3, <1>a DEF Begin, PhaseInv
    <3>2. Held' = {} /\ Cardinality({}) = 0 /\ IsFiniteSet({})
      BY <3>1, FS_EmptySet DEF Held, ToSet
    <3>3. input.topK \in Nat /\ Len(<<>>) = 0 /\ <<>> \in Seq({})
      BY <3>1, SolverLimits DEF Valid
    <3> QED
      BY <3>1, <3>2, <3>3 DEF HeapInv
  <2> QED
    BY <2>1, <2>2, <2>3 DEF SolverInv
<1>4. CASE Visit
  <2>1. PhaseInv'
    BY <1>4, <1>a, InputStays DEF Visit, PhaseInv
  <2> QED
    BY <1>4, <1>a, <2>1, VisitRecursion, VisitHeap DEF SolverInv
<1>5. CASE Descend
  <2>1. PhaseInv'
    BY <1>5, <1>a, InputStays DEF Descend, PhaseInv
  <2>2. HeapInv'
    BY <1>5, <1>a, HeapStays DEF Descend, Ranked
  <2> QED
    BY <1>5, <1>a, <2>1, <2>2, DescendRecursion DEF SolverInv
<1>6. CASE Back
  <2>1. PhaseInv'
    BY <1>6, <1>a, InputStays DEF Back, PhaseInv
  <2>2. HeapInv'
    BY <1>6, <1>a, HeapStays DEF Back, Ranked
  <2> QED
    BY <1>6, <1>a, <2>1, <2>2, BackRecursion DEF SolverInv
<1>7. CASE Exhausted
  <2>1. /\ pc = "visit" /\ pc' \in {"drain", "back"} /\ UNCHANGED <<input, position, offered, kept, routes>>
    BY <1>7 DEF Exhausted
  <2>2. RecursionInv' /\ (pc' = "drain" => \A t \in Tours : Offers(t))
    BY <1>7, <1>a, ExhaustedRecursion
  <2>3. pc' = "drain" => \A t \in Tours' : Offers(t)'
    BY <1>b, <2>1, <2>2, InputStays
  <2>4. PhaseInv'
    BY <1>a, <2>1, <2>3, InputStays DEF PhaseInv
  <2>5. HeapInv'
    BY <1>a, <2>1, HeapStays DEF Ranked
  <2> QED
    BY <2>2, <2>4, <2>5 DEF SolverInv
<1>8. CASE Drain
  <2>1. HeapInv' /\ UNCHANGED <<input, pc, offered>> /\ pc = "drain"
    BY <1>8, <1>a, DrainHeap
  <2>2. \A t \in Tours' : Offers(t)'
    BY <1>a, <1>b, <2>1, InputStays DEF PhaseInv
  <2>3. PhaseInv'
    BY <1>a, <2>1, <2>2, InputStays DEF PhaseInv
  <2> QED
    BY <2>1, <2>3 DEF SolverInv, RecursionInv
<1>9. CASE Finish
  <2>1. /\ pc = "drain" /\ pc' = "done" /\ kept = {} /\ UNCHANGED <<input, offered, kept, routes>>
    BY <1>9 DEF Finish
  <2>2. \A t \in Tours' : Offers(t)'
    BY <1>a, <1>b, <2>1, InputStays DEF PhaseInv
  <2>3. PhaseInv'
    BY <1>a, <2>1, <2>2, InputStays DEF PhaseInv
  <2>4. HeapInv'
    BY <1>a, <2>1, HeapStays DEF Ranked
  <2> QED
    BY <2>1, <2>3, <2>4 DEF SolverInv, RecursionInv
<1>10. CASE UNCHANGED vars
  <2>1. UNCHANGED <<input, pc, order, position, index, offered, kept, routes>>
    BY <1>10 DEF vars
  <2>2. HeapInv'
    BY <1>a, <2>1, HeapStays DEF Ranked
  <2>3. PhaseInv'
    BY <1>a, <1>b, <2>1, InputStays DEF PhaseInv
  <2>4. RecursionInv'
    <3>1. \A e, t : Visited(e, t)' <=> Visited(e, t)
      BY <2>1, InputStays DEF Visited, Finished, Agree
    <3>2. \A e : Calls(e)' <=> Calls(e)
      BY <2>1, InputStays DEF Calls, Agree, Swap
    <3> QED
      BY <1>a, <1>b, <2>1, <3>1, <3>2, InputStays DEF RecursionInv
  <2> QED
    BY <2>2, <2>3, <2>4 DEF SolverInv
<1> QED
  BY <1>1, <1>2, <1>3, <1>4, <1>5, <1>6, <1>7, <1>8, <1>9, <1>10 DEF Next

LEMMA SolverInvariant == Spec => []SolverInv
<1>1. Init => SolverInv
  BY DEF Init, SolverInv, PhaseInv, RecursionInv, HeapInv, Ranked
<1> QED
  BY <1>1, SolverStep, PTL DEF Spec

(* Solve returns the topK best of all tours, for any number of stops, any  *)
(* matrix and any topK: exchanging in place and back misses no tour, each  *)
(* route is better than the next, and every tour left out is worse than    *)
(* the last.                                                               *)
THEOREM ResultIsTheRanking == Spec => []ResultIsRanking
<1>1. SolverInv => ResultIsRanking
  <2> SUFFICES ASSUME SolverInv, pc = "done", input.stops > 1
               PROVE  /\ {r.order : r \in offered} = Tours
                      /\ Len(routes) = IF input.topK < Cardinality(Tours)
                                         THEN input.topK ELSE Cardinality(Tours)
                      /\ \A i \in 1..Len(routes) - 1 : routeBetter(routes[i], routes[i + 1])
                      /\ \A r \in offered \ ToSet(routes) : routeBetter(routes[Len(routes)], r)
    BY DEF ResultIsRanking
  <2>a. PhaseInv /\ HeapInv /\ Ranked
    BY DEF SolverInv, Ranked
  <2>b. /\ Valid /\ kept = {} /\ Held = ToSet(routes) /\ \A t \in Tours : Offers(t)
        /\ Depth \in Nat /\ input.topK \in Nat \ {0}
    BY <2>a, SolverLimits DEF PhaseInv, Held, Valid, Depth
  <2>c. /\ offered \subseteq Rated /\ IsFiniteSet(offered) /\ routes \in Seq(offered)
        /\ \A r, s \in offered : r.order = s.order => r = s
        /\ Cardinality(Held) <= input.topK
        /\ \A r \in offered \ Held : Cardinality(Held) = input.topK /\ \A q \in Held : routeBetter(q, r)
        /\ \A i, j \in 1..Len(routes) : i < j => routeBetter(routes[i], routes[j])
    BY <2>a DEF HeapInv
  <2>d. Held \subseteq offered /\ IsFiniteSet(Held) /\ Cardinality(Held) \in Nat
    BY <2>a, HeldFacts
  <2>e. Len(routes) \in Nat /\ \A i \in 1..Len(routes) : routes[i] \in offered /\ routes[i] \in Held
    BY <2>b, <2>c DEF ToSet
  <2>1. {r.order : r \in offered} = Tours
    <3>1. \A r \in offered : r.order \in Tours
      BY <2>c DEF Rated
    <3> QED
      BY <2>b, <3>1 DEF Offers
  <2>2. Cardinality(Tours) = Cardinality(offered)
    <3> DEFINE f == [r \in offered |-> r.order]
    <3>1. f \in [offered -> Tours] /\ (\A r, s \in offered : f[r] = f[s] => r = s)
          /\ \A t \in Tours : \E r \in offered : f[r] = t
      BY <2>c, <2>1
    <3>2. f \in Bijection(offered, Tours)
      <4> HIDE DEF f
      <4> QED
        BY <3>1 DEF Bijection, Injection, Surjection, IsInjective
    <3> QED
      BY <2>c, <3>2, FS_Bijection DEF ExistsBijection
  <2>3. Len(routes) = Cardinality(Held)
    <3> DEFINE f == [i \in 1..Len(routes) |-> routes[i]]
    <3>1. ASSUME NEW i \in 1..Len(routes), NEW j \in 1..Len(routes), i # j PROVE routes[i] # routes[j]
      <4>1. routeBetter(routes[i], routes[j]) \/ routeBetter(routes[j], routes[i])
        BY <2>c, <2>e, <3>1
      <4>2. routes[i] \in Rated /\ routes[j] \in Rated
        BY <2>c, <2>e
      <4> QED
        BY <2>b, <4>1, <4>2, RatedAreOrdered
    <3>2. f \in [1..Len(routes) -> Held] /\ (\A i, j \in 1..Len(routes) : f[i] = f[j] => i = j)
          /\ \A r \in Held : \E i \in 1..Len(routes) : f[i] = r
      BY <2>b, <2>c, <2>e, <3>1 DEF ToSet
    <3>3. f \in Bijection(1..Len(routes), Held)
      <4> HIDE DEF f
      <4> QED
        BY <3>2 DEF Bijection, Injection, Surjection, IsInjective
    <3>4. IsFiniteSet(1..Len(routes)) /\ Cardinality(1..Len(routes)) = Len(routes)
      <4> DEFINE n == Len(routes)
      <4>1. n \in Nat
        BY <2>e
      <4> HIDE DEF n
      <4>2. IsFiniteSet(1..n) /\ Cardinality(1..n) = n
        BY <4>1, FS_Interval
      <4> QED
        BY <4>2 DEF n
    <3> QED
      BY <3>3, <3>4, FS_Bijection DEF ExistsBijection
  <2>4. Cardinality(Held) <= Cardinality(offered) /\ Cardinality(offered) \in Nat
        /\ (Cardinality(Held) = Cardinality(offered) => Held = offered)
    BY <2>c, <2>d, FS_Subset, FS_CardinalityType
  <2>5. Len(routes) = IF input.topK < Cardinality(Tours) THEN input.topK ELSE Cardinality(Tours)
    <3>1. CASE Held = offered
      BY <2>b, <2>c, <2>2, <2>3, <2>4, <3>1
    <3>2. CASE Held # offered
      <4>1. Cardinality(Held) = input.topK
        BY <2>c, <2>d, <3>2
      <4> QED
        BY <2>b, <2>d, <2>2, <2>3, <2>4, <3>2, <4>1
    <3> QED
      BY <3>1, <3>2
  <2>6. \A i \in 1..Len(routes) - 1 : routeBetter(routes[i], routes[i + 1])
    BY <2>c, <2>e
  <2>7. ASSUME NEW r \in offered \ ToSet(routes) PROVE routeBetter(routes[Len(routes)], r)
    <3>1. Cardinality(Held) = input.topK /\ \A q \in Held : routeBetter(q, r)
      BY <2>b, <2>c, <2>7
    <3>2. Len(routes) \in 1..Len(routes)
      BY <2>b, <2>e, <2>3, <3>1
    <3> QED
      BY <2>e, <3>1, <3>2
  <2> QED
    BY <2>1, <2>5, <2>6, <2>7
<1> QED
  BY <1>1, SolverInvariant, PTL

(* TopK counts as Solve does. *)
LEMMA SameCardinality == \A S : Heap!Cardinality(S) = Cardinality(S)
  BY DEF Heap!Cardinality, Cardinality, Heap!IsFiniteSet, IsFiniteSet

(* Whatever the order in which tours come, the heap holds the best of them *)
(* at every moment: nothing turned away or thrown out is better than       *)
(* anything kept, and nothing was turned away while there was room.        *)
THEOREM HeapKeepsTheBest == Spec => []Heap!KeepsTheBest
<1>1. SolverInv => Heap!KeepsTheBest
  <2> SUFFICES ASSUME SolverInv PROVE Heap!KeepsTheBest
    OBVIOUS
  <2>a. PhaseInv /\ HeapInv
    BY DEF SolverInv
  <2>1. CASE Ranked
    <3>1. Valid /\ ~(pc = "done" /\ input.stops = 1)
      BY <2>a, <2>1 DEF Ranked, PhaseInv
    <3>2. /\ Cardinality(Held) <= input.topK
          /\ \A r \in offered \ Held : Cardinality(Held) = input.topK /\ \A q \in Held : routeBetter(q, r)
      BY <2>a, <2>1 DEF HeapInv
    <3> QED
      BY <3>1, <3>2, SameCardinality DEF Heap!KeepsTheBest, Held
  <2>2. CASE ~Ranked
    <3>1. offered = {} /\ kept = {} /\ ((pc = "done" /\ input.stops = 1) \/ routes = <<>>)
      BY <2>a, <2>2, SolverLimits DEF Ranked, PhaseInv, Valid
    <3>2. (IF pc = "done" /\ input.stops = 1 THEN {} ELSE kept \cup ToSet(routes)) = {}
      BY <3>1 DEF ToSet
    <3>3. (IF Valid THEN input.topK ELSE 1) \in Nat /\ Cardinality({}) = 0
      BY SolverLimits, FS_EmptySet DEF Valid
    <3>4. Heap!Cardinality(IF pc = "done" /\ input.stops = 1 THEN {} ELSE kept \cup ToSet(routes)) = 0
      BY <3>2, <3>3, SameCardinality
    <3>5. 0 <= (IF Valid THEN input.topK ELSE 1)
      BY <3>3
    <3> QED
      BY <3>1, <3>4, <3>5 DEF Heap!KeepsTheBest
  <2> QED
    BY <2>1, <2>2
<1> QED
  BY <1>1, SolverInvariant, PTL

(* Seen as TopK, the heap and the routes taken from it are empty at first. *)
LEMMA TopKInit == Init => Heap!TInit
<1> DEFINE view == IF pc = "done" /\ input.stops = 1 THEN {} ELSE kept \cup ToSet(routes)
           bound == IF Valid THEN input.topK ELSE 1
<1> SUFFICES ASSUME Init PROVE Heap!TInit
  OBVIOUS
<1>1. offered = {} /\ view = {}
  BY DEF Init, ToSet
<1>2. bound \in 1..MaxTopK
  BY SolverLimits DEF Valid
<1> QED
  BY <1>1, <1>2 DEF Heap!TInit

(* Visit is the only step that TopK sees: popping the root moves routes    *)
(* from the heap to the result, which is the same to TopK.                 *)
LEMMA TopKStep == SolverInv /\ [Next]_vars => [HeapStep]_vars
<1> DEFINE view == IF pc = "done" /\ input.stops = 1 THEN {} ELSE kept \cup ToSet(routes)
           bound == IF Valid THEN input.topK ELSE 1
<1> SUFFICES ASSUME SolverInv, [Next]_vars PROVE [HeapStep]_vars
  OBVIOUS
<1>a. PhaseInv /\ RecursionInv /\ HeapInv
  BY DEF SolverInv
<1>b. ASSUME UNCHANGED <<bound, offered, view>> PROVE HeapStep
  BY <1>b DEF HeapStep, Heap!tvars
<1>c. UNCHANGED input => bound' = bound
  BY InputStays
<1>1. CASE Reject
  BY <1>1, <1>b, <1>c DEF Reject
<1>2. CASE SingleStop
  <2>1. view' = {} /\ view = {}
    BY <1>2, <1>a DEF SingleStop, PhaseInv, ToSet
  <2> QED
    BY <1>2, <1>b, <1>c, <2>1 DEF SingleStop
<1>3. CASE Begin
  <2>1. view' = view
    BY <1>3 DEF Begin
  <2> QED
    BY <1>3, <1>b, <1>c, <2>1 DEF Begin
<1>4. CASE Descend
  <2>1. view' = view
    BY <1>4 DEF Descend
  <2> QED
    BY <1>4, <1>b, <1>c, <2>1 DEF Descend
<1>5. CASE Back
  <2>1. view' = view
    BY <1>5 DEF Back
  <2> QED
    BY <1>5, <1>b, <1>c, <2>1 DEF Back
<1>6. CASE Exhausted
  <2>1. view' = view
    BY <1>6 DEF Exhausted
  <2> QED
    BY <1>6, <1>b, <1>c, <2>1 DEF Exhausted
<1>7. CASE Drain
  <2>1. Held' = Held /\ UNCHANGED <<input, pc, offered>>
    BY <1>7, <1>a, DrainHeap
  <2>2. view' = view
    BY <2>1 DEF Held
  <2> QED
    BY <1>b, <1>c, <2>1, <2>2
<1>8. CASE Finish
  <2>1. view' = view
    BY <1>8, <1>a DEF Finish, PhaseInv
  <2> QED
    BY <1>8, <1>b, <1>c, <2>1 DEF Finish
<1>9. CASE UNCHANGED vars
  BY <1>9
<1>10. CASE Visit
  <2>1. /\ pc = "visit" /\ position = Depth /\ pc' = "back" /\ Consider(Candidate)
        /\ offered' = offered \cup {Candidate} /\ UNCHANGED <<input, routes>>
    BY <1>10 DEF Visit
  <2>2. Candidate \in Rated /\ Candidate \notin offered
    <3>1. order \in Tours /\ ~Offers(order) /\ Valid /\ input \in Inputs
      BY <1>a, <2>1, AtWork, ToursAreFresh DEF PhaseInv
    <3> QED
      BY <3>1, DurationIsNat DEF Candidate, Rated, Offers
  <2>3. Depth \in Nat /\ Valid
    BY <1>a, <2>1, AtWork
  <2>4. /\ Held = kept /\ Held' = kept'
        /\ \/ Cardinality(kept) < input.topK /\ kept' = kept \cup {Candidate}
           \/ /\ Cardinality(kept) >= input.topK
              /\ \E w \in kept : /\ \A q \in kept \ {w} : routeBetter(q, w)
                                 /\ \/ routeBetter(Candidate, w) /\ kept' = (kept \ {w}) \cup {Candidate}
                                    \/ ~routeBetter(Candidate, w) /\ kept' = kept
    BY <1>a, <2>1, <2>2, <2>3, OfferKeepsTheBest
  <2>5. view = kept /\ view' = kept' /\ bound = input.topK /\ bound' = bound
    BY <2>1, <2>3, <2>4, <1>c DEF Held
  <2>6. Heap!Offer(Candidate)
    BY <2>1, <2>2, <2>4, <2>5, SameCardinality
       DEF Heap!Offer, Heap!Push, Heap!Replace, Heap!Drop, Heap!Root
  <2> QED
    BY <2>1, <2>6 DEF HeapStep
<1> QED
  BY <1>1, <1>2, <1>3, <1>4, <1>5, <1>6, <1>7, <1>8, <1>9, <1>10 DEF Next

(* Solve offers to the heap of TopK, one by one and each of them once, the *)
(* tours it has just reached, and nothing else touches that heap.          *)
THEOREM SolveImplementsTopK == Spec => ImplementsTopK
  BY TopKInit, TopKStep, SolverInvariant, PTL DEF Spec, ImplementsTopK

(* In particular every behaviour of Solve is one of TopK: what is offered  *)
(* is always a tour with its duration.                                     *)
THEOREM SolveIsTopK == Spec => Heap!TSpec
<1>1. SolverInv /\ [Next]_vars => [Heap!TNext]_(Heap!tvars)
  <2> SUFFICES ASSUME SolverInv, [Next]_vars PROVE [Heap!TNext]_(Heap!tvars)
    OBVIOUS
  <2>1. CASE UNCHANGED vars
    BY <2>1 DEF vars, Heap!tvars, Valid
  <2>2. CASE UNCHANGED Heap!tvars
    BY <2>2
  <2>3. CASE pc = "visit" /\ position = Depth /\ Heap!Offer(Candidate)
    <3>1. Valid /\ input \in Inputs /\ order \in Tours /\ Depth \in Nat \ {0}
      BY <2>3, AtWork DEF SolverInv, PhaseInv
    <3>2. Depth \in 1..MaxStops /\ order \in [0..Depth - 1 -> 1..Depth]
      BY <3>1, SolverLimits DEF Valid, Depth, Tours, Positions
    <3>3. Duration \in Nat
      BY <3>1, DurationIsNat
    <3>4. Candidate \in Tour
      BY <3>2, <3>3 DEF Candidate, Tour
    <3> QED
      BY <2>3, <3>4 DEF Heap!TNext
  <2> QED
    BY <2>1, <2>2, <2>3, TopKStep DEF HeapStep
<1> QED
  BY <1>1, TopKInit, SolverInvariant, PTL DEF Spec, Heap!TSpec
============================================================================
