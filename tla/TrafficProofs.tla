---------------------------- MODULE TrafficProofs ----------------------------
(***************************************************************************)
(* Proofs about Traffic for any stops, links, roads, readings and options. *)
(*                                                                         *)
(* FetchInv says what the records fetched so far know of the feed as it    *)
(* was when each chunk was fetched, MultipliersInv where the multipliers   *)
(* of a snapshot come from.                                                *)
(***************************************************************************)
EXTENDS Traffic, FiniteSetTheorems, WellFoundedInduction, TLAPS

(* A set of numbers that is not empty has a least one. *)
LEMMA LeastNumber ==
  ASSUME NEW T \in SUBSET Nat, T # {} PROVE \E x \in T : \A y \in T : x <= y
<1>1. PICK x \in T : \A y \in T : ~(<<y, x>> \in OpToRel(<, Nat))
  BY WFMin, NatLessThanWellFounded
<1>2. ASSUME NEW y \in T PROVE x <= y
  <2>1. <<y, x>> \in Nat \X Nat /\ x \in Nat /\ y \in Nat
    OBVIOUS
  <2>2. ~(y < x)
    BY <1>1, <2>1 DEF OpToRel
  <2> QED
    BY <2>1, <2>2
<1> QED
  BY <1>2

(* Arithmetic on products and quotients. *)
LEMMA ProductsGrow ==
  ASSUME NEW x \in Int, NEW y \in Int, NEW z \in Nat, x <= y PROVE x * z <= y * z
  OBVIOUS

LEMMA ProductsCancel ==
  ASSUME NEW x \in Int, NEW y \in Int, NEW z \in Nat \ {0}, x * z <= y * z PROVE x <= y
  OBVIOUS

LEMMA Quotient ==
  ASSUME NEW a \in Int, NEW c \in Nat \ {0}, NEW k \in Int
  PROVE  a \div c \in Int /\ (k <= a \div c <=> k * c <= a)
<1>1. a \div c \in Int /\ c * (a \div c) <= a /\ a < c * (a \div c) + c
  OBVIOUS
<1>2. PICK q \in Int : q = a \div c
  BY <1>1
<1>3. q * c <= a /\ a < (q + 1) * c
  BY <1>1, <1>2
<1>4. ASSUME k <= q PROVE k * c <= a
  BY <1>3, <1>4, ProductsGrow
<1>5. ASSUME ~(k <= q) PROVE ~(k * c <= a)
  <2>1. q + 1 <= k
    BY <1>5
  <2>2. (q + 1) * c <= k * c
    BY <2>1, ProductsGrow
  <2>3. (q + 1) * c \in Int /\ k * c \in Int
    OBVIOUS
  <2> QED
    BY <1>3, <2>2, <2>3
<1> QED
  BY <1>1, <1>2, <1>4, <1>5

----------------------------------------------------------------------------
(* The sum of the speeds of some links. *)
LEMMA SpeedsAddUp ==
  ASSUME NEW S, IsFiniteSet(S), S # {}, NEW latest, \A l \in S : latest[l].speed \in Nat
  PROVE  LET total == MapThenSumSet(LAMBDA l : latest[l].speed, S) IN
         /\ total \in Nat
         /\ \E low, high \in S : /\ latest[low].speed * Cardinality(S) <= total
                                 /\ total <= latest[high].speed * Cardinality(S)
<1> DEFINE Pick(s) == CHOOSE x \in s : TRUE
           Added(g, s) == IF s = {} THEN 0 ELSE latest[Pick(s)].speed + g[s \ {Pick(s)}]
           Small(n) == {s \in SUBSET S : Cardinality(s) <= n}
           Between(s, t) ==
             /\ t \in Nat
             /\ s # {} => \E low, high \in s : /\ latest[low].speed * Cardinality(s) <= t
                                               /\ t <= latest[high].speed * Cardinality(s)
           Sums(g, n) ==
             /\ g = [s \in Small(n) |-> Added(g, s)]
             /\ \A s \in Small(n) : Between(s, g[s])
<1>1. ASSUME NEW s \in SUBSET S
      PROVE  /\ IsFiniteSet(s) /\ Cardinality(s) \in Nat /\ Cardinality(s) <= Cardinality(S)
             /\ s = {} <=> Cardinality(s) = 0
             /\ s # {} => /\ Pick(s) \in s
                          /\ s \ {Pick(s)} \in SUBSET S
                          /\ Cardinality(s \ {Pick(s)}) = Cardinality(s) - 1
  <2>1. IsFiniteSet(s) /\ Cardinality(s) \in Nat /\ Cardinality(s) <= Cardinality(S)
    BY FS_Subset, FS_CardinalityType
  <2>2. s = {} <=> Cardinality(s) = 0
    BY <2>1, FS_EmptySet
  <2>3. s # {} => Pick(s) \in s
    OBVIOUS
  <2>4. s # {} => Cardinality(s \ {Pick(s)}) = Cardinality(s) - 1
    BY <2>1, <2>3, FS_RemoveElement
  <2> QED
    BY <2>1, <2>2, <2>3, <2>4
<1>2. Cardinality(S) \in Nat
  BY FS_CardinalityType
<1>3. \A n \in 0..Cardinality(S) : \E g : Sums(g, n)
  <2> DEFINE Missing == {n \in 0..Cardinality(S) : ~\E g : Sums(g, n)}
  <2>1. SUFFICES ASSUME Missing # {} PROVE FALSE
    OBVIOUS
  <2>2. PICK n \in Missing : \A m \in Missing : n <= m
    <3>1. Missing \in SUBSET Nat
      BY <1>2
    <3> HIDE DEF Missing
    <3> QED
      BY <2>1, <3>1, LeastNumber
  <2>3. n \in Nat /\ n <= Cardinality(S) /\ ~\E g : Sums(g, n)
    <3> HIDE DEF Sums
    <3> QED
      BY <1>2, <2>2
  <2>4. n # 0
    <3> DEFINE g == [s \in Small(0) |-> 0]
    <3>1. ASSUME NEW s \in Small(0) PROVE s = {}
      <4>1. s \in SUBSET S /\ Cardinality(s) <= 0
        OBVIOUS
      <4>2. Cardinality(s) \in Nat /\ (s = {} <=> Cardinality(s) = 0)
        BY <1>1, <4>1
      <4> QED
        BY <4>1, <4>2
    <3>2. \A s \in Small(0) : g[s] = 0 /\ Added(g, s) = 0
      BY <3>1
    <3>3. g = [s \in Small(0) |-> Added(g, s)]
      BY <3>2
    <3>4. \A s \in Small(0) : Between(s, g[s])
      BY <3>1, <3>2
    <3>5. Sums(g, 0)
      BY <3>3, <3>4
    <3> HIDE DEF Sums
    <3> QED
      BY <2>3, <3>5
  <2>5. PICK g : Sums(g, n - 1)
    <3>1. n - 1 \in 0..Cardinality(S) /\ ~(n <= n - 1)
      BY <1>2, <2>3, <2>4
    <3>2. n - 1 \notin Missing
      <4> HIDE DEF Missing
      <4> QED
        BY <2>2, <3>1
    <3> HIDE DEF Sums
    <3> QED
      BY <3>1, <3>2
  <2> DEFINE h == [s \in Small(n) |-> Added(g, s)]
  <2>6. ASSUME NEW s \in Small(n), s # {}
        PROVE  /\ s \ {Pick(s)} \in Small(n - 1) /\ s \ {Pick(s)} \in Small(n)
               /\ Pick(s) \in s /\ latest[Pick(s)].speed \in Nat
    BY <1>1, <2>3, <2>6
  <2>7. \A s \in Small(n - 1) : s \in Small(n) /\ g[s] = h[s]
    <3>1. ASSUME NEW s \in Small(n - 1) PROVE s \in Small(n)
      <4>1. s \in SUBSET S /\ Cardinality(s) <= n - 1 /\ Cardinality(s) \in Nat
        BY <1>1
      <4>2. Cardinality(s) <= n
        BY <2>3, <4>1
      <4> QED
        BY <4>1, <4>2
    <3>2. ASSUME NEW s \in Small(n - 1) PROVE g[s] = Added(g, s)
      BY <2>5
    <3> HIDE DEF Small
    <3> QED
      BY <3>1, <3>2
  <2>8. h = [s \in Small(n) |-> Added(h, s)]
    <3>1. ASSUME NEW s \in Small(n) PROVE Added(h, s) = Added(g, s)
      <4>1. CASE s = {}
        BY <4>1
      <4>2. CASE s # {}
        <5>1. g[s \ {Pick(s)}] = h[s \ {Pick(s)}]
          <6> HIDE DEF h, Small, Pick
          <6> QED
            BY <2>6, <2>7, <4>2
        <5> HIDE DEF h, Small, Pick
        <5> QED
          BY <4>2, <5>1
      <4> QED
        BY <4>1, <4>2
    <3> HIDE DEF Added, Small
    <3> QED
      BY <3>1
  <2>9. ASSUME NEW s \in Small(n) PROVE Between(s, h[s])
    <3>1. CASE s = {}
      BY <3>1
    <3>2. CASE s # {}
      <4> DEFINE x == Pick(s)
                 r == s \ {x}
      <4>1. x \in s /\ r \in Small(n - 1) /\ latest[x].speed \in Nat /\ h[s] = latest[x].speed + g[r]
        BY <2>6, <3>2
      <4>2. Between(r, g[r])
        <5> HIDE DEF Between, r
        <5> QED
          BY <2>5, <4>1
      <4>3. Cardinality(r) \in Nat /\ Cardinality(s) = Cardinality(r) + 1 /\ (r = {} <=> Cardinality(r) = 0)
        BY <1>1, <3>2
      <4>4. \A l \in s : latest[l].speed \in Nat
        OBVIOUS
      <4> HIDE DEF h, x
      <4>5. CASE r = {}
        <5>1. g[r] = 0
          <6>1. g[r] = Added(g, r)
            BY <2>5, <4>1
          <6> QED
            BY <6>1, <4>5
        <5>2. h[s] = latest[x].speed /\ Cardinality(s) = 1
          BY <4>1, <4>3, <4>5, <5>1
        <5>3. latest[x].speed * 1 = latest[x].speed
          BY <4>1
        <5> HIDE DEF r
        <5> QED
          BY <4>1, <5>2, <5>3
      <4>6. CASE r # {}
        <5>1. PICK low \in r, high \in r : /\ latest[low].speed * Cardinality(r) <= g[r]
                                           /\ g[r] <= latest[high].speed * Cardinality(r)
          BY <4>2, <4>6
        <5>2. PICK n1 \in Nat : n1 = Cardinality(r)
          BY <4>3
        <5>3. PICK a \in Nat, b \in Nat, c \in Nat :
                a = latest[low].speed /\ b = latest[high].speed /\ c = latest[x].speed
          BY <4>1, <4>4
        <5>4. PICK t \in Nat : t = g[r]
          BY <4>2
        <5>5. a * n1 <= t /\ t <= b * n1 /\ h[s] = c + t /\ Cardinality(s) = n1 + 1
          BY <4>1, <4>3, <5>1, <5>2, <5>3, <5>4
        <5>6. \E u \in {low, x} : latest[u].speed * Cardinality(s) <= h[s]
          <6>1. a <= c => a * (n1 + 1) <= c + t
            BY <5>5
          <6>2. c <= a => c * (n1 + 1) <= c + t
            <7>1. c <= a => c * n1 <= a * n1
              BY ProductsGrow
            <7> QED
              BY <5>5, <7>1
          <6> QED
            BY <5>3, <5>5, <6>1, <6>2
        <5>7. \E u \in {high, x} : h[s] <= latest[u].speed * Cardinality(s)
          <6>1. c <= b => c + t <= b * (n1 + 1)
            BY <5>5
          <6>2. b <= c => c + t <= c * (n1 + 1)
            <7>1. b <= c => b * n1 <= c * n1
              BY ProductsGrow
            <7> QED
              BY <5>5, <7>1
          <6> QED
            BY <5>3, <5>5, <6>1, <6>2
        <5>8. h[s] \in Nat
          BY <5>5
        <5>9. low \in s /\ high \in s /\ x \in s
          BY <4>1
        <5> QED
          BY <5>6, <5>7, <5>8, <5>9
      <4> QED
        BY <4>5, <4>6
    <3> QED
      BY <3>1, <3>2
  <2>10. Sums(h, n)
    <3> HIDE DEF h, Between, Added
    <3> QED
      BY <2>8, <2>9
  <2> HIDE DEF Sums
  <2> QED
    BY <2>3, <2>10
<1>4. PICK g : Sums(g, Cardinality(S))
  <2>1. Cardinality(S) \in 0..Cardinality(S)
    BY <1>2
  <2> HIDE DEF Sums
  <2> QED
    BY <1>3, <2>1
<1>5. Small(Cardinality(S)) = SUBSET S
  BY <1>1
<1>6. g = [s \in SUBSET S |-> Added(g, s)] /\ Between(S, g[S])
  BY <1>4, <1>5
<1> DEFINE iter == CHOOSE f : f = [s \in SUBSET S |-> Added(f, s)]
<1>7. MapThenSumSet(LAMBDA l : latest[l].speed, S) = iter[S]
  BY DEF MapThenSumSet, MapThenFoldSet
<1>8. iter = [s \in SUBSET S |-> Added(iter, s)]
  BY <1>6
<1>9. Between(S, iter[S])
  <2> DEFINE Odd == {n \in 0..Cardinality(S) : \E s \in SUBSET S : Cardinality(s) = n /\ iter[s] # g[s]}
  <2>1. ASSUME Odd # {} PROVE FALSE
    <3>1. PICK n \in Odd : \A m \in Odd : n <= m
      <4>1. Odd \in SUBSET Nat
        BY <1>2
      <4> HIDE DEF Odd
      <4> QED
        BY <2>1, <4>1, LeastNumber
    <3>2. PICK s \in SUBSET S : Cardinality(s) = n /\ iter[s] # g[s]
      BY <3>1
    <3>3. iter[s] = Added(iter, s) /\ g[s] = Added(g, s)
      <4> HIDE DEF iter, Added
      <4> QED
        BY <1>6, <1>8
    <3>4. s # {} /\ iter[s \ {Pick(s)}] # g[s \ {Pick(s)}]
      <4> HIDE DEF iter, Pick
      <4> QED
        BY <3>2, <3>3
    <3>5. Cardinality(s \ {Pick(s)}) \in 0..Cardinality(S) /\ Cardinality(s \ {Pick(s)}) = n - 1
          /\ s \ {Pick(s)} \in SUBSET S /\ n \in Nat
      BY <1>1, <1>2, <3>2, <3>4
    <3>6. n - 1 \in Odd
      <4> HIDE DEF iter, Pick
      <4> QED
        BY <3>4, <3>5
    <3> HIDE DEF Odd
    <3> QED
      BY <3>1, <3>5, <3>6
  <2>2. Cardinality(S) \in 0..Cardinality(S)
    BY <1>2
  <2>3. iter[S] = g[S]
    <3> HIDE DEF iter
    <3> QED
      BY <2>1, <2>2
  <2> HIDE DEF iter, Between
  <2> QED
    BY <1>6, <2>3
<1> HIDE DEF iter
<1> QED
  BY <1>7, <1>9

----------------------------------------------------------------------------
(* A greater divisor gives a smaller quotient. *)
LEMMA QuotientsFall ==
  ASSUME NEW a \in Nat, NEW c \in Nat \ {0}, NEW d \in Nat \ {0}, c <= d
  PROVE  a \div d \in Nat /\ a \div d <= a \div c
<1>1. PICK k \in Int : k = a \div d
  BY Quotient
<1>2. k \in Nat
  <2>1. 0 <= k
    BY <1>1, Quotient
  <2> QED
    BY <2>1
<1>3. k * d <= a
  BY <1>1, Quotient
<1>4. c * k <= d * k
  BY <1>2, ProductsGrow
<1>5. k * c <= a
  BY <1>2, <1>3, <1>4
<1> QED
  BY <1>1, <1>2, <1>5, Quotient

(* What an average of n speeds gives lies between what the highest and the *)
(* lowest of them would.                                                   *)
LEMMA AverageBetween ==
  ASSUME NEW a \in Nat, NEW n \in Nat \ {0}, NEW low \in Nat \ {0}, NEW high \in Nat \ {0},
         NEW t \in Nat, low * n <= t, t <= high * n
  PROVE  /\ (a * n) \div t \in Int
         /\ a \div high <= (a * n) \div t /\ (a * n) \div t <= a \div low
<1>1. t \in Nat \ {0} /\ a * n \in Nat
  <2>1. 1 * n <= low * n
    BY ProductsGrow
  <2> QED
    BY <2>1
<1>2. PICK k \in Int, q \in Int : k = a \div high /\ q = (a * n) \div t
  BY <1>1, Quotient
<1>3. k \in Nat /\ q \in Nat
  <2>1. 0 <= k /\ 0 <= q
    BY <1>1, <1>2, Quotient
  <2> QED
    BY <2>1
<1>4. k * high <= a /\ q * t <= a * n
  BY <1>1, <1>2, Quotient
<1>5. k <= (a * n) \div t
  <2>1. t * k <= (high * n) * k
    BY <1>3, ProductsGrow
  <2>2. (k * high) * n <= a * n
    BY <1>3, <1>4, ProductsGrow
  <2>3. (high * n) * k = (k * high) * n /\ t * k = k * t
    BY <1>3
  <2>4. (k * high) * n \in Int /\ k * t \in Int /\ a * n \in Int
    BY <1>3
  <2>5. k * t <= a * n
    BY <2>1, <2>2, <2>3, <2>4
  <2> QED
    BY <1>1, <2>5, Quotient
<1>6. q <= a \div low
  <2>1. (low * n) * q <= t * q
    BY <1>3, ProductsGrow
  <2>2. (low * n) * q = (q * low) * n /\ t * q = q * t
    BY <1>3
  <2>3. (q * low) * n \in Int /\ q * t \in Int /\ a * n \in Int /\ q * low \in Int
    BY <1>3
  <2>4. (q * low) * n <= a * n
    BY <1>4, <2>1, <2>2, <2>3
  <2>5. q * low <= a
    BY <2>3, <2>4, ProductsCancel
  <2> QED
    BY <2>5, Quotient
<1> QED
  BY <1>2, <1>5, <1>6

(* Smoothing stays between the bounds of what it mixes. *)
LEMMA MixBetween ==
  ASSUME NEW alpha \in 1..100, NEW c \in Int, NEW m \in Int, NEW low \in Int, NEW high \in Int,
         low <= c, c <= high, low <= m, m <= high
  PROVE  LET mix == (alpha * c + (100 - alpha) * m) \div 100 IN
         mix \in Int /\ low <= mix /\ mix <= high
<1>1. PICK b \in Nat : b = 100 - alpha
  OBVIOUS
<1>2. alpha \in Nat /\ alpha + b = 100
  BY <1>1
<1>3. low * alpha <= c * alpha /\ c * alpha <= high * alpha /\ low * b <= m * b /\ m * b <= high * b
  BY <1>2, ProductsGrow
<1>4. PICK x \in Int : x = alpha * c + b * m
  BY <1>2
<1>5. low * alpha + low * b = low * 100 /\ high * alpha + high * b = high * 100
  <2>1. low * alpha + low * b = low * (alpha + b) /\ high * alpha + high * b = high * (alpha + b)
    BY <1>2
  <2> QED
    BY <1>2, <2>1
<1>6. alpha * c = c * alpha /\ b * m = m * b
  BY <1>2
<1>7. low * 100 <= x /\ x <= high * 100
  <2>1. low * alpha \in Int /\ low * b \in Int /\ c * alpha \in Int /\ m * b \in Int
        /\ high * alpha \in Int /\ high * b \in Int
    BY <1>2
  <2> QED
    BY <1>3, <1>4, <1>5, <1>6, <2>1
<1>8. x \div 100 \in Int /\ low <= x \div 100 /\ ~(high + 1 <= x \div 100)
  <2>1. ~((high + 1) * 100 <= x)
    BY <1>7
  <2> QED
    BY <1>7, <2>1, Quotient
<1> QED
  BY <1>1, <1>4, <1>8

----------------------------------------------------------------------------
(* What the code keeps while edges are fetched and matched. *)
Record == [link : Links, at : Nat, speed : Nat, points : Places \cup {NoPoints}]
EdgeData == [near : [Places -> Nat], mph : Nat, links : SUBSET Links, byHand : SUBSET Links]

FlowInv ==
  /\ options \in OptionSets
  /\ feed \in Seq(Record) /\ \A i \in DOMAIN feed : feed[i].at <= Len(feed)
  /\ DOMAIN edges \subseteq Edges
  /\ \A e \in DOMAIN edges : edges[e] \in EdgeData /\ \A l \in edges[e].links : Own(e, l)
  /\ todo \subseteq Links
  /\ stage \notin {"edges", "failed"} => DOMAIN edges = Edges

(* A link's dated records are represented, or undated ones took the room. *)
Covered(l) ==
  \A i \in 1..asked[l].at :
    feed[i].link = l /\ Dated(feed[i]) =>
      \/ \E p \in DOMAIN records : records[p].link = l /\ feed[i].at <= records[p].at
      \/ /\ \A p \in DOMAIN records : records[p].link = l => ~Dated(records[p])
         /\ ReplyFull(l)

HeardOf(l) ==
  \/ \E p \in DOMAIN records : records[p].link = l
  \/ \A i \in 1..asked[l].at : feed[i].link # l
  \/ options.chunkSize > 1 /\ ReplyFull(l)

Fetched(l) == asked[l] \in [chunk : SUBSET Links, at : 0..Len(feed)] /\ Covered(l) /\ HeardOf(l)

FetchInv ==
  stage \in {"speeds", "done"} =>
    /\ records \in Seq(Record)
    /\ \A p \in DOMAIN records : records[p].link \in DOMAIN asked /\ \E i \in DOMAIN feed : records[p] = feed[i]
    /\ DOMAIN asked \cap todo = {}
    /\ uniqueMatchedDOTLinkIDs(edges) \subseteq DOMAIN asked \cup todo
    /\ stage = "done" => todo = {}
    /\ \A l \in DOMAIN asked : Fetched(l)

(* Multipliers lie between the factors of speeds of an edge's own links. *)
OwnFactor(e, m) ==
  m \in Int /\ \E low, high \in Heard(e) : Factor(e, high) <= m /\ m <= Factor(e, low)

MultipliersInv ==
  \A e \in DOMAIN multipliers : e \in DOMAIN edges /\ OwnFactor(e, multipliers[e])

TrafficInv == FlowInv /\ FetchInv /\ MultipliersInv /\ AdjustedByOwnLinks

----------------------------------------------------------------------------
(* What a query returns: records of the links asked for, and all of them,  *)
(* or as many as the limit allows and none that precedes those left out.   *)
LEMMA RepliesRead ==
  ASSUME FlowInv, NEW ids, NEW limit \in Nat, NEW reply \in Replies(ids, limit)
  PROVE  /\ Read(reply) \in Seq(Record)
         /\ \A p \in DOMAIN Read(reply) :
              /\ Read(reply)[p].link \in ids
              /\ \E i \in DOMAIN feed : Read(reply)[p] = feed[i]
         /\ \A i \in DOMAIN feed :
              feed[i].link \in ids =>
                \/ \E p \in DOMAIN Read(reply) : Read(reply)[p] = feed[i]
                \/ /\ Len(Read(reply)) = limit
                   /\ \A p \in DOMAIN Read(reply) : MayPrecede(Read(reply)[p], feed[i])
<1> DEFINE found == {i \in DOMAIN feed : feed[i].link \in ids}
           size == IF Cardinality(found) < limit THEN Cardinality(found) ELSE limit
<1>1. /\ reply \in [1..size -> found]
      /\ \A p, q \in 1..size : p < q => reply[p] # reply[q]
      /\ \A i \in found : \/ \E p \in 1..size : reply[p] = i
                          \/ \A p \in 1..size : MayPrecede(feed[reply[p]], feed[i])
  BY DEF Replies
<1>2. feed \in Seq(Record) /\ DOMAIN feed = 1..Len(feed) /\ Len(feed) \in Nat
  BY DEF FlowInv
<1>3. IsFiniteSet(found) /\ Cardinality(found) \in Nat
  <2>1. IsFiniteSet(1..Len(feed))
    BY <1>2, FS_Interval
  <2> QED
    BY <1>2, <2>1, FS_Subset, FS_CardinalityType
<1>4. size \in Nat
  BY <1>3
<1>5. Cardinality(found) < limit => \A i \in found : \E p \in 1..size : reply[p] = i
  <2> SUFFICES ASSUME Cardinality(found) < limit PROVE \A i \in found : \E p \in 1..size : reply[p] = i
    OBVIOUS
  <2> DEFINE image == {reply[p] : p \in 1..size}
  <2>1. reply \in Bijection(1..size, image)
    <3>1. \A p, q \in 1..size : reply[p] = reply[q] => p = q
      <4>1. \A p, q \in 1..size : p = q \/ p < q \/ q < p
        BY <1>4
      <4> QED
        BY <1>1, <4>1
    <3>2. reply \in [1..size -> image] /\ \A i \in image : \E p \in 1..size : reply[p] = i
      BY <1>1
    <3> HIDE DEF image, size
    <3> QED
      BY <3>1, <3>2 DEF Bijection, Injection, Surjection, IsInjective
  <2>2. IsFiniteSet(1..size) /\ Cardinality(1..size) = size
    <3> HIDE DEF size
    <3>1. 1 <= size + 1 /\ size - 1 + 1 = size
      BY <1>4
    <3> QED
      BY <1>4, FS_Interval
  <2>3. Cardinality(image) = Cardinality(found)
    <3>1. size = Cardinality(found)
      OBVIOUS
    <3> HIDE DEF image, size
    <3> QED
      BY <2>1, <2>2, <3>1, FS_Bijection DEF ExistsBijection
  <2>4. image \subseteq found
    BY <1>1
  <2>5. image = found
    <3> HIDE DEF image, found
    <3> QED
      BY <1>3, <2>3, <2>4, FS_Subset
  <2> QED
    BY <2>5
<1>6. DOMAIN Read(reply) = 1..size /\ \A p \in 1..size : Read(reply)[p] = feed[reply[p]] /\ reply[p] \in found
  BY <1>1 DEF Read
<1> HIDE DEF size
<1>7. Read(reply) \in Seq(Record) /\ Len(Read(reply)) = size
  <2>1. Read(reply) = [p \in 1..size |-> Read(reply)[p]]
    BY <1>1 DEF Read
  <2>2. \A p \in 1..size : Read(reply)[p] \in Record
    BY <1>2, <1>6
  <2> QED
    BY <1>4, <2>1, <2>2
<1>8. \A i \in found : \/ \E p \in 1..size : reply[p] = i
                       \/ size = limit /\ \A p \in 1..size : MayPrecede(feed[reply[p]], feed[i])
  <2>1. CASE Cardinality(found) < limit
    BY <1>5, <2>1
  <2>2. CASE ~(Cardinality(found) < limit)
    <3>1. size = limit
      BY <2>2 DEF size
    <3> QED
      BY <1>1, <3>1
  <2> QED
    BY <2>1, <2>2
<1> QED
  BY <1>6, <1>7, <1>8

(* The record kept for a link is one of its records, and the newest. *)
LEMMA LatestIsNewest ==
  ASSUME NEW recs \in Seq(Record), NEW N \in Nat, \A p \in DOMAIN recs : recs[p].at <= N,
         NEW l \in {recs[p].link : p \in DOMAIN recs}
  PROVE  \E p \in DOMAIN recs :
           /\ latestDOTRecordsByLinkID(recs)[l] = recs[p] /\ recs[p].link = l
           /\ \A q \in DOMAIN recs : recs[q].link = l => recs[q].at <= recs[p].at
<1> DEFINE Of == {p \in DOMAIN recs : recs[p].link = l}
           Keeps(p) == \A q \in Of : /\ q < p => isNewerDOTRecord(recs[p], recs[q])
                                     /\ q > p => ~isNewerDOTRecord(recs[q], recs[p])
<1>1. /\ Of # {} /\ Of \in SUBSET Nat
      /\ \A p \in Of : p \in DOMAIN recs /\ recs[p].at \in Nat /\ recs[p].at <= N
  <2>1. DOMAIN recs = 1..Len(recs) /\ \A p \in DOMAIN recs : recs[p] \in Record
    OBVIOUS
  <2> QED
    BY <2>1 DEF Record
<1>2. latestDOTRecordsByLinkID(recs)[l] = recs[CHOOSE p \in Of : Keeps(p)]
  BY DEF latestDOTRecordsByLinkID
<1> HIDE DEF Of
<1>3. PICK m \in Of : \A q \in Of : recs[q].at <= recs[m].at
  <2> DEFINE Ages == {N - recs[q].at : q \in Of}
  <2>1. Ages \in SUBSET Nat /\ Ages # {}
    <3>1. \A q \in Of : N - recs[q].at \in Nat
      BY <1>1
    <3> QED
      BY <1>1, <3>1
  <2>2. PICK x \in Ages : \A y \in Ages : x <= y
    <3> HIDE DEF Ages
    <3> QED
      BY <2>1, LeastNumber
  <2>3. PICK m \in Of : x = N - recs[m].at
    BY <2>2
  <2>4. ASSUME NEW q \in Of PROVE recs[q].at <= recs[m].at
    <3>1. N - recs[m].at <= N - recs[q].at
      BY <2>2, <2>3
    <3> QED
      BY <1>1, <3>1
  <2> QED
    BY <2>4
<1>4. PICK p \in Of : recs[p].at = recs[m].at /\ \A q \in Of : recs[q].at = recs[m].at => p <= q
  <2> DEFINE Newest == {q \in Of : recs[q].at = recs[m].at}
  <2>1. Newest \in SUBSET Nat /\ Newest # {}
    BY <1>1
  <2>2. PICK x \in Newest : \A y \in Newest : x <= y
    <3> HIDE DEF Newest
    <3> QED
      BY <2>1, LeastNumber
  <2> QED
    BY <2>2
<1>5. Keeps(p)
  <2> SUFFICES ASSUME NEW q \in Of
               PROVE  /\ q < p => isNewerDOTRecord(recs[p], recs[q])
                      /\ q > p => ~isNewerDOTRecord(recs[q], recs[p])
    OBVIOUS
  <2>1. recs[q].at \in Nat /\ recs[p].at \in Nat /\ p \in Nat /\ q \in Nat /\ recs[q].at <= recs[p].at
    BY <1>1, <1>3, <1>4
  <2>2. q < p => recs[q].at # recs[p].at
    BY <1>4, <2>1
  <2>3. q < p => isNewerDOTRecord(recs[p], recs[q])
    <3> HAVE q < p
    <3>1. recs[p].at > recs[q].at /\ recs[p].at # 0
      BY <2>1, <2>2
    <3> QED
      BY <3>1 DEF isNewerDOTRecord, Dated
  <2>4. q > p => ~isNewerDOTRecord(recs[q], recs[p])
    <3>1. ~(recs[q].at > recs[p].at) /\ (recs[p].at = 0 => recs[q].at = 0)
      BY <2>1
    <3> QED
      BY <3>1 DEF isNewerDOTRecord, Dated
  <2> QED
    BY <2>3, <2>4
<1>6. PICK k \in Of : Keeps(k) /\ latestDOTRecordsByLinkID(recs)[l] = recs[k]
  <2> HIDE DEF Keeps
  <2> QED
    BY <1>2, <1>5
<1>7. ASSUME NEW q \in Of PROVE recs[q].at <= recs[k].at
  <2>1. recs[q].at \in Nat /\ recs[k].at \in Nat /\ k \in Nat /\ q \in Nat
    BY <1>1
  <2>2. CASE q = k
    BY <2>1, <2>2
  <2>3. CASE q < k
    BY <1>6, <2>1, <2>3 DEF isNewerDOTRecord, Dated
  <2>4. CASE q > k
    BY <1>6, <2>1, <2>4 DEF isNewerDOTRecord, Dated
  <2> QED
    BY <2>1, <2>2, <2>3, <2>4
<1> QED
  BY <1>1, <1>6, <1>7 DEF Of

----------------------------------------------------------------------------
(* Publishing adds to the feed, everything else leaves it. *)
LEMMA FeedGrows ==
  ASSUME FlowInv, NEW l \in Links, Publish(l)
  PROVE  /\ feed' \in Seq(Record) /\ Len(feed') = Len(feed) + 1 /\ Len(feed) \in Nat
         /\ DOMAIN feed \subseteq DOMAIN feed' /\ \A i \in DOMAIN feed : feed'[i] = feed[i]
         /\ \A i \in DOMAIN feed' : feed'[i].at <= Len(feed')
<1>1. feed \in Seq(Record) /\ Len(feed) \in Nat /\ \A i \in DOMAIN feed : feed[i].at <= Len(feed) /\ feed[i].at \in Nat
  <2>1. feed \in Seq(Record) /\ \A i \in DOMAIN feed : feed[i].at <= Len(feed)
    BY DEF FlowInv
  <2>2. \A i \in DOMAIN feed : feed[i] \in Record
    BY <2>1
  <2> QED
    BY <2>1, <2>2 DEF Record
<1>2. PICK reading \in Readings :
        feed' = Append(feed, [link |-> l, at |-> IF reading.dated THEN Len(feed) + 1 ELSE 0,
                              speed |-> reading.speed, points |-> reading.points])
  BY DEF Publish
<1> DEFINE r == [link |-> l, at |-> IF reading.dated THEN Len(feed) + 1 ELSE 0,
                 speed |-> reading.speed, points |-> reading.points]
<1>3. r \in Record /\ r.at <= Len(feed) + 1
  BY <1>1, ReadingsAssumption DEF Record
<1> HIDE DEF r
<1>4. feed' = Append(feed, r)
  BY <1>2 DEF r
<1>5. feed' \in Seq(Record) /\ Len(feed') = Len(feed) + 1
  BY <1>1, <1>3, <1>4
<1>6. DOMAIN feed = 1..Len(feed) /\ DOMAIN feed' = 1..(Len(feed) + 1)
  BY <1>1, <1>3, <1>4
<1>7. (\A i \in 1..Len(feed) : feed'[i] = feed[i]) /\ feed'[Len(feed) + 1] = r
  BY <1>1, <1>3, <1>4
<1>8. ASSUME NEW i \in DOMAIN feed' PROVE feed'[i].at <= Len(feed')
  <2>1. CASE i = Len(feed) + 1
    BY <1>3, <1>5, <1>7, <2>1
  <2>2. CASE i \in 1..Len(feed)
    BY <1>1, <1>5, <1>6, <1>7, <2>2
  <2> QED
    BY <1>6, <2>1, <2>2
<1> QED
  BY <1>1, <1>5, <1>6, <1>7, <1>8

(* Links that match an edge are put near it by the points of the window,   *)
(* or were among its links before.                                         *)
LEMMA MatchesAreNear ==
  ASSUME NEW edge, NEW points, NEW l \in MatchedIDs(edge, points)
  PROVE  l \in edge.links \/ (l \in DOMAIN points /\ Near(edge, points[l]))
  BY DEF MatchedIDs, matchEdgeToDOTLinks

LEMMA WindowPoints ==
  ASSUME FlowInv, NEW window \in Replies(Links, MatchLimit), NEW l \in DOMAIN LinkGeometries(Read(window))
  PROVE  l \in Links /\ \E i \in DOMAIN feed : feed[i].link = l /\ LinkGeometries(Read(window))[l] = feed[i].points
<1> DEFINE recs == Read(window)
<1>1. /\ recs \in Seq(Record)
      /\ \A p \in DOMAIN recs : recs[p].link \in Links /\ \E i \in DOMAIN feed : recs[p] = feed[i]
  BY OptionsAssumption, RepliesRead
<1>2. Len(feed) \in Nat /\ \A p \in DOMAIN recs : recs[p].at <= Len(feed)
  BY <1>1 DEF FlowInv
<1>3. l \in {recs[p].link : p \in DOMAIN recs} /\ LinkGeometries(recs)[l] = latestDOTRecordsByLinkID(recs)[l].points
  BY DEF LinkGeometries, latestDOTRecordsByLinkID
<1> HIDE DEF recs
<1>4. PICK p \in DOMAIN recs : latestDOTRecordsByLinkID(recs)[l] = recs[p] /\ recs[p].link = l
  <2>1. PICK N \in Nat : \A p \in DOMAIN recs : recs[p].at <= N
    BY <1>2
  <2> QED
    BY <1>1, <1>3, <2>1, LatestIsNewest
<1> QED
  BY <1>1, <1>3, <1>4 DEF recs

(* What made a link an edge's own stays: records are only added. *)
LEMMA OwnStays ==
  ASSUME NEW e, NEW l, Own(e, l), edges'[e].near = edges[e].near, edges[e].byHand \subseteq edges'[e].byHand,
         DOMAIN feed \subseteq DOMAIN feed', \A i \in DOMAIN feed : feed'[i] = feed[i]
  PROVE  Own(e, l)'
  BY DEF Own, Near

LEMMA FlowInit == Init => FlowInv
<1> SUFFICES ASSUME Init PROVE FlowInv
  OBVIOUS
<1>1. edges = NoneKnown /\ DOMAIN NoneKnown = {} /\ feed = <<>> /\ DOMAIN feed = {}
  BY DEF Init, NoneKnown
<1>2. stage \notin {"edges", "failed"} => Edges = {}
  BY DEF Init
<1> QED
  BY <1>1, <1>2 DEF Init, FlowInv

LEMMA FlowStep == FlowInv /\ [Next]_vars => FlowInv'
<1> SUFFICES ASSUME FlowInv, [Next]_vars PROVE FlowInv'
  OBVIOUS
<1> USE DEF FlowInv
<1>e. Edges' = Edges
  BY DEF Edges
<1>same. ASSUME UNCHANGED <<edges, feed>> PROVE \A e \in DOMAIN edges : \A l \in edges[e].links : Own(e, l)'
  BY <1>same, OwnStays
<1>1. CASE FetchEdgeFails \/ QueryFails
  BY <1>1, <1>e, <1>same DEF FetchEdgeFails, QueryFails, Failing, Goto
<1>2. CASE FetchEdge
  <2> DEFINE left == Edges \ DOMAIN edges
  <2>1. PICK e \in left, road \in Roads :
          edges' = With(edges, e, parseEdge(road)) /\ stage' = IF left = {e} THEN "match" ELSE "edges"
    BY <1>2 DEF FetchEdge, Goto
  <2>2. UNCHANGED <<options, feed, todo>>
    BY <1>2 DEF FetchEdge
  <2>3. parseEdge(road) \in EdgeData /\ parseEdge(road).links = {}
    BY RoadsAssumption DEF parseEdge, EdgeData
  <2>4. /\ DOMAIN edges' = DOMAIN edges \cup {e} /\ edges'[e] = parseEdge(road)
        /\ \A d \in DOMAIN edges : edges'[d] = edges[d]
    BY <2>1 DEF With
  <2>5. ASSUME NEW d \in DOMAIN edges'
        PROVE  edges'[d] \in EdgeData /\ \A l \in edges'[d].links : Own(d, l)'
    <3>1. CASE d \in DOMAIN edges
      BY <2>2, <2>4, <3>1, OwnStays
    <3>2. CASE d = e
      BY <2>3, <2>4, <3>2
    <3> QED
      BY <2>4, <3>1, <3>2
  <2>6. DOMAIN edges' \subseteq Edges /\ (left = {e} => DOMAIN edges' = Edges)
    BY <2>4
  <2> QED
    BY <1>e, <2>1, <2>2, <2>5, <2>6
<1>3. CASE MatchDOTLinks
  <2>1. PICK window \in Replies(Links, MatchLimit) :
          edges' = [e \in DOMAIN edges |->
                      [edges[e] EXCEPT !.links = MatchedIDs(edges[e], LinkGeometries(Read(window)))]]
    BY <1>3 DEF MatchDOTLinks
  <2>2. UNCHANGED <<options, feed>> /\ todo' = uniqueMatchedDOTLinkIDs(edges') /\ stage = "match" /\ stage' = "speeds"
    BY <1>3 DEF MatchDOTLinks, Goto
  <2>3. ASSUME NEW e \in DOMAIN edges
        PROVE  /\ edges'[e] \in EdgeData /\ edges'[e].links \subseteq Links
               /\ \A l \in edges'[e].links : Own(e, l)'
    <3>1. edges[e] \in EdgeData /\ \A l \in edges[e].links : l \in Links /\ Own(e, l)
      BY DEF EdgeData
    <3>2. /\ edges'[e].links = MatchedIDs(edges[e], LinkGeometries(Read(window)))
          /\ edges'[e].near = edges[e].near /\ edges'[e].byHand = edges[e].byHand
          /\ edges'[e] = [near |-> edges[e].near, mph |-> edges[e].mph, byHand |-> edges[e].byHand,
                         links |-> MatchedIDs(edges[e], LinkGeometries(Read(window)))]
      BY <2>1, <3>1 DEF EdgeData
    <3>3. ASSUME NEW l \in MatchedIDs(edges[e], LinkGeometries(Read(window))) PROVE l \in Links /\ Own(e, l)
      <4>1. CASE l \in edges[e].links
        BY <3>1, <4>1
      <4>2. CASE /\ l \in DOMAIN LinkGeometries(Read(window))
                 /\ Near(edges[e], LinkGeometries(Read(window))[l])
        <5>1. PICK i \in DOMAIN feed : feed[i].link = l /\ LinkGeometries(Read(window))[l] = feed[i].points
          BY <4>2, WindowPoints
        <5>2. l \in Links
          BY <4>2, WindowPoints
        <5> QED
          BY <4>2, <5>1, <5>2 DEF Own
      <4> QED
        BY <4>1, <4>2, MatchesAreNear
    <3>4. \A l \in edges'[e].links : l \in Links /\ Own(e, l)'
      BY <2>2, <3>2, <3>3, OwnStays
    <3> QED
      BY <3>1, <3>2, <3>3, <3>4 DEF EdgeData
  <2>4. DOMAIN edges' = DOMAIN edges
    BY <2>1
  <2>5. todo' \subseteq Links
    BY <2>2, <2>3, <2>4 DEF uniqueMatchedDOTLinkIDs
  <2> QED
    BY <1>e, <2>2, <2>3, <2>4, <2>5
<1>4. CASE FetchChunk
  BY <1>4, <1>e, <1>same DEF FetchChunk, Rest
<1>5. CASE ApplyEdgeTraffic
  BY <1>5, <1>e, <1>same DEF ApplyEdgeTraffic, Goto
<1>6. CASE NextRound
  BY <1>6, <1>e, <1>same DEF NextRound, Goto
<1>7. ASSUME NEW l \in Links, Publish(l) PROVE FlowInv'
  <2>1. UNCHANGED <<options, stage, edges, todo>>
    BY <1>7 DEF Publish
  <2>2. \A e \in DOMAIN edges : \A k \in edges[e].links : Own(e, k)'
    BY <1>7, <2>1, FeedGrows, OwnStays
  <2> QED
    BY <1>7, <1>e, <2>1, <2>2, FeedGrows
<1>8. ASSUME NEW l \in Links, NEW e \in DOMAIN edges, MatchByHand(e, l) PROVE FlowInv'
  <2>1. UNCHANGED <<options, stage, feed, todo>>
        /\ edges' = [edges EXCEPT ![e].links = @ \cup {l}, ![e].byHand = @ \cup {l}]
    BY <1>8 DEF MatchByHand
  <2>2. DOMAIN edges' = DOMAIN edges
    BY <2>1
  <2>3. ASSUME NEW d \in DOMAIN edges PROVE edges'[d] \in EdgeData /\ \A k \in edges'[d].links : Own(d, k)'
    <3>1. CASE d # e
      BY <2>1, <3>1, OwnStays
    <3>2. CASE d = e
      <4>1. edges[e] \in EdgeData
        OBVIOUS
      <4>2. /\ edges'[e] = [near |-> edges[e].near, mph |-> edges[e].mph,
                            links |-> edges[e].links \cup {l}, byHand |-> edges[e].byHand \cup {l}]
        BY <2>1, <4>1 DEF EdgeData
      <4>3. Own(e, l)'
        BY <4>2 DEF Own
      <4>4. \A k \in edges[e].links : Own(e, k)'
        BY <2>1, <4>2, OwnStays
      <4> QED
        BY <3>2, <4>1, <4>2, <4>3, <4>4 DEF EdgeData
    <3> QED
      BY <3>1, <3>2
  <2> QED
    BY <1>e, <2>1, <2>2, <2>3
<1>9. CASE UNCHANGED vars
  BY <1>9, <1>e, <1>same DEF vars
<1> QED
  BY <1>1, <1>2, <1>3, <1>4, <1>5, <1>6, <1>7, <1>8, <1>9 DEF Next

----------------------------------------------------------------------------
(* Records already there keep their places when others are appended. *)
LEMMA Appended ==
  ASSUME NEW r \in Seq(Record), NEW n \in Seq(Record)
  PROVE  /\ r \o n \in Seq(Record) /\ Len(r \o n) = Len(r) + Len(n) /\ Len(r) \in Nat /\ Len(n) \in Nat
         /\ \A p \in DOMAIN r : p \in DOMAIN (r \o n) /\ (r \o n)[p] = r[p]
         /\ \A q \in DOMAIN n : Len(r) + q \in DOMAIN (r \o n) /\ (r \o n)[Len(r) + q] = n[q]
         /\ \A p \in DOMAIN (r \o n) : p \in DOMAIN r \/ \E q \in DOMAIN n : p = Len(r) + q
<1>1. /\ Len(r) \in Nat /\ Len(n) \in Nat /\ DOMAIN r = 1..Len(r) /\ DOMAIN n = 1..Len(n)
      /\ r \o n \in Seq(Record) /\ Len(r \o n) = Len(r) + Len(n)
  OBVIOUS
<1>2. DOMAIN (r \o n) = 1..(Len(r) + Len(n))
  BY <1>1
<1>3. \A p \in 1..(Len(r) + Len(n)) : (r \o n)[p] = IF p <= Len(r) THEN r[p] ELSE n[p - Len(r)]
  OBVIOUS
<1>4. ASSUME NEW p \in DOMAIN r PROVE p \in DOMAIN (r \o n) /\ (r \o n)[p] = r[p]
  BY <1>1, <1>2, <1>3
<1>5. ASSUME NEW q \in DOMAIN n PROVE Len(r) + q \in DOMAIN (r \o n) /\ (r \o n)[Len(r) + q] = n[q]
  <2>1. q \in Nat /\ 1 <= q /\ q <= Len(n) /\ Len(r) + q - Len(r) = q /\ ~(Len(r) + q <= Len(r))
    BY <1>1
  <2>2. Len(r) + q \in 1..(Len(r) + Len(n))
    BY <1>1, <2>1
  <2> QED
    BY <1>2, <1>3, <2>1, <2>2
<1>6. ASSUME NEW p \in DOMAIN (r \o n), p \notin DOMAIN r PROVE \E q \in DOMAIN n : p = Len(r) + q
  <2>1. p - Len(r) \in DOMAIN n /\ p = Len(r) + (p - Len(r))
    BY <1>1, <1>2, <1>6
  <2> QED
    BY <2>1
<1> QED
  BY <1>1, <1>4, <1>5, <1>6

(* So the records of the links of a chunk are as many as before, or more,  *)
(* and at least as many as were appended when all of those are of its own. *)
LEMMA ChunkCounted ==
  ASSUME NEW r \in Seq(Record), NEW n \in Seq(Record), NEW K
  PROVE  LET those == {p \in DOMAIN (r \o n) : (r \o n)[p].link \in K} IN
         /\ Cardinality(those) \in Nat /\ Cardinality({p \in DOMAIN r : r[p].link \in K}) \in Nat
         /\ Cardinality({p \in DOMAIN r : r[p].link \in K}) <= Cardinality(those)
         /\ (\A q \in DOMAIN n : n[q].link \in K) => Len(n) <= Cardinality(those)
<1> DEFINE those == {p \in DOMAIN (r \o n) : (r \o n)[p].link \in K}
           before == {p \in DOMAIN r : r[p].link \in K}
           added == (Len(r) + 1)..(Len(r) + Len(n))
<1>1. IsFiniteSet(those) /\ Cardinality(those) \in Nat
  <2>1. DOMAIN (r \o n) = 1..(Len(r) + Len(n)) /\ Len(r) + Len(n) \in Nat
    BY Appended
  <2>2. IsFiniteSet(1..(Len(r) + Len(n))) /\ those \subseteq 1..(Len(r) + Len(n))
    BY <2>1, FS_Interval
  <2> HIDE DEF those
  <2> QED
    BY <2>2, FS_Subset, FS_CardinalityType
<1>2. before \subseteq those
  BY Appended
<1>3. Cardinality(before) \in Nat /\ Cardinality(before) <= Cardinality(those)
  <2> HIDE DEF before, those
  <2> QED
    BY <1>1, <1>2, FS_Subset, FS_CardinalityType
<1>4. ASSUME \A q \in DOMAIN n : n[q].link \in K PROVE Len(n) <= Cardinality(those)
  <2>1. Len(r) \in Nat /\ Len(n) \in Nat /\ DOMAIN n = 1..Len(n)
    OBVIOUS
  <2>2. IsFiniteSet(added) /\ Cardinality(added) = Len(n)
    <3>1. PICK a \in Int, b \in Int : a = Len(r) + 1 /\ b = Len(r) + Len(n)
      BY <2>1
    <3>2. IsFiniteSet(a..b) /\ Cardinality(a..b) = IF a > b THEN 0 ELSE b - a + 1
      BY FS_Interval
    <3>3. added = a..b
      BY <3>1
    <3> HIDE DEF added
    <3> QED
      BY <2>1, <3>1, <3>2, <3>3
  <2>3. added \subseteq those
    <3> SUFFICES ASSUME NEW p \in added PROVE p \in those
      OBVIOUS
    <3>1. PICK q \in DOMAIN n : p = Len(r) + q
      <4>1. p - Len(r) \in 1..Len(n) /\ p = Len(r) + (p - Len(r))
        BY <2>1
      <4> QED
        BY <2>1, <4>1
    <3> QED
      BY <1>4, <3>1, Appended
  <2> HIDE DEF added, those
  <2> QED
    BY <1>1, <2>2, <2>3, FS_Subset
<1> HIDE DEF before, those
<1>5. (\A q \in DOMAIN n : n[q].link \in K) => Len(n) <= Cardinality(those)
  BY <1>4
<1> QED
  BY <1>1, <1>3, <1>5 DEF before, those

LEMMA ChunkAppended ==
  ASSUME NEW r \in Seq(Record), NEW n \in Seq(Record), NEW K, \A q \in DOMAIN n : n[q].link \in K
  PROVE  LET those == {p \in DOMAIN (r \o n) : (r \o n)[p].link \in K} IN
         Cardinality(those) \in Nat /\ Len(n) <= Cardinality(those)
BY ChunkCounted

(* The limit of a chunk's query is at least that of one link, and two      *)
(* links in one chunk mean that chunks are not of one link each.           *)
LEMMA SharedChunk ==
  ASSUME FlowInv, NEW k \in Chunk, NEW l \in Chunk
  PROVE  /\ Cardinality(Chunk) * options.limitPerLink \in Nat
         /\ options.limitPerLink <= Cardinality(Chunk) * options.limitPerLink
         /\ k # l => options.chunkSize > 1
<1>1. options.limitPerLink \in Nat /\ options.chunkSize \in Nat
  BY OptionsAssumption DEF FlowInv
<1>2. todo \subseteq Links /\ IsFiniteSet(todo) /\ Chunk \subseteq todo /\ IsFiniteSet(Chunk) /\ Links \subseteq Nat
  BY LinksAssumption, FS_Subset DEF FlowInv, Chunk
<1>3. Cardinality(Chunk) \in Nat
  BY <1>2, FS_CardinalityType
<1>4. 1 <= Cardinality(Chunk)
  BY <1>2, <1>3, FS_EmptySet
<1>5. 1 * options.limitPerLink <= Cardinality(Chunk) * options.limitPerLink
  BY <1>1, <1>3, <1>4, ProductsGrow
<1>6. ASSUME NEW a \in Chunk, NEW b \in Chunk, a < b PROVE options.chunkSize > 1
  <2> DEFINE smaller == {c \in todo : c < b}
  <2>1. IsFiniteSet(smaller) /\ a \in smaller
    BY <1>2, <1>6, FS_Subset
  <2>2. Cardinality(smaller) \in Nat /\ Cardinality(smaller) # 0
    <3> HIDE DEF smaller
    <3> QED
      BY <2>1, FS_CardinalityType, FS_EmptySet
  <2>3. Cardinality(smaller) < options.chunkSize
    BY DEF Chunk, Smaller
  <2> HIDE DEF smaller
  <2> QED
    BY <1>1, <2>2, <2>3
<1>7. k # l => options.chunkSize > 1
  BY <1>2, <1>6
<1>8. Cardinality(Chunk) * options.limitPerLink \in Nat /\ 1 * options.limitPerLink = options.limitPerLink
  BY <1>1, <1>3
<1> QED
  BY <1>5, <1>7, <1>8

(* A chunk is cut while any link is left: the smallest is in it. *)
LEMMA FirstChunk ==
  ASSUME FlowInv, todo # {} PROVE Chunk # {}
<1>1. todo \in SUBSET Nat
  BY LinksAssumption DEF FlowInv
<1>2. PICK l \in todo : \A k \in todo : l <= k
  BY <1>1, LeastNumber
<1>3. \A k \in todo : ~(k < l)
  BY <1>1, <1>2
<1>4. Smaller(l) = 0
  <2>1. {k \in todo : k < l} = {}
    BY <1>3
  <2> QED
    BY <2>1, FS_EmptySet DEF Smaller
<1>5. options.chunkSize \in Nat \ {0}
  BY OptionsAssumption DEF FlowInv
<1> QED
  BY <1>4, <1>5 DEF Chunk

(* FetchChunk keeps what is known of the links fetched before. *)
LEMMA FetchedBefore ==
  ASSUME FlowInv, FetchInv, FetchChunk, NEW l \in DOMAIN asked
  PROVE  Fetched(l)'
<1> DEFINE limit == Cardinality(Chunk) * options.limitPerLink
<1>1. PICK reply \in Replies(Chunk, limit) : records' = records \o Read(reply)
  BY DEF FetchChunk
<1>2. UNCHANGED <<options, feed>> /\ stage = "speeds" /\ Chunk \subseteq todo /\ todo # {}
  BY DEF FetchChunk, Chunk
<1>3. asked'[l] = asked[l]
  BY <1>2 DEF FetchChunk, FetchInv
<1>4. limit \in Nat
  <2>1. PICK k \in Chunk : TRUE
    BY <1>2, FirstChunk
  <2> QED
    BY <2>1, SharedChunk
<1> HIDE DEF limit
<1>5. Read(reply) \in Seq(Record) /\ \A q \in DOMAIN Read(reply) : Read(reply)[q].link # l
  <2>1. l \notin Chunk
    BY <1>2 DEF FetchInv
  <2> QED
    BY <1>4, <2>1, RepliesRead
<1> DEFINE new == Read(reply)
<1>6. records \in Seq(Record) /\ Covered(l) /\ HeardOf(l) /\ asked[l] \in [chunk : SUBSET Links, at : 0..Len(feed)]
  BY <1>2 DEF FetchInv, Fetched
<1> HIDE DEF new
<1>7. new \in Seq(Record) /\ records' = records \o new /\ \A q \in DOMAIN new : new[q].link # l
  BY <1>1, <1>5 DEF new
<1>8. \A p \in DOMAIN records : p \in DOMAIN records' /\ records'[p] = records[p]
  BY <1>6, <1>7, Appended
<1>9. \A p \in DOMAIN records' : records'[p].link = l => p \in DOMAIN records
  BY <1>6, <1>7, Appended
<1>10. options.limitPerLink \in Nat
  BY OptionsAssumption DEF FlowInv
<1>11. ReplyFull(l) => ReplyFull(l)'
  <2> DEFINE K == asked[l].chunk
             those == {p \in DOMAIN records : records[p].link \in K}
             later == {p \in DOMAIN (records \o new) : (records \o new)[p].link \in K}
  <2>1. Cardinality(those) \in Nat /\ Cardinality(later) \in Nat /\ Cardinality(those) <= Cardinality(later)
    <3> HIDE DEF K
    <3> QED
      BY <1>6, <1>7, ChunkCounted
  <2>2. Cardinality(K) * options.limitPerLink \in Nat
    <3>1. K \subseteq Links
      BY <1>6
    <3>2. Cardinality(K) \in Nat
      BY <3>1, LinksAssumption, FS_Subset, FS_CardinalityType
    <3> HIDE DEF K
    <3> QED
      BY <1>10, <3>2
  <2>3. ReplyFull(l) <=> Cardinality(those) >= Cardinality(K) * options.limitPerLink
    BY DEF ReplyFull
  <2>4. ReplyFull(l)' <=> Cardinality(later) >= Cardinality(K) * options.limitPerLink
    BY <1>2, <1>3, <1>7 DEF ReplyFull
  <2> HIDE DEF K, those, later
  <2> QED
    BY <2>1, <2>2, <2>3, <2>4
<1>12. Covered(l)'
  <2> SUFFICES ASSUME NEW i \in 1..asked[l].at, feed[i].link = l, Dated(feed[i])
               PROVE  \/ \E p \in DOMAIN records' : records'[p].link = l /\ feed[i].at <= records'[p].at
                      \/ /\ \A p \in DOMAIN records' : records'[p].link = l => ~Dated(records'[p])
                         /\ ReplyFull(l)'
    BY <1>2, <1>3 DEF Covered, Dated
  <2>1. CASE \E p \in DOMAIN records : records[p].link = l /\ feed[i].at <= records[p].at
    BY <1>8, <2>1
  <2>2. CASE (\A p \in DOMAIN records : records[p].link = l => ~Dated(records[p])) /\ ReplyFull(l)
    BY <1>8, <1>9, <1>11, <2>2
  <2> QED
    BY <1>6, <2>1, <2>2 DEF Covered
<1>13. HeardOf(l)'
  <2>1. CASE \E p \in DOMAIN records : records[p].link = l
    BY <1>8, <2>1 DEF HeardOf
  <2>2. CASE \A i \in 1..asked[l].at : feed[i].link # l
    BY <1>2, <1>3, <2>2 DEF HeardOf
  <2>3. CASE options.chunkSize > 1 /\ ReplyFull(l)
    BY <1>2, <1>11, <2>3 DEF HeardOf
  <2> QED
    BY <1>6, <2>1, <2>2, <2>3 DEF HeardOf
<1> QED
  BY <1>2, <1>3, <1>6, <1>12, <1>13 DEF Fetched

(* It learns of the links in the chunk what the feed holds of them. *)
LEMMA FetchedNow ==
  ASSUME FlowInv, FetchInv, FetchChunk, NEW l \in Chunk
  PROVE  Fetched(l)'
<1> DEFINE limit == Cardinality(Chunk) * options.limitPerLink
<1>1. PICK reply \in Replies(Chunk, limit) : records' = records \o Read(reply)
  BY DEF FetchChunk
<1>2. UNCHANGED <<options, feed>> /\ stage = "speeds" /\ l \in todo
  BY DEF FetchChunk, Chunk
<1>3. asked'[l] = [chunk |-> Chunk, at |-> Len(feed)] /\ Chunk \subseteq Links /\ Len(feed) \in Nat
  BY DEF FetchChunk, Chunk, FlowInv
<1>4. limit \in Nat /\ options.limitPerLink <= limit /\ options.limitPerLink \in Nat \ {0}
  BY SharedChunk, OptionsAssumption DEF FlowInv
<1>5. \A k \in Chunk : k # l => options.chunkSize > 1
  BY SharedChunk
<1> HIDE DEF limit
<1> DEFINE new == Read(reply)
<1>6. /\ new \in Seq(Record)
      /\ \A q \in DOMAIN new : new[q].link \in Chunk /\ \E i \in DOMAIN feed : new[q] = feed[i]
      /\ \A i \in DOMAIN feed :
           feed[i].link = l => \/ \E q \in DOMAIN new : new[q] = feed[i]
                               \/ Len(new) = limit /\ \A q \in DOMAIN new : MayPrecede(new[q], feed[i])
  BY <1>4, RepliesRead
<1> HIDE DEF new
<1>7. records' = records \o new /\ records \in Seq(Record) /\ DOMAIN feed = 1..Len(feed)
  BY <1>1, <1>2 DEF new, FetchInv, FlowInv
<1>8. \A q \in DOMAIN new : Len(records) + q \in DOMAIN records' /\ records'[Len(records) + q] = new[q]
  BY <1>6, <1>7, Appended
<1>9. ASSUME NEW p \in DOMAIN records', records'[p].link = l
      PROVE  \E q \in DOMAIN new : p = Len(records) + q /\ records'[p] = new[q]
  <2>1. p \notin DOMAIN records
    <3> SUFFICES ASSUME p \in DOMAIN records PROVE FALSE
      OBVIOUS
    <3>1. records'[p] = records[p]
      BY <1>6, <1>7, Appended
    <3>2. records[p].link \in DOMAIN asked /\ l \notin DOMAIN asked
      BY <1>2 DEF FetchInv
    <3> QED
      BY <1>9, <3>1, <3>2
  <2>2. PICK q \in DOMAIN new : p = Len(records) + q
    BY <1>6, <1>7, <2>1, Appended
  <2> QED
    BY <1>8, <2>2
<1>10. Len(new) = limit => ReplyFull(l)'
  <2> DEFINE later == {p \in DOMAIN (records \o new) : (records \o new)[p].link \in Chunk}
  <2>1. Len(new) <= Cardinality(later) /\ Cardinality(later) \in Nat
    <3>1. new \in Seq(Record) /\ records \in Seq(Record) /\ \A q \in DOMAIN new : new[q].link \in Chunk
      BY <1>6, <1>7
    <3> QED
      BY <3>1, Zenon, ChunkAppended
  <2>2. asked'[l].chunk = Chunk /\ options' = options /\ records' = records \o new
    BY <1>2, <1>3, <1>7
  <2>3. {p \in DOMAIN records' : records'[p].link \in asked'[l].chunk} = later
    BY <2>2
  <2>4. limit = Cardinality(Chunk) * options.limitPerLink /\ Len(new) \in Nat
    BY <1>6 DEF limit
  <2> HIDE DEF later
  <2>5. ReplyFull(l)' <=> Cardinality(later) >= Cardinality(Chunk) * options.limitPerLink
    BY <2>2, <2>3 DEF ReplyFull
  <2> QED
    BY <1>4, <2>1, <2>4, <2>5
<1>11. Covered(l)'
  <2> SUFFICES ASSUME NEW i \in 1..Len(feed), feed[i].link = l, Dated(feed[i])
               PROVE  \/ \E p \in DOMAIN records' : records'[p].link = l /\ feed[i].at <= records'[p].at
                      \/ /\ \A p \in DOMAIN records' : records'[p].link = l => ~Dated(records'[p])
                         /\ ReplyFull(l)'
    BY <1>2, <1>3 DEF Covered, Dated
  <2>1. \A p \in DOMAIN feed : feed[p].at \in Nat
    <3>1. \A p \in DOMAIN feed : feed[p] \in Record
      BY DEF FlowInv
    <3> QED
      BY <3>1 DEF Record
  <2>2. CASE \E q \in DOMAIN new : new[q] = feed[i]
    <3>1. PICK q \in DOMAIN new : new[q] = feed[i]
      BY <2>2
    <3>2. /\ Len(records) + q \in DOMAIN records' /\ records'[Len(records) + q].link = l
          /\ feed[i].at <= records'[Len(records) + q].at
      BY <1>7, <1>8, <2>1, <3>1
    <3> QED
      BY <3>2
  <2>3. CASE \E p \in DOMAIN records' : records'[p].link = l /\ Dated(records'[p])
    <3>1. PICK q \in DOMAIN new : new[q].link = l /\ Dated(new[q])
      BY <1>9, <2>3 DEF Dated
    <3>2. CASE \E k \in DOMAIN new : new[k] = feed[i]
      BY <2>2, <3>2
    <3>3. CASE MayPrecede(new[q], feed[i])
      <4>1. new[q].at > feed[i].at
        BY <3>1, <3>3 DEF MayPrecede
      <4>2. PICK j \in DOMAIN feed : new[q] = feed[j]
        BY <1>6
      <4>3. feed[i].at \in Nat /\ new[q].at \in Nat
        BY <1>7, <2>1, <4>2
      <4>4. feed[i].at <= new[q].at
        BY <4>1, <4>3
      <4> QED
        BY <1>8, <3>1, <4>4
    <3> QED
      BY <1>6, <1>7, <3>2, <3>3
  <2>4. CASE Len(new) = limit /\ ~ \E p \in DOMAIN records' : records'[p].link = l /\ Dated(records'[p])
    BY <1>10, <2>4
  <2> QED
    BY <1>6, <1>7, <2>2, <2>3, <2>4
<1>12. HeardOf(l)'
  <2> SUFFICES ASSUME \A p \in DOMAIN records' : records'[p].link # l, NEW i \in 1..Len(feed), feed[i].link = l
               PROVE  options.chunkSize > 1 /\ ReplyFull(l)'
    BY <1>2, <1>3 DEF HeardOf
  <2>1. \A q \in DOMAIN new : new[q].link # l
    BY <1>8
  <2>2. Len(new) = limit
    BY <1>6, <1>7, <2>1
  <2>3. 1 \in DOMAIN new
    BY <1>4, <1>6, <2>2
  <2> QED
    BY <1>5, <1>6, <1>10, <2>1, <2>2, <2>3
<1> QED
  BY <1>2, <1>3, <1>11, <1>12 DEF Fetched

LEMMA FetchStep == FlowInv /\ FetchInv /\ [Next]_vars => FetchInv'
<1> SUFFICES ASSUME FlowInv, FetchInv, [Next]_vars PROVE FetchInv'
  OBVIOUS
<1>same. ASSUME UNCHANGED <<options, edges, feed, todo, records, asked>>,
                stage' \in {"speeds", "done"} => stage \in {"speeds", "done"}, stage' = "done" => todo = {}
         PROVE  FetchInv'
  <2> SUFFICES ASSUME stage \in {"speeds", "done"} PROVE FetchInv'
    BY <1>same DEF FetchInv
  <2>1. ASSUME NEW l \in DOMAIN asked PROVE Fetched(l)'
    <3>1. Fetched(l) /\ (ReplyFull(l)' <=> ReplyFull(l))
      BY <1>same DEF FetchInv, ReplyFull
    <3>2. Covered(l)'
      BY <1>same, <3>1 DEF Fetched, Covered, Dated
    <3>3. HeardOf(l)'
      BY <1>same, <3>1 DEF Fetched, HeardOf
    <3> QED
      BY <1>same, <3>1, <3>2, <3>3 DEF Fetched
  <2>2. uniqueMatchedDOTLinkIDs(edges') = uniqueMatchedDOTLinkIDs(edges)
    BY <1>same
  <2> QED
    BY <1>same, <2>1, <2>2 DEF FetchInv
<1>1. CASE FetchEdgeFails \/ QueryFails
  BY <1>1 DEF FetchEdgeFails, QueryFails, Failing, Goto, FetchInv
<1>2. CASE FetchEdge
  BY <1>2 DEF FetchEdge, Goto, FetchInv
<1>3. CASE MatchDOTLinks
  <2>1. records' = <<>> /\ DOMAIN asked' = {} /\ todo' = uniqueMatchedDOTLinkIDs(edges') /\ stage' = "speeds"
    BY <1>3 DEF MatchDOTLinks, Goto, NoneKnown
  <2> QED
    BY <2>1 DEF FetchInv
<1>4. CASE FetchChunk
  <2>1. UNCHANGED <<options, stage, edges, feed>> /\ stage = "speeds" /\ todo # {} /\ todo' = todo \ Chunk
        /\ DOMAIN asked' = DOMAIN asked \cup Chunk /\ Chunk \subseteq todo
    BY <1>4 DEF FetchChunk, Rest, Chunk
  <2>2. ASSUME NEW l \in DOMAIN asked' PROVE Fetched(l)'
    <3>1. CASE l \in DOMAIN asked
      BY <1>4, <3>1, FetchedBefore
    <3>2. CASE l \in Chunk
      BY <1>4, <3>2, FetchedNow
    <3> QED
      BY <2>1, <3>1, <3>2
  <2>3. PICK reply \in Replies(Chunk, Cardinality(Chunk) * options.limitPerLink) : records' = records \o Read(reply)
    BY <1>4 DEF FetchChunk
  <2>4. /\ Read(reply) \in Seq(Record)
        /\ \A q \in DOMAIN Read(reply) :
             Read(reply)[q].link \in Chunk /\ \E i \in DOMAIN feed : Read(reply)[q] = feed[i]
    <3>1. Cardinality(Chunk) * options.limitPerLink \in Nat
      BY <2>1, FirstChunk, SharedChunk
    <3> QED
      BY <3>1, RepliesRead
  <2>5. /\ records \in Seq(Record)
        /\ \A p \in DOMAIN records : records[p].link \in DOMAIN asked /\ \E i \in DOMAIN feed : records[p] = feed[i]
    BY <2>1 DEF FetchInv
  <2>6. records' \in Seq(Record)
    BY <2>3, <2>4, <2>5, Appended
  <2>7. ASSUME NEW p \in DOMAIN records'
        PROVE  records'[p].link \in DOMAIN asked' /\ \E i \in DOMAIN feed' : records'[p] = feed'[i]
    <3>1. CASE p \in DOMAIN records
      <4>1. records'[p] = records[p]
        BY <2>3, <2>4, <2>5, <3>1, Appended
      <4> QED
        BY <2>1, <2>5, <3>1, <4>1
    <3>2. CASE \E q \in DOMAIN Read(reply) : p = Len(records) + q
      <4>1. PICK q \in DOMAIN Read(reply) : records'[p] = Read(reply)[q]
        BY <2>3, <2>4, <2>5, <3>2, Appended
      <4> QED
        BY <2>1, <2>4, <4>1
    <3> QED
      BY <2>3, <2>4, <2>5, <3>1, <3>2, Appended
  <2>8. DOMAIN asked' \cap todo' = {} /\ uniqueMatchedDOTLinkIDs(edges') \subseteq DOMAIN asked' \cup todo'
    BY <2>1 DEF FetchInv
  <2>9. stage' # "done"
    BY <2>1
  <2> QED
    BY <2>2, <2>6, <2>7, <2>8, <2>9 DEF FetchInv
<1>5. CASE ApplyEdgeTraffic
  <2>1. UNCHANGED <<options, edges, feed, todo, records, asked>> /\ stage = "speeds" /\ todo = {}
    BY <1>5 DEF ApplyEdgeTraffic
  <2> QED
    BY <1>same, <2>1
<1>6. CASE NextRound
  BY <1>6 DEF NextRound, Goto, FetchInv
<1>7. ASSUME NEW k \in Links, Publish(k) PROVE FetchInv'
  <2>1. UNCHANGED <<options, stage, edges, todo, records, asked>>
    BY <1>7 DEF Publish
  <2>2. /\ Len(feed) \in Nat /\ Len(feed') = Len(feed) + 1 /\ DOMAIN feed \subseteq DOMAIN feed'
        /\ DOMAIN feed = 1..Len(feed) /\ \A i \in DOMAIN feed : feed'[i] = feed[i]
    BY <1>7, FeedGrows DEF FlowInv
  <2> SUFFICES ASSUME stage \in {"speeds", "done"} PROVE FetchInv'
    BY <2>1 DEF FetchInv
  <2>3. \A p \in DOMAIN records : records[p].link \in DOMAIN asked /\ \E i \in DOMAIN feed' : records[p] = feed'[i]
    BY <2>2 DEF FetchInv
  <2>4. ASSUME NEW l \in DOMAIN asked PROVE Fetched(l)'
    <3>1. Fetched(l) /\ (ReplyFull(l)' <=> ReplyFull(l)) /\ asked[l] \in [chunk : SUBSET Links, at : 0..Len(feed)]
      BY <2>1 DEF FetchInv, ReplyFull, Fetched
    <3>2. /\ \A i \in 1..asked[l].at : feed'[i] = feed[i]
          /\ asked[l] \in [chunk : SUBSET Links, at : 0..Len(feed')]
      BY <2>2, <3>1
    <3>3. Covered(l)'
      BY <2>1, <3>1, <3>2 DEF Fetched, Covered, Dated
    <3>4. HeardOf(l)'
      BY <2>1, <3>1, <3>2 DEF Fetched, HeardOf
    <3> QED
      BY <2>1, <3>2, <3>3, <3>4 DEF Fetched
  <2> QED
    BY <2>1, <2>3, <2>4 DEF FetchInv
<1>8. ASSUME NEW k \in Links, NEW e \in DOMAIN edges, MatchByHand(e, k) PROVE FetchInv'
  BY <1>8 DEF MatchByHand, FetchInv
<1>9. CASE UNCHANGED vars
  BY <1>9, <1>same DEF vars, FetchInv
<1> QED
  BY <1>1, <1>2, <1>3, <1>4, <1>5, <1>6, <1>7, <1>8, <1>9 DEF Next

----------------------------------------------------------------------------
(* What an edge's own links have published stays published. *)
LEMMA HeardSpeeds ==
  ASSUME FlowInv, NEW e PROVE Heard(e) \subseteq Nat \ {0}
<1>1. \A i \in DOMAIN feed : feed[i] \in Record
  BY DEF FlowInv
<1> QED
  BY <1>1 DEF Heard, Record

LEMMA OwnKept ==
  ASSUME FlowInv, [Next]_vars, NEW e \in DOMAIN edges
  PROVE  e \in DOMAIN edges' /\ edges'[e].mph = edges[e].mph /\ Heard(e) \subseteq Heard(e)'
<1>1. ASSUME e \in DOMAIN edges', edges'[e].mph = edges[e].mph, edges'[e].near = edges[e].near,
             edges[e].byHand \subseteq edges'[e].byHand,
             DOMAIN feed \subseteq DOMAIN feed', \A i \in DOMAIN feed : feed'[i] = feed[i]
      PROVE  e \in DOMAIN edges' /\ edges'[e].mph = edges[e].mph /\ Heard(e) \subseteq Heard(e)'
  <2>1. ASSUME NEW l, Own(e, l) PROVE Own(e, l)'
    BY <1>1, <2>1, OwnStays
  <2> QED
    BY <1>1, <2>1 DEF Heard
<1>2. CASE FetchEdge
  <2>1. PICK d \in Edges \ DOMAIN edges, road \in Roads : edges' = With(edges, d, parseEdge(road))
    BY <1>2 DEF FetchEdge
  <2>2. e \in DOMAIN edges' /\ edges'[e] = edges[e] /\ feed' = feed
    BY <1>2, <2>1 DEF FetchEdge, With
  <2> QED
    BY <1>1, <2>2
<1>3. CASE MatchDOTLinks
  <2>1. PICK window \in Replies(Links, MatchLimit) :
          edges' = [d \in DOMAIN edges |->
                      [edges[d] EXCEPT !.links = MatchedIDs(edges[d], LinkGeometries(Read(window)))]]
    BY <1>3 DEF MatchDOTLinks
  <2>2. edges[e] \in EdgeData /\ feed' = feed
    BY <1>3 DEF MatchDOTLinks, FlowInv
  <2>3. /\ e \in DOMAIN edges' /\ edges'[e].mph = edges[e].mph /\ edges'[e].near = edges[e].near
        /\ edges'[e].byHand = edges[e].byHand
    BY <2>1, <2>2 DEF EdgeData
  <2> QED
    BY <1>1, <2>2, <2>3
<1>4. ASSUME NEW l \in Links, Publish(l) PROVE edges' = edges /\ DOMAIN feed \subseteq DOMAIN feed'
                                               /\ \A i \in DOMAIN feed : feed'[i] = feed[i]
  BY <1>4, FeedGrows DEF Publish
<1>5. CASE \/ FetchEdgeFails \/ QueryFails \/ FetchChunk \/ ApplyEdgeTraffic \/ NextRound \/ UNCHANGED vars
  BY <1>1, <1>5 DEF FetchEdgeFails, QueryFails, Failing, FetchChunk, ApplyEdgeTraffic, NextRound, vars
<1>6. ASSUME NEW l \in Links, NEW d \in DOMAIN edges, MatchByHand(d, l)
      PROVE  e \in DOMAIN edges' /\ edges'[e].mph = edges[e].mph /\ Heard(e) \subseteq Heard(e)'
  <2>1. edges' = [edges EXCEPT ![d].links = @ \cup {l}, ![d].byHand = @ \cup {l}] /\ feed' = feed
    BY <1>6 DEF MatchByHand
  <2>2. edges[e] \in EdgeData
    BY DEF FlowInv
  <2>3. /\ e \in DOMAIN edges' /\ edges'[e].mph = edges[e].mph /\ edges'[e].near = edges[e].near
        /\ edges[e].byHand \subseteq edges'[e].byHand
    BY <2>1, <2>2 DEF EdgeData
  <2> QED
    BY <1>1, <2>1, <2>3
<1> QED
  BY <1>1, <1>2, <1>3, <1>4, <1>5, <1>6 DEF Next

(* Of two factors of an edge's own links, both lie between two such speeds. *)
LEMMA WiderFactors ==
  ASSUME FlowInv, NEW e \in DOMAIN edges, NEW c, NEW m, OwnFactor(e, c), OwnFactor(e, m)
  PROVE  /\ c \in Int /\ m \in Int
         /\ \E low, high \in Heard(e) :
              /\ Factor(e, high) \in Int /\ Factor(e, high) <= c /\ Factor(e, high) <= m
              /\ Factor(e, low) \in Int /\ c <= Factor(e, low) /\ m <= Factor(e, low)
<1>1. PICK low1 \in Heard(e), high1 \in Heard(e) : Factor(e, high1) <= c /\ c <= Factor(e, low1)
  BY DEF OwnFactor
<1>2. PICK low2 \in Heard(e), high2 \in Heard(e) : Factor(e, high2) <= m /\ m <= Factor(e, low2)
  BY DEF OwnFactor
<1>3. \A x, y \in Heard(e) : Factor(e, x) \in Int /\ (x <= y => Factor(e, y) <= Factor(e, x))
  <2> TAKE x, y \in Heard(e)
  <2>1. x \in Nat \ {0} /\ y \in Nat \ {0}
    BY HeardSpeeds
  <2>2. 100 * edges[e].mph \in Nat
    <3>1. edges[e] \in EdgeData
      BY DEF FlowInv
    <3> QED
      BY <3>1 DEF EdgeData
  <2> QED
    BY <2>1, <2>2, Quotient, QuotientsFall DEF Factor
<1>4. \A x, y \in Heard(e) : x <= y \/ y <= x
  BY HeardSpeeds
<1>5. c \in Int /\ m \in Int
  BY DEF OwnFactor
<1>6. PICK high \in Heard(e) : Factor(e, high) <= Factor(e, high1) /\ Factor(e, high) <= Factor(e, high2)
  <2>1. Factor(e, high1) <= Factor(e, high1) /\ Factor(e, high2) <= Factor(e, high2)
    BY <1>3
  <2> QED
    BY <1>3, <1>4, <2>1
<1>7. PICK low \in Heard(e) : Factor(e, low1) <= Factor(e, low) /\ Factor(e, low2) <= Factor(e, low)
  <2>1. Factor(e, low1) <= Factor(e, low1) /\ Factor(e, low2) <= Factor(e, low2)
    BY <1>3
  <2> QED
    BY <1>3, <1>4, <2>1
<1>8. /\ Factor(e, high) \in Int /\ Factor(e, high) <= c /\ Factor(e, high) <= m
      /\ Factor(e, low) \in Int /\ c <= Factor(e, low) /\ m <= Factor(e, low)
  <2>1. Factor(e, high) \in Int /\ Factor(e, high1) \in Int /\ Factor(e, high2) \in Int
        /\ Factor(e, low) \in Int /\ Factor(e, low1) \in Int /\ Factor(e, low2) \in Int
    BY <1>3
  <2> QED
    BY <1>1, <1>2, <1>5, <1>6, <1>7, <2>1
<1> QED
  BY <1>5, <1>8

(* The record a link speaks with is one of its own, published. *)
LEMMA LatestHeard ==
  ASSUME FlowInv, FetchInv, stage = "speeds", NEW e \in DOMAIN edges,
         NEW l \in Speeding(edges[e], latestDOTRecordsByLinkID(records))
  PROVE  latestDOTRecordsByLinkID(records)[l].speed \in Heard(e)
<1>1. records \in Seq(Record) /\ \A p \in DOMAIN records : \E i \in DOMAIN feed : records[p] = feed[i]
  BY DEF FetchInv
<1>2. \A p \in DOMAIN records : records[p].at <= Len(feed) /\ records[p].speed \in Nat
  <2>1. \A p \in DOMAIN records : records[p] \in Record
    BY <1>1
  <2> QED
    BY <1>1, <2>1 DEF FlowInv, Record
<1>3. l \in {records[p].link : p \in DOMAIN records} /\ l \in edges[e].links
      /\ latestDOTRecordsByLinkID(records)[l].speed > 0
  BY DEF Speeding, latestDOTRecordsByLinkID
<1>4. Len(feed) \in Nat
  BY DEF FlowInv
<1>5. PICK p \in DOMAIN records : latestDOTRecordsByLinkID(records)[l] = records[p] /\ records[p].link = l
  <2>1. PICK N \in Nat : \A p \in DOMAIN records : records[p].at <= N
    BY <1>2, <1>4
  <2> HIDE DEF FlowInv, FetchInv
  <2> QED
    BY <1>1, <1>3, <2>1, LatestIsNewest
<1>6. PICK i \in DOMAIN feed : records[p] = feed[i]
  BY <1>1
<1>7. Own(e, feed[i].link) /\ feed[i].speed # 0
  BY <1>2, <1>3, <1>5, <1>6 DEF FlowInv
<1> QED
  BY <1>5, <1>6, <1>7 DEF Heard

LEMMA CurrentIsOwn ==
  ASSUME FlowInv, FetchInv, stage = "speeds", NEW e \in DOMAIN edges,
         Speeding(edges[e], latestDOTRecordsByLinkID(records)) # {}
  PROVE  OwnFactor(e, currentMultiplier(edges[e], latestDOTRecordsByLinkID(records)))
<1> DEFINE latest == latestDOTRecordsByLinkID(records)
           S == Speeding(edges[e], latest)
           a == 100 * edges[e].mph
<1>1. edges[e] \in EdgeData /\ a \in Nat
  BY DEF FlowInv, EdgeData
<1>2. IsFiniteSet(S)
  <2>1. S \subseteq Links
    BY <1>1 DEF Speeding, EdgeData
  <2> QED
    BY <2>1, LinksAssumption, FS_Subset
<1>3. \A l \in S : latest[l].speed \in Heard(e) /\ latest[l].speed \in Nat \ {0}
  BY LatestHeard, HeardSpeeds
<1>4. currentMultiplier(edges[e], latest)
        = (a * Cardinality(S)) \div MapThenSumSet(LAMBDA l : latest[l].speed, S)
  BY DEF currentMultiplier
<1> HIDE DEF latest, S, a
<1>5. Cardinality(S) \in Nat \ {0}
  BY <1>2, FS_CardinalityType, FS_EmptySet DEF S, latest
<1>6. PICK total \in Nat, low \in S, high \in S :
        /\ total = MapThenSumSet(LAMBDA l : latest[l].speed, S)
        /\ latest[low].speed * Cardinality(S) <= total /\ total <= latest[high].speed * Cardinality(S)
  <2>1. S # {}
    BY DEF S, latest
  <2> QED
    BY <1>2, <1>3, <2>1, SpeedsAddUp
<1>7. PICK x \in Nat \ {0}, y \in Nat \ {0} : x = latest[low].speed /\ y = latest[high].speed
  BY <1>3
<1>8. PICK n \in Nat \ {0} : n = Cardinality(S)
  BY <1>5
<1>9. (a * n) \div total \in Int /\ a \div y <= (a * n) \div total /\ (a * n) \div total <= a \div x
  BY <1>1, <1>6, <1>7, <1>8, AverageBetween
<1>10. currentMultiplier(edges[e], latest) = (a * n) \div total
  BY <1>4, <1>6, <1>8
<1>11. x \in Heard(e) /\ y \in Heard(e) /\ Factor(e, x) = a \div x /\ Factor(e, y) = a \div y
  BY <1>3, <1>7 DEF Factor, a
<1>12. OwnFactor(e, currentMultiplier(edges[e], latest))
  BY <1>9, <1>10, <1>11 DEF OwnFactor
<1> QED
  BY <1>12 DEF latest

LEMMA SmoothedIsOwn ==
  ASSUME FlowInv, FetchInv, MultipliersInv, stage = "speeds", options.alpha \in 1..100, NEW e \in DOMAIN edges,
         Speeding(edges[e], latestDOTRecordsByLinkID(records)) # {}
  PROVE  OwnFactor(e, Smoothed(e, latestDOTRecordsByLinkID(records)))
<1>1. PICK c : c = currentMultiplier(edges[e], latestDOTRecordsByLinkID(records)) /\ OwnFactor(e, c)
  BY CurrentIsOwn
<1>2. CASE e \notin DOMAIN multipliers
  BY <1>1, <1>2 DEF Smoothed, PreviousKey
<1>3. CASE e \in DOMAIN multipliers
  <2>1. PICK m : m = multipliers[e] /\ OwnFactor(e, m)
    BY <1>3 DEF MultipliersInv
  <2>2. PICK low \in Heard(e), high \in Heard(e) :
          /\ c \in Int /\ m \in Int
          /\ Factor(e, high) \in Int /\ Factor(e, high) <= c /\ Factor(e, high) <= m
          /\ Factor(e, low) \in Int /\ c <= Factor(e, low) /\ m <= Factor(e, low)
    BY <1>1, <2>1, WiderFactors
  <2>3. PICK mix : mix = (options.alpha * c + (100 - options.alpha) * m) \div 100
    OBVIOUS
  <2>4. mix \in Int /\ Factor(e, high) <= mix /\ mix <= Factor(e, low)
    BY <2>2, <2>3, MixBetween
  <2>5. Smoothed(e, latestDOTRecordsByLinkID(records)) = mix
    BY <1>1, <1>3, <2>1, <2>3 DEF Smoothed, PreviousKey
  <2> QED
    BY <2>4, <2>5 DEF OwnFactor
<1> QED
  BY <1>2, <1>3

LEMMA MultipliersStep == FlowInv /\ FetchInv /\ MultipliersInv /\ [Next]_vars => MultipliersInv'
<1> SUFFICES ASSUME FlowInv, FetchInv, MultipliersInv, [Next]_vars PROVE MultipliersInv'
  OBVIOUS
<1>1. ASSUME NEW e \in DOMAIN edges, NEW m, OwnFactor(e, m) PROVE e \in DOMAIN edges' /\ OwnFactor(e, m)'
  BY <1>1, OwnKept DEF OwnFactor, Factor
<1>2. CASE multipliers' = multipliers
  BY <1>1, <1>2 DEF MultipliersInv
<1>3. CASE ApplyEdgeTraffic /\ multipliers' # multipliers
  <2>1. /\ multipliers' = Snapshot(latestDOTRecordsByLinkID(records)) /\ validateApplyOptions(options)
        /\ stage = "speeds"
    BY <1>3 DEF ApplyEdgeTraffic
  <2>2. ASSUME NEW e \in DOMAIN multipliers' PROVE e \in DOMAIN edges /\ OwnFactor(e, multipliers'[e])
    <3>1. e \in DOMAIN edges /\ Speeding(edges[e], latestDOTRecordsByLinkID(records)) # {}
          /\ multipliers'[e] = Smoothed(e, latestDOTRecordsByLinkID(records))
      BY <2>1 DEF Snapshot
    <3> QED
      BY <2>1, <3>1, SmoothedIsOwn DEF validateApplyOptions
  <2> QED
    BY <1>1, <2>2 DEF MultipliersInv
<1> QED
  BY <1>2, <1>3 DEF Next, FetchEdgeFails, QueryFails, Failing, FetchEdge, MatchDOTLinks, FetchChunk, NextRound,
                    Publish, MatchByHand, vars

LEMMA ClampKeepsOrder ==
  ASSUME FlowInv, options.min <= options.max, NEW a \in Int, NEW b \in Int, a <= b
  PROVE  clampMultiplier(a) \in Int /\ clampMultiplier(b) \in Int /\ clampMultiplier(a) <= clampMultiplier(b)
<1>1. options.min \in Int /\ options.max \in Int
  BY OptionsAssumption DEF FlowInv
<1> QED
  BY <1>1 DEF clampMultiplier

LEMMA AdjustedStep ==
  FlowInv /\ FetchInv /\ MultipliersInv /\ AdjustedByOwnLinks /\ [Next]_vars => AdjustedByOwnLinks'
<1> SUFFICES ASSUME FlowInv, FetchInv, MultipliersInv, AdjustedByOwnLinks, [Next]_vars, stage' = "done"
             PROVE  AdjustedByOwnLinks'
  BY DEF AdjustedByOwnLinks
<1>1. CASE ApplyEdgeTraffic
  <2> DEFINE snapshot == Snapshot(latestDOTRecordsByLinkID(records))
  <2>1. /\ adjusted' = applyTraffic(snapshot) /\ UNCHANGED <<options, edges, feed>>
        /\ validateApplyOptions(options) /\ stage = "speeds"
    BY <1>1 DEF ApplyEdgeTraffic, Goto
  <2>2. options.min <= options.max /\ options.alpha \in 1..100
    BY <2>1, OptionsAssumption DEF validateApplyOptions, FlowInv
  <2>3. ASSUME NEW e \in Edges
        PROVE  \/ adjusted'[e] = clampMultiplier(options.default)
               \/ \E low, high \in Heard(e) :
                    adjusted'[e] \in clampMultiplier(Factor(e, high))..clampMultiplier(Factor(e, low))
    <3>1. CASE e \notin DOMAIN snapshot
      BY <2>1, <3>1 DEF applyTraffic
    <3>2. CASE e \in DOMAIN snapshot
      <4>1. /\ e \in DOMAIN edges /\ Speeding(edges[e], latestDOTRecordsByLinkID(records)) # {}
            /\ snapshot[e] = Smoothed(e, latestDOTRecordsByLinkID(records))
        BY <3>2 DEF Snapshot
      <4>2. PICK m : m = snapshot[e] /\ OwnFactor(e, m)
        BY <2>1, <2>2, <4>1, SmoothedIsOwn
      <4>3. PICK low \in Heard(e), high \in Heard(e) :
              /\ m \in Int /\ Factor(e, high) \in Int /\ Factor(e, high) <= m
              /\ Factor(e, low) \in Int /\ m <= Factor(e, low)
        BY <4>1, <4>2, WiderFactors
      <4>4. clampMultiplier(m) \in clampMultiplier(Factor(e, high))..clampMultiplier(Factor(e, low))
        BY <2>2, <4>3, ClampKeepsOrder
      <4>5. adjusted'[e] = clampMultiplier(m)
        BY <2>1, <3>2, <4>2 DEF applyTraffic
      <4> QED
        BY <4>4, <4>5
    <3> QED
      BY <3>1, <3>2
  <2> QED
    BY <2>1, <2>3 DEF AdjustedByOwnLinks, Heard, Own, Near, Factor, clampMultiplier, Edges
<1>2. CASE UNCHANGED vars
  BY <1>2 DEF AdjustedByOwnLinks, vars, Heard, Own, Near, Factor, clampMultiplier, Edges
<1> QED
  BY <1>1, <1>2 DEF Next, FetchEdgeFails, QueryFails, Failing, FetchEdge, MatchDOTLinks, FetchChunk, NextRound,
                    Publish, MatchByHand, Goto

LEMMA TrafficInvariant == Spec => []TrafficInv
<1>1. Init => TrafficInv
  BY FlowInit DEF Init, TrafficInv, FetchInv, MultipliersInv, AdjustedByOwnLinks, NoneKnown
<1>2. TrafficInv /\ [Next]_vars => TrafficInv'
  BY FlowStep, FetchStep, MultipliersStep, AdjustedStep DEF TrafficInv
<1> QED
  BY <1>1, <1>2, PTL DEF Spec

----------------------------------------------------------------------------
(* match_test.go:121 and dot_test.go:98, for any links, readings, orders   *)
(* of replies and readings published meanwhile: a link speaks with the     *)
(* newest dated record it had when its chunk was fetched, unless the reply *)
(* was full and held only undated ones of that link.                       *)
THEOREM NewestReadingIsUsed == Spec => []NewestReadingUsed
<1>1. TrafficInv => NewestReadingUsed
  <2> DEFINE latest == latestDOTRecordsByLinkID(records)
  <2> SUFFICES ASSUME TrafficInv, stage = "done", NEW l \in DOMAIN latest, NEW i \in 1..asked[l].at, feed[i].link = l
               PROVE  \/ feed[i].at <= latest[l].at
                      \/ ~Dated(latest[l]) /\ ReplyFull(l)
    BY DEF NewestReadingUsed
  <2>1. /\ records \in Seq(Record) /\ \A p \in DOMAIN records : \E j \in DOMAIN feed : records[p] = feed[j]
        /\ l \in {records[p].link : p \in DOMAIN records}
        /\ l \in DOMAIN asked /\ asked[l] \in [chunk : SUBSET Links, at : 0..Len(feed)] /\ Covered(l)
    BY DEF TrafficInv, FetchInv, Fetched, latestDOTRecordsByLinkID
  <2>2. Len(feed) \in Nat /\ i \in DOMAIN feed /\ \A j \in DOMAIN feed : feed[j] \in Record /\ feed[j].at <= Len(feed)
    BY <2>1 DEF TrafficInv, FlowInv
  <2>3. feed[i].at \in Nat /\ \A p \in DOMAIN records : records[p].at \in Nat /\ records[p].at <= Len(feed)
    BY <2>1, <2>2 DEF Record
  <2>4. PICK p \in DOMAIN records :
          /\ latest[l] = records[p] /\ records[p].link = l
          /\ \A q \in DOMAIN records : records[q].link = l => records[q].at <= records[p].at
    BY <2>1, <2>2, <2>3, LatestIsNewest
  <2> HIDE DEF latest
  <2>5. CASE ~Dated(feed[i])
    BY <2>3, <2>4, <2>5 DEF Dated
  <2>6. CASE \E q \in DOMAIN records : records[q].link = l /\ feed[i].at <= records[q].at
    BY <2>3, <2>4, <2>6
  <2>7. CASE /\ \A q \in DOMAIN records : records[q].link = l => ~Dated(records[q])
             /\ ReplyFull(l)
    BY <2>4, <2>7
  <2> QED
    BY <2>1, <2>5, <2>6, <2>7 DEF Covered
<1> QED
  BY <1>1, TrafficInvariant, PTL

(* fetchTrafficRecordChunk, for any chunks and limits: a matched link with *)
(* records is only silent when the records of the other links of its own   *)
(* chunk filled the common reply, so never when chunks are of one link.    *)
THEOREM SilentOnlyIfCrowdedOut == Spec => []SilentOnlyWhenCrowdedOut
<1>1. TrafficInv => SilentOnlyWhenCrowdedOut
  BY DEF TrafficInv, FetchInv, Fetched, HeardOf, SilentOnlyWhenCrowdedOut
<1> QED
  BY <1>1, TrafficInvariant, PTL

(* ApplyEdgeTraffic, for any links put in by hand, any points and speeds   *)
(* in records and any options, over any number of rounds: what a duration  *)
(* is multiplied with is the default or lies between the factors of two    *)
(* speeds of links that were put in by hand or gave points near that edge. *)
THEOREM AdjustedOnlyByOwnLinks == Spec => []AdjustedByOwnLinks
<1>1. TrafficInv => AdjustedByOwnLinks
  BY DEF TrafficInv
<1> QED
  BY <1>1, TrafficInvariant, PTL
==============================================================================
