------------------------- MODULE RateLimitedProofs -------------------------
(***************************************************************************)
(* Proofs about RateLimited for any interval, any set of requests and both *)
(* limiters.  RInv says that whoever is between requestMu.Lock and Unlock  *)
(* is the holder, and that every reserved slot ends before Limiter.next.   *)
(* QueueInv says how far ahead of the clock Limiter.next can be, OrderInv  *)
(* that slots and calls come in one order.                                 *)
(***************************************************************************)
EXTENDS RateLimited, FiniteSetTheorems, TLAPS

HolderInside == \A r \in Requests : pc[r] \in Holding => holder = r

SlotsBeforeNext ==
  \A r \in Requests : slot[r] # None => slot[r] + Interval <= next

SlotWhileUsed ==
  \A r \in Requests :
    /\ pc[r] \in {"reserved", "sleep"} => slot[r] # None
    /\ pc[r] \in {"idle", "lock", "reserve"} => slot[r] = None

RInv == /\ TypeOK /\ HolderInside /\ SlotsBeforeNext /\ SlotWhileUsed
        /\ SlotsSpaced

(* RInv holds initially and through every step of the limiter. *)
LEMMA RInvStep == RInv /\ [Next]_vars => RInv'
<1> SUFFICES ASSUME RInv, [Next]_vars PROVE RInv'
  OBVIOUS
<1> USE IntervalAssumption, NoneAssumption
    DEF RInv, TypeOK, HolderInside, SlotsBeforeNext, SlotWhileUsed, SlotsSpaced,
        Holding, Goto
<1>1. ASSUME NEW r \in Requests, Arrive(r) PROVE RInv'
  BY <1>1 DEF Arrive
<1>2. ASSUME NEW r \in Requests, AnswerLocally(r) PROVE RInv'
  BY <1>2 DEF AnswerLocally
<1>3. ASSUME NEW r \in Requests, Cancel(r) PROVE RInv'
  BY <1>3 DEF Cancel
<1>4. ASSUME NEW r \in Requests, Acquire(r) PROVE RInv'
  BY <1>4 DEF Acquire
<1>5. ASSUME NEW r \in Requests, Refuse(r) PROVE RInv'
  BY <1>5 DEF Refuse
<1>6. ASSUME NEW r \in Requests, Reserve(r) PROVE RInv'
  <2>1. NextSlot \in Nat /\ NextSlot >= next
    BY DEF NextSlot
  <2>2. \A q \in Requests : q # r => slot'[q] = slot[q]
    BY <1>6 DEF Reserve
  <2>3. slot'[r] = NextSlot /\ next' = NextSlot + Interval
    BY <1>6 DEF Reserve
  <2>4. TypeOK'
    BY <1>6, <2>1 DEF Reserve
  <2>5. HolderInside' /\ SlotWhileUsed'
    BY <1>6, <2>1 DEF Reserve
  <2>6. SlotsBeforeNext'
    BY <2>1, <2>2, <2>3
  <2>7. SlotsSpaced'
    BY <2>1, <2>2, <2>3
  <2> QED
    BY <2>4, <2>5, <2>6, <2>7
<1>7. ASSUME NEW r \in Requests, CheckDelay(r) PROVE RInv'
  BY <1>7 DEF CheckDelay
<1>8. ASSUME NEW r \in Requests, Wake(r) PROVE RInv'
  BY <1>8 DEF Wake
<1>9. ASSUME NEW r \in Requests, Abandon(r) PROVE RInv'
  BY <1>9 DEF Abandon
<1>10. ASSUME NEW r \in Requests, Start(r) PROVE RInv'
  BY <1>10 DEF Start
<1>11. ASSUME NEW r \in Requests, Finish(r) PROVE RInv'
  BY <1>11 DEF Finish
<1>12. CASE Tick
  BY <1>12 DEF Tick
<1>13. CASE UNCHANGED vars
  BY <1>13 DEF vars
<1> QED
  BY <1>1, <1>2, <1>3, <1>4, <1>5, <1>6, <1>7, <1>8, <1>9, <1>10, <1>11, <1>12,
     <1>13 DEF Next, Proceed

LEMMA RInvariant == Spec => []RInv
<1>1. Init => RInv
  BY IntervalAssumption, NoneAssumption
     DEF Init, RInv, TypeOK, HolderInside, SlotsBeforeNext, SlotWhileUsed, SlotsSpaced,
         Holding
<1>2. QED
  BY <1>1, RInvStep, PTL DEF Spec

(* Every variable of the limiter keeps its type. *)
THEOREM LimiterTypeCorrect == Spec => []TypeOK
<1>1. RInv => TypeOK
  BY DEF RInv
<1>2. QED
  BY <1>1, RInvariant, PTL

(* The provider is never called by two requests at once, for any number of *)
(* requests and wherever they are canceled.                                *)
THEOREM CallsAreSerialized == Spec => []CallsSerialized
<1>1. RInv => CallsSerialized
  BY DEF RInv, HolderInside, Holding, CallsSerialized
<1>2. QED
  BY <1>1, RInvariant, PTL

(* Reserved starts are at least Interval apart, for any Interval. *)
THEOREM SlotsAreSpaced == Spec => []SlotsSpaced
<1>1. RInv => SlotsSpaced
  BY DEF RInv
<1>2. QED
  BY <1>1, RInvariant, PTL

----------------------------------------------------------------------------
(* Limiter.next is no more than one Interval ahead of the clock, and one   *)
(* for every slot that was reserved and not used, unless a request waits   *)
(* for the last slot; what begins, begins when its slot is due.            *)
Waits(r) == pc[r] \in {"reserved", "sleep"}
Ahead == now + Interval * (1 + Cardinality(Abandoned))

QueueInv ==
  /\ IsFiniteSet(Abandoned)
  /\ \A r \in Requests : Waits(r) => slot[r] \in Nat /\ next = slot[r] + Interval /\ slot[r] <= Ahead
  /\ (\A r \in Requests : ~Waits(r)) => next <= Ahead
  /\ \A r \in Requests :
       pc[r] = "ready" \/ started[r] # None => slot[r] \in Nat /\ slot[r] <= now

(* What a step that abandons no slot and reserves none leaves behind. *)
LEMMA QueueStays ==
  ASSUME RInv, QueueInv, Abandoned' = Abandoned, UNCHANGED <<next, slot, now>>,
         \A r \in Requests : Waits(r)' => Waits(r),
         (\A r \in Requests : ~Waits(r)') => (\A r \in Requests : ~Waits(r)) \/ next <= now + Interval,
         \A r \in Requests :
           pc'[r] = "ready" \/ started'[r] # None =>
             \/ pc[r] = "ready" \/ started[r] # None
             \/ Waits(r) /\ slot[r] <= now
  PROVE  QueueInv'
<1>1. Ahead' = Ahead /\ IsFiniteSet(Abandoned')
  BY DEF Ahead, QueueInv
<1>2. now + Interval <= Ahead
  <2>1. Cardinality(Abandoned) \in Nat
    BY FS_CardinalityType DEF QueueInv
  <2>2. \A m, i, n \in Nat : m + i <= m + i * (1 + n)
    OBVIOUS
  <2> QED
    BY <2>1, <2>2, IntervalAssumption DEF Ahead, RInv, TypeOK
<1>3. Ahead \in Int /\ next \in Nat /\ now \in Nat /\ Interval \in Nat
  BY FS_CardinalityType, IntervalAssumption DEF Ahead, QueueInv, RInv, TypeOK
<1> HIDE DEF Ahead, Waits
<1> QED
  BY <1>1, <1>2, <1>3 DEF QueueInv

LEMMA ReserveQueue == ASSUME RInv, QueueInv, NEW r \in Requests, Reserve(r) PROVE QueueInv'
<1>1. /\ pc[r] = "reserve" /\ pc' = [pc EXCEPT ![r] = "reserved"] /\ now' = now
      /\ slot' = [slot EXCEPT ![r] = NextSlot] /\ next' = NextSlot + Interval /\ started' = started
  BY DEF Reserve, Goto
<1>2. /\ pc'[r] = "reserved" /\ slot'[r] = NextSlot
      /\ \A q \in Requests \ {r} : pc'[q] = pc[q] /\ slot'[q] = slot[q]
  BY <1>1 DEF RInv, TypeOK
<1>3. slot[r] = None /\ \A q \in Requests \ {r} : ~Waits(q)
  BY <1>1 DEF RInv, HolderInside, SlotWhileUsed, Waits, Holding
<1>4. ~Waits(r) /\ next <= Ahead
  BY <1>1, <1>3 DEF Waits, QueueInv
<1>5. Abandoned' = Abandoned
  BY <1>1, <1>2, <1>3 DEF Abandoned
<1>6. Ahead' = Ahead
  BY <1>1, <1>5 DEF Ahead
<1>7. now <= Ahead /\ Ahead \in Int
  <2>1. Cardinality(Abandoned) \in Nat
    BY FS_CardinalityType DEF QueueInv
  <2>2. \A m, i, n \in Nat : m <= m + i * (1 + n) /\ m + i * (1 + n) \in Int
    OBVIOUS
  <2> QED
    BY <2>1, <2>2, IntervalAssumption DEF Ahead, RInv, TypeOK
<1>8. NextSlot \in Nat /\ NextSlot <= Ahead
  BY <1>4, <1>7 DEF NextSlot, RInv, TypeOK
<1>9. \A q \in Requests : Waits(q)' => q = r
  BY <1>2, <1>3 DEF Waits
<1>10. \A q \in Requests : pc'[q] = "ready" \/ started'[q] # None => slot'[q] \in Nat /\ slot'[q] <= now'
  <2>1. started[r] = None
    BY <1>3, NoneAssumption DEF QueueInv
  <2> QED
    BY <1>1, <1>2, <2>1 DEF QueueInv
<1>11. Waits(r)'
  BY <1>2 DEF Waits
<1> HIDE DEF Waits, Ahead
<1> QED
  BY <1>1, <1>2, <1>5, <1>6, <1>8, <1>9, <1>10, <1>11 DEF QueueInv

(* The slot of a request that leaves in its sleep moves the bound. *)
LEMMA AbandonQueue == ASSUME RInv, QueueInv, NEW r \in Requests, Abandon(r) PROVE QueueInv'
<1>1. /\ pc[r] = "sleep" /\ pc' = [pc EXCEPT ![r] = "gone"] /\ UNCHANGED <<now, slot, next, started>>
  BY DEF Abandon, Goto
<1>2. pc'[r] = "gone" /\ \A q \in Requests \ {r} : pc'[q] = pc[q]
  BY <1>1 DEF RInv, TypeOK
<1>3. /\ slot[r] \in Nat /\ next = slot[r] + Interval /\ slot[r] <= Ahead
      /\ \A q \in Requests \ {r} : ~Waits(q)
  BY <1>1 DEF RInv, HolderInside, QueueInv, Waits, Holding
<1>4. Abandoned' = Abandoned \cup {r} /\ r \notin Abandoned
  BY <1>1, <1>2, <1>3, NoneAssumption DEF Abandoned
<1>5. /\ IsFiniteSet(Abandoned') /\ Cardinality(Abandoned') = Cardinality(Abandoned) + 1
      /\ Cardinality(Abandoned) \in Nat
  BY <1>4, FS_AddElement, FS_CardinalityType DEF QueueInv
<1>6. Ahead' = Ahead + Interval /\ Ahead \in Int
  <2>1. \A m, i, n \in Nat : /\ m + i * (1 + (n + 1)) = (m + i * (1 + n)) + i
                             /\ m + i * (1 + n) \in Int
    OBVIOUS
  <2> QED
    BY <1>1, <1>5, <2>1, IntervalAssumption DEF Ahead, RInv, TypeOK
<1>7. next' <= Ahead'
  BY <1>1, <1>3, <1>6, IntervalAssumption
<1>8. \A q \in Requests : ~Waits(q)'
  BY <1>2, <1>3 DEF Waits
<1>9. \A q \in Requests : pc'[q] = "ready" \/ started'[q] # None => slot'[q] \in Nat /\ slot'[q] <= now'
  BY <1>1, <1>2 DEF QueueInv
<1> HIDE DEF Waits, Ahead
<1> QED
  BY <1>5, <1>7, <1>8, <1>9 DEF QueueInv

LEMMA QueueStep == RInv /\ QueueInv /\ [Next]_vars => QueueInv'
<1> SUFFICES ASSUME RInv, QueueInv, [Next]_vars PROVE QueueInv'
  OBVIOUS
<1>1. ASSUME NEW r \in Requests, Arrive(r) \/ AnswerLocally(r) \/ Cancel(r) \/ Acquire(r) \/ Refuse(r)
             \/ Start(r) \/ Finish(r)
      PROVE  QueueInv'
  <2>0. /\ UNCHANGED <<next, slot, now>>
        /\ \/ pc' = pc
           \/ /\ pc[r] \in {"idle", "lock", "reserve", "ready", "calling"}
              /\ \/ \E label \in {"lock", "done", "reserve", "calling"} : pc' = [pc EXCEPT ![r] = label]
                 \/ pc' = [pc EXCEPT ![r] = "gone"] /\ slot[r] = None
        /\ \/ started' = started
           \/ started' = [started EXCEPT ![r] = now] /\ pc[r] = "ready"
    <3>1. CASE Arrive(r)
      BY <3>1 DEF Arrive, Goto
    <3>2. CASE AnswerLocally(r)
      BY <3>2 DEF AnswerLocally, Goto
    <3>3. CASE Cancel(r)
      BY <3>3 DEF Cancel
    <3>4. CASE Acquire(r)
      BY <3>4 DEF Acquire, Goto
    <3>5. CASE Refuse(r)
      BY <3>5 DEF Refuse, Goto, RInv, SlotWhileUsed
    <3>6. CASE Start(r)
      BY <3>6 DEF Start, Goto
    <3>7. CASE Finish(r)
      BY <3>7 DEF Finish, Goto
    <3> QED
      BY <1>1, <3>1, <3>2, <3>3, <3>4, <3>5, <3>6, <3>7
  <2>1. /\ UNCHANGED <<next, slot, now>>
        /\ \A q \in Requests : pc'[q] = pc[q] \/ pc[q] \notin {"reserved", "sleep", "gone"}
        /\ \A q \in Requests : pc'[q] = pc[q] \/ pc'[q] \in {"lock", "done", "reserve", "calling"}
                               \/ (pc'[q] = "gone" /\ slot[q] = None)
        /\ \A q \in Requests : started'[q] = started[q] \/ pc[q] = "ready"
    BY <2>0 DEF RInv, TypeOK
  <2>2. Abandoned' = Abandoned
    BY <2>1 DEF Abandoned
  <2>3. \A q \in Requests : Waits(q)' <=> Waits(q)
    BY <2>1 DEF Waits
  <2>4. \A q \in Requests : pc'[q] = "ready" \/ started'[q] # None => pc[q] = "ready" \/ started[q] # None
    BY <2>1
  <2> HIDE DEF Waits
  <2> QED
    BY <2>1, <2>2, <2>3, <2>4, QueueStays
<1>2. ASSUME NEW r \in Requests, Reserve(r) PROVE QueueInv'
  BY <1>2, ReserveQueue
<1>3. ASSUME NEW r \in Requests, CheckDelay(r) \/ Wake(r) PROVE QueueInv'
  <2>1. /\ UNCHANGED <<next, slot, now, started>> /\ Waits(r)
        /\ \A q \in Requests \ {r} : pc'[q] = pc[q]
        /\ pc'[r] = "sleep" \/ (pc'[r] = "ready" /\ slot[r] <= now)
    BY <1>3 DEF CheckDelay, Wake, Goto, Waits, RInv, TypeOK
  <2>2. Abandoned' = Abandoned
    BY <2>1 DEF Abandoned, Waits
  <2>3. \A q \in Requests : Waits(q)' => Waits(q)
    BY <2>1 DEF Waits
  <2>4. (\A q \in Requests : ~Waits(q)') => next <= now + Interval
    <3>1. slot[r] \in Nat /\ next = slot[r] + Interval
      BY <2>1 DEF QueueInv
    <3>2. ~Waits(r)' => slot[r] <= now
      BY <2>1 DEF Waits
    <3> QED
      BY <3>1, <3>2, IntervalAssumption DEF RInv, TypeOK
  <2>5. \A q \in Requests : pc'[q] = "ready" \/ started'[q] # None =>
          pc[q] = "ready" \/ started[q] # None \/ (Waits(q) /\ slot[q] <= now)
    BY <2>1
  <2> HIDE DEF Waits
  <2> QED
    BY <2>1, <2>2, <2>3, <2>4, <2>5, QueueStays
<1>4. ASSUME NEW r \in Requests, Abandon(r) PROVE QueueInv'
  BY <1>4, AbandonQueue
<1>5. CASE Tick
  <2>1. UNCHANGED <<pc, slot, next, started>> /\ now' = now + 1 /\ now \in Nat
    BY <1>5 DEF Tick, RInv, TypeOK
  <2>2. Abandoned' = Abandoned
    BY <2>1 DEF Abandoned
  <2>3. Ahead' = Ahead + 1 /\ Ahead \in Int
    <3>1. Cardinality(Abandoned) \in Nat
      BY FS_CardinalityType DEF QueueInv
    <3>2. \A m, i, n \in Nat : (m + 1) + i * (1 + n) = (m + i * (1 + n)) + 1 /\ m + i * (1 + n) \in Int
      OBVIOUS
    <3> QED
      BY <2>1, <2>2, <3>1, <3>2, IntervalAssumption DEF Ahead
  <2>4. \A q \in Requests : Waits(q)' <=> Waits(q)
    BY <2>1 DEF Waits
  <2>5. next \in Nat
    BY DEF RInv, TypeOK
  <2> HIDE DEF Waits, Ahead
  <2> QED
    BY <2>1, <2>2, <2>3, <2>4, <2>5 DEF QueueInv
<1>6. CASE UNCHANGED vars
  BY <1>6 DEF vars, QueueInv, Waits, Ahead, Abandoned
<1> QED
  BY <1>1, <1>2, <1>3, <1>4, <1>5, <1>6 DEF Next, Proceed

LEMMA QueueInvariant == Spec => []QueueInv
<1>1. Init => QueueInv
  <2> SUFFICES ASSUME Init PROVE QueueInv
    OBVIOUS
  <2>1. /\ next = 0 /\ now = 0
        /\ \A r \in Requests : pc[r] = "idle" /\ started[r] = None
    BY DEF Init
  <2>2. Abandoned = {}
    BY <2>1 DEF Abandoned
  <2>3. IsFiniteSet(Abandoned) /\ Cardinality(Abandoned) = 0
    BY <2>2, FS_EmptySet
  <2>4. next <= Ahead
    BY <2>1, <2>3, IntervalAssumption DEF Ahead
  <2> QED
    BY <2>1, <2>3, <2>4 DEF QueueInv, Waits
<1> QED
  BY <1>1, QueueStep, RInvariant, PTL DEF Spec

(* No queue before the limiter makes a request sleep for longer than an    *)
(* Interval and the slots that others reserved and left.                   *)
THEOREM SleepsAreBounded == Spec => []SleepBounded
<1>1. QueueInv => SleepBounded
  BY DEF QueueInv, Waits, Ahead, SleepBounded
<1> QED
  BY <1>1, QueueInvariant, PTL

----------------------------------------------------------------------------
LEMMA DivisionIsFloor ==
  ASSUME NEW a \in Nat, NEW d \in Nat \ {0}
  PROVE  a \div d \in Nat /\ d * (a \div d) <= a /\ a < d * (a \div d) + d
  OBVIOUS

LEMMA ApartInDifferentTurns ==
  ASSUME NEW a \in Nat, NEW b \in Nat, NEW d \in Nat \ {0}, a + d <= b
  PROVE  a \div d # b \div d
  BY DivisionIsFloor

LEMMA DivisionIsMonotone ==
  ASSUME NEW a \in Nat, NEW b \in Nat, NEW d \in Nat \ {0}, a <= b
  PROVE  a \div d <= b \div d
<1>1. \A x, y \in Nat : x >= y + 1 => d * x >= d * y + d
  OBVIOUS
<1>2. /\ a \div d \in Nat /\ d * (a \div d) <= a
      /\ b \div d \in Nat /\ b < d * (b \div d) + d
  BY DivisionIsFloor
<1> QED
  BY <1>1, <1>2

(* Nobody reserves while a request is on its way to its call, so whoever   *)
(* reserves after a call has begun gets a slot that is not before it.      *)
OrderInv ==
  /\ \A r, s \in Requests :
       r # s /\ pc[r] \in {"reserved", "sleep", "ready"} /\ slot[s] # None => slot[s] < slot[r]
  /\ \A r \in Requests : started[r] # None => started[r] <= now
  /\ \A r, s \in Requests :
       started[r] # None /\ slot[s] # None /\ slot[r] < slot[s] => started[r] <= slot[s]

LEMMA OrderStep == RInv /\ QueueInv /\ OrderInv /\ [Next]_vars => OrderInv'
<1> SUFFICES ASSUME RInv, QueueInv, OrderInv, [Next]_vars PROVE OrderInv'
  OBVIOUS
<1> USE IntervalAssumption, NoneAssumption
<1>0. /\ now \in Nat /\ next \in Nat /\ pc \in [Requests -> {"idle", "lock", "done", "gone"} \cup Holding]
      /\ slot \in [Requests -> Nat \cup {None}] /\ started \in [Requests -> Nat \cup {None}]
  BY DEF RInv, TypeOK
<1>1. ASSUME NEW r \in Requests, Reserve(r) PROVE OrderInv'
  <2>1. /\ pc[r] = "reserve" /\ pc' = [pc EXCEPT ![r] = "reserved"] /\ now' = now
        /\ slot' = [slot EXCEPT ![r] = NextSlot] /\ started' = started
    BY <1>1 DEF Reserve, Goto
  <2>2. NextSlot \in Nat /\ NextSlot >= next /\ NextSlot >= now
    BY <1>0 DEF NextSlot
  <2>3. /\ pc'[r] = "reserved" /\ slot'[r] = NextSlot
        /\ \A q \in Requests \ {r} : pc'[q] = pc[q] /\ slot'[q] = slot[q]
    BY <1>0, <2>1
  <2>4. /\ started[r] = None
        /\ \A q \in Requests \ {r} : pc[q] \notin {"reserved", "sleep", "ready"}
    BY <2>1 DEF RInv, SlotWhileUsed, QueueInv, HolderInside, Holding
  <2>5. \A q \in Requests : slot[q] # None => slot[q] < NextSlot
    BY <1>0, <2>2 DEF RInv, SlotsBeforeNext
  <2>6. \A q, s \in Requests :
          q # s /\ pc'[q] \in {"reserved", "sleep", "ready"} /\ slot'[s] # None => slot'[s] < slot'[q]
    BY <2>3, <2>4, <2>5
  <2>7. \A q \in Requests : started'[q] # None => started'[q] <= now'
    BY <2>1 DEF OrderInv
  <2>8. ASSUME NEW q \in Requests, NEW s \in Requests,
               started'[q] # None, slot'[s] # None, slot'[q] < slot'[s]
        PROVE  started'[q] <= slot'[s]
    <3>1. q # r /\ started'[q] = started[q] /\ started[q] <= now /\ started[q] \in Nat
      BY <1>0, <2>1, <2>4, <2>8 DEF OrderInv
    <3>2. CASE s = r
      BY <1>0, <2>2, <2>3, <3>1, <3>2
    <3>3. CASE s # r
      BY <2>3, <2>8, <3>1, <3>3 DEF OrderInv
    <3> QED
      BY <3>2, <3>3
  <2> QED
    BY <2>6, <2>7, <2>8 DEF OrderInv
<1>2. ASSUME NEW r \in Requests, Start(r) PROVE OrderInv'
  <2>1. /\ pc[r] = "ready" /\ pc' = [pc EXCEPT ![r] = "calling"] /\ UNCHANGED <<now, slot>>
        /\ started' = [started EXCEPT ![r] = now]
    BY <1>2 DEF Start, Goto
  <2>2. \A q \in Requests : pc'[q] \in {"reserved", "sleep", "ready"} => pc[q] = pc'[q]
    BY <1>0, <2>1
  <2>3. started'[r] = now /\ \A q \in Requests \ {r} : started'[q] = started[q]
    BY <1>0, <2>1
  <2>4. slot[r] \in Nat /\ \A s \in Requests \ {r} : slot[s] # None => slot[s] < slot[r] /\ slot[s] \in Nat
    BY <1>0, <2>1 DEF OrderInv, QueueInv
  <2>5. \A s \in Requests : slot[s] # None => ~(slot[r] < slot[s])
    BY <2>4
  <2>6. \A q \in Requests : started'[q] # None => started'[q] <= now'
    BY <1>0, <2>1, <2>3 DEF OrderInv
  <2> QED
    BY <2>1, <2>2, <2>3, <2>5, <2>6 DEF OrderInv
<1>3. ASSUME UNCHANGED <<slot, started>>, now' \in Nat, now <= now',
             \A q \in Requests : pc'[q] \in {"reserved", "sleep", "ready"} => pc[q] \in {"reserved", "sleep", "ready"}
      PROVE  OrderInv'
  BY <1>0, <1>3 DEF OrderInv
<1>4. ASSUME NEW r \in Requests,
             Arrive(r) \/ AnswerLocally(r) \/ Cancel(r) \/ Acquire(r) \/ Refuse(r)
             \/ CheckDelay(r) \/ Wake(r) \/ Abandon(r) \/ Finish(r)
      PROVE  OrderInv'
  <2>1. UNCHANGED <<slot, started, now>>
    BY <1>4 DEF Arrive, AnswerLocally, Cancel, Acquire, Refuse, CheckDelay, Wake, Abandon, Finish
  <2>2. \/ pc' = pc
        \/ \E label \in {"lock", "done", "reserve", "gone"} : pc' = [pc EXCEPT ![r] = label]
        \/ pc[r] \in {"reserved", "sleep"} /\ \E label \in {"sleep", "ready"} : pc' = [pc EXCEPT ![r] = label]
    BY <1>4 DEF Arrive, AnswerLocally, Cancel, Acquire, Refuse, CheckDelay, Wake, Abandon, Finish, Goto
  <2>3. \A q \in Requests : pc'[q] \in {"reserved", "sleep", "ready"} => pc[q] \in {"reserved", "sleep", "ready"}
    BY <1>0, <2>2
  <2> QED
    BY <1>0, <1>3, <2>1, <2>3
<1>5. CASE Tick
  BY <1>0, <1>3, <1>5 DEF Tick
<1>6. CASE UNCHANGED vars
  BY <1>0, <1>3, <1>6 DEF vars
<1> QED
  BY <1>1, <1>2, <1>4, <1>5, <1>6 DEF Next, Proceed

LEMMA OrderInvariant == Spec => []OrderInv
<1>1. Init => OrderInv
  BY DEF Init, OrderInv
<1> QED
  BY <1>1, OrderStep, RInvariant, QueueInvariant, PTL DEF Spec

(* The calls begun since t with slots since t took different intervals of  *)
(* the clock, each the one of its slot; of calls with an earlier slot only *)
(* the last can begin as late as t.  So in any stretch of time, however    *)
(* idle the limiter was before it, and for any number of requests, there   *)
(* is at most one call per Interval and one more.                          *)
THEOREM RateIsBounded == Spec => []RateBounded
<1>1. RInv /\ QueueInv /\ OrderInv => RateBounded
  <2> SUFFICES ASSUME RInv, QueueInv, OrderInv, NEW t \in 0..now
               PROVE  Cardinality({r \in Calls : started[r] >= t}) <= 2 + (now - t) \div Interval
    BY DEF RateBounded
  <2> DEFINE since == {r \in Calls : started[r] >= t}
             timely == {r \in since : slot[r] >= t}
             last == (now - t) \div Interval
             turns == 0..last
             turn == [r \in timely |-> (slot[r] - t) \div Interval]
  <2>1. now \in Nat /\ t \in Nat /\ now - t \in Nat /\ Interval \in Nat \ {0}
    BY IntervalAssumption DEF RInv, TypeOK
  <2>2. last \in Nat
    BY <2>1, DivisionIsFloor
  <2>3. \A r \in Calls : /\ r \in Requests /\ slot[r] \in Nat /\ slot[r] <= now /\ slot[r] # None
                         /\ started[r] \in Nat /\ started[r] # None
    BY NoneAssumption DEF Calls, QueueInv, RInv, TypeOK
  <2>4. \A r \in timely : slot[r] - t \in Nat /\ slot[r] - t <= now - t
    BY <2>1, <2>3
  <2>5. \A r \in timely : (slot[r] - t) \div Interval \in turns
    BY <2>1, <2>2, <2>4, DivisionIsFloor, DivisionIsMonotone
  <2>6. ASSUME NEW r \in timely, NEW s \in timely, r # s
        PROVE  (slot[r] - t) \div Interval # (slot[s] - t) \div Interval
    <3>1. slot[r] >= slot[s] + Interval \/ slot[s] >= slot[r] + Interval
      BY <2>3, <2>6 DEF RInv, SlotsSpaced
    <3>2. slot[r] - t >= (slot[s] - t) + Interval \/ slot[s] - t >= (slot[r] - t) + Interval
      BY <2>1, <2>3, <3>1
    <3> QED
      BY <2>1, <2>4, <3>2, ApartInDifferentTurns
  <2>7. turn \in Injection(timely, turns)
    BY <2>5, <2>6 DEF Injection, IsInjective
  <2>8. IsFiniteSet(turns) /\ Cardinality(turns) = 1 + last
    <3> HIDE DEF last
    <3> QED
      BY <2>2, FS_Interval
  <2>9. IsFiniteSet(timely) /\ Cardinality(timely) \in Nat /\ Cardinality(timely) <= 1 + last
    <3> HIDE DEF turn, turns, timely, last
    <3> QED
      BY <2>7, <2>8, FS_Injection, FS_CardinalityType
  <2>10. \A r, s \in since \ timely : r = s
    <3> SUFFICES ASSUME NEW r \in since \ timely, NEW s \in since \ timely, r # s, slot[r] < slot[s] PROVE FALSE
      <4>1. ASSUME NEW r \in since \ timely, NEW s \in since \ timely, r # s PROVE slot[r] < slot[s] \/ slot[s] < slot[r]
        BY <2>1, <2>3, <4>1 DEF RInv, SlotsSpaced
      <4> QED
        BY <4>1
    <3>1. started[r] <= slot[s]
      BY <2>3 DEF OrderInv
    <3> QED
      BY <2>1, <2>3, <3>1
  <2>11. \E late : since \subseteq timely \cup {late}
    BY <2>10
  <2> HIDE DEF since, timely, last
  <2>12. PICK late : since \subseteq timely \cup {late}
    BY <2>11
  <2>13. /\ IsFiniteSet(timely \cup {late}) /\ Cardinality(timely \cup {late}) <= 1 + Cardinality(timely)
         /\ Cardinality(timely \cup {late}) \in Nat
    <3>1. CASE late \in timely
      <4>1. timely \cup {late} = timely
        BY <3>1
      <4>2. \A n \in Nat : n <= 1 + n
        OBVIOUS
      <4>3. IsFiniteSet(timely) /\ Cardinality(timely) \in Nat /\ Cardinality(timely) <= 1 + Cardinality(timely)
        BY <2>9, <4>2
      <4> QED
        BY <4>1, <4>3
    <3>2. CASE late \notin timely
      BY <2>9, <3>2, FS_AddElement
    <3> QED
      BY <3>1, <3>2
  <2>14. Cardinality(since) <= Cardinality(timely \cup {late}) /\ Cardinality(since) \in Nat
    BY <2>12, <2>13, FS_Subset, FS_CardinalityType
  <2>15. Cardinality(since) <= 2 + last
    BY <2>2, <2>9, <2>13, <2>14
  <2> QED
    BY <2>15 DEF since, last
<1> QED
  BY <1>1, RInvariant, QueueInvariant, OrderInvariant, PTL
============================================================================
