---------------------------- MODULE RateLimited ----------------------------
(***************************************************************************)
(* internal/geocode/rate_limited.go and internal/matrix/rate_limited.go:   *)
(* one process-wide Limiter per public host.  A request holds requestMu    *)
(* while it reserves a slot, sleeps until the slot and calls the provider. *)
(* The matrix limiter differs in that it looks at the context before it    *)
(* reserves, and answers requests of one stop without the provider:        *)
(* checksFirst is TRUE for it and FALSE for the geocode limiter.           *)
(*                                                                         *)
(* Time is a counter; goroutines may be delayed between any two steps.     *)
(***************************************************************************)
EXTENDS Integers, FiniteSets

CONSTANTS Requests,      \* calls of RateLimited.Geocode or .Durations
          Interval,      \* Limiter.Interval, in ticks
          None,
          MaxTime        \* bound: the clock idles no further than this

ASSUME IntervalAssumption == Interval \in Nat \ {0}
ASSUME NoneAssumption == None \notin Requests /\ None \notin Int
ASSUME BoundAssumption == MaxTime \in Nat

VARIABLES
  pc,        \* where each request is
  live,      \* ctx.Err() == nil
  holder,    \* who holds requestMu
  next,      \* Limiter.next
  slot,      \* the reserved start of each request
  started,   \* when its provider call began
  now,
  checksFirst  \* ctx.Err() is consulted before a slot is reserved

vars == <<pc, live, holder, next, slot, started, now, checksFirst>>

Holding == {"reserve", "reserved", "sleep", "ready", "calling"}

TypeOK ==
  /\ pc      \in [Requests -> {"idle", "lock", "done", "gone"} \cup Holding]
  /\ live    \in [Requests -> BOOLEAN]
  /\ holder  \in Requests \cup {None}
  /\ next    \in Nat
  /\ slot    \in [Requests -> Nat \cup {None}]
  /\ started \in [Requests -> Nat \cup {None}]
  /\ now     \in Nat
  /\ checksFirst \in BOOLEAN

(* The zero time.Time of Limiter.next lies before any clock reading. *)
Init ==
  /\ pc      = [r \in Requests |-> "idle"]
  /\ live    = [r \in Requests |-> TRUE]
  /\ holder  = None
  /\ next    = 0
  /\ slot    = [r \in Requests |-> None]
  /\ started = [r \in Requests |-> None]
  /\ now     = 0
  /\ checksFirst \in BOOLEAN

Goto(r, label) == pc' = [pc EXCEPT ![r] = label]

Arrive(r) ==
  /\ pc[r] = "idle"
  /\ Goto(r, "lock")
  /\ UNCHANGED <<live, holder, next, slot, started, now, checksFirst>>

(* Matrix only: up to one stop needs no provider, hence no limiter. *)
AnswerLocally(r) ==
  /\ checksFirst
  /\ pc[r] = "idle"
  /\ Goto(r, "done")
  /\ UNCHANGED <<live, holder, next, slot, started, now, checksFirst>>

(* The caller's context ends. *)
Cancel(r) ==
  /\ pc[r] \notin {"done", "gone"} /\ live[r]
  /\ live' = [live EXCEPT ![r] = FALSE]
  /\ UNCHANGED <<pc, holder, next, slot, started, now, checksFirst>>

(* Wrong: no requestMu around the wait and the call. *)
AcquireUnlocked(r) ==
  /\ pc[r] = "lock"
  /\ Goto(r, "reserve")
  /\ holder' = r
  /\ UNCHANGED <<live, next, slot, started, now, checksFirst>>

(* requestMu.Lock(), which no context interrupts. *)
Acquire(r) ==
  /\ pc[r] = "lock" /\ holder = None
  /\ holder' = r
  /\ Goto(r, "reserve")
  /\ UNCHANGED <<live, next, slot, started, now, checksFirst>>

(* Matrix only: a dead context is noticed before a slot is taken. *)
Refuse(r) ==
  /\ checksFirst
  /\ pc[r] = "reserve" /\ ~live[r]
  /\ Goto(r, "gone") /\ holder' = None
  /\ UNCHANGED <<live, next, slot, started, now, checksFirst>>

(* Wrong: every request starts when it comes, start kept as a delay, or    *)
(* slots of an idle time handed out late.                                  *)
SlotAtOnce == now
SlotAsDelay == next - now
SlotAfterLast == next

(* start := now, or next if that is later. *)
NextSlot == IF next > now THEN next ELSE now

Reserve(r) ==
  /\ pc[r] = "reserve" /\ (checksFirst => live[r])
  /\ slot' = [slot EXCEPT ![r] = NextSlot]
  /\ next' = NextSlot + Interval
  /\ Goto(r, "reserved")
  /\ UNCHANGED <<live, holder, started, now, checksFirst>>

(* delay := time.Until(start): a slot that is due is used whatever the     *)
(* context says.                                                           *)
CheckDelay(r) ==
  /\ pc[r] = "reserved"
  /\ Goto(r, IF slot[r] <= now THEN "ready" ELSE "sleep")
  /\ UNCHANGED <<live, holder, next, slot, started, now, checksFirst>>

Wake(r) ==
  /\ pc[r] = "sleep" /\ now >= slot[r]
  /\ Goto(r, "ready")
  /\ UNCHANGED <<live, holder, next, slot, started, now, checksFirst>>

(* Wrong: returning without unlocking requestMu. *)
AbandonLocked(r) ==
  /\ pc[r] = "sleep" /\ ~live[r]
  /\ Goto(r, "gone")
  /\ UNCHANGED <<live, holder, next, slot, started, now, checksFirst>>

(* ctx.Done() wins the select: the slot stays reserved, the mutex is freed. *)
Abandon(r) ==
  /\ pc[r] = "sleep" /\ ~live[r]
  /\ Goto(r, "gone") /\ holder' = None
  /\ UNCHANGED <<live, next, slot, started, now, checksFirst>>

(* Wrong: requestMu released before the provider call. *)
StartUnlocked(r) ==
  /\ pc[r] = "ready"
  /\ started' = [started EXCEPT ![r] = now]
  /\ Goto(r, "calling") /\ holder' = None
  /\ UNCHANGED <<live, next, slot, now, checksFirst>>

(* The provider call, with requestMu still held. *)
Start(r) ==
  /\ pc[r] = "ready"
  /\ started' = [started EXCEPT ![r] = now]
  /\ Goto(r, "calling")
  /\ UNCHANGED <<live, holder, next, slot, now, checksFirst>>

Finish(r) ==
  /\ pc[r] = "calling"
  /\ Goto(r, "done") /\ holder' = None
  /\ UNCHANGED <<live, next, slot, started, now, checksFirst>>

(* Time passes, beyond MaxTime only as far as somebody sleeps for. *)
Tick ==
  /\ now < MaxTime \/ \E r \in Requests : pc[r] = "sleep" /\ slot[r] > now
  /\ now' = now + 1
  /\ UNCHANGED <<pc, live, holder, next, slot, started, checksFirst>>

Proceed(r) ==
  \/ Acquire(r) \/ Refuse(r) \/ Reserve(r) \/ CheckDelay(r) \/ Wake(r)
  \/ Abandon(r) \/ Start(r) \/ Finish(r)

Next ==
  \/ \E r \in Requests : Arrive(r) \/ AnswerLocally(r) \/ Cancel(r) \/ Proceed(r)
  \/ Tick

Spec == Init /\ [][Next]_vars

(* Goroutines run, the clock advances, and the provider call ends by its   *)
(* http.Client timeout.                                                    *)
FairSpec == Spec /\ WF_vars(Tick) /\ \A r \in Requests : WF_vars(Proceed(r))

----------------------------------------------------------------------------
Calls == {r \in Requests : started[r] # None}
Abandoned == {r \in Requests : pc[r] = "gone" /\ slot[r] # None}

(* README.md:258: provider requests are serialized. *)
CallsSerialized ==
  \A r, s \in Requests : pc[r] = "calling" /\ pc[s] = "calling" => r = s

(* Reserved starts are Interval apart, whoever reserved them and whether   *)
(* or not they were used.                                                  *)
SlotsSpaced ==
  \A r, s \in Requests :
    r # s /\ slot[r] # None /\ slot[s] # None =>
      slot[r] >= slot[s] + Interval \/ slot[s] >= slot[r] + Interval

(* What "at most one request per second" comes to when goroutines may be   *)
(* late: in any stretch of time, however long the limiter was idle before  *)
(* it, one call per Interval that has begun, and one that is late for a    *)
(* slot from before.                                                       *)
RateBounded ==
  \A t \in 0..now : Cardinality({r \in Calls : started[r] >= t}) <= 2 + (now - t) \div Interval

(* Because requestMu is held from the reservation to the end of the call,  *)
(* a request sleeps for one Interval at most, plus one for every request   *)
(* that left in its sleep: a queue never reserves slots ahead.             *)
SleepBounded ==
  \A r \in Requests : pc[r] = "sleep" =>
    slot[r] <= now + Interval * (1 + Cardinality(Abandoned))

(* Every request that asks for the limiter gets through it or gives up. *)
EveryRequestReturns ==
  \A r \in Requests : pc[r] = "lock" ~> pc[r] \in {"done", "gone"}

(* geocode/rate_limited.go:21: "Limiter spaces provider call starts by at  *)
(* least Interval."                                                        *)
StartsSpaced ==
  \A r, s \in Calls :
    r # s => started[r] >= started[s] + Interval \/ started[s] >= started[r] + Interval
============================================================================
