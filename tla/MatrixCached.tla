---------------------------- MODULE MatrixCached ----------------------------
(***************************************************************************)
(* internal/matrix/cached.go: the Cached duration-matrix provider.  It     *)
(* shares flights like the geocode cache, but a follower takes whatever    *)
(* the leader ends with: the flight does not record whether the leader's   *)
(* own context had ended, and nobody retries.                              *)
(*                                                                         *)
(* A request leads at most one flight, so a *durationCall is named by its  *)
(* leader; a matrix is the pair <<key, gen>>, the gen-th answer of the     *)
(* provider for that key, to this process or to another that uses the same *)
(* cache directory, gen 0 being the entry found when this one started.     *)
(***************************************************************************)
EXTENDS Naturals, FiniteSets

CONSTANTS Requests,     \* calls of Durations, numbered in the order they are made
          Cancelable,   \* those whose context may end: a bound
          Keys,         \* cache keys: namespace and ordered coordinates
          None,         \* no flight, no key
          MaxElsewhere  \* bound on the answers other processes are given per key

ASSUME RequestsAssumption == Requests \subseteq Nat /\ Cancelable \subseteq Requests
ASSUME NoneAssumption == None \notin Requests /\ None \notin Keys
ASSUME MaxElsewhereAssumption == MaxElsewhere \in Nat

VARIABLES
  pc, key, live,
  call,      \* the flight each request joined or leads
  loaded,    \* what Store.Load told the leader
  stale,     \* loadOrFetch's local: the expired matrix the leader holds back
  answer,    \* what the request returns, or is about to
  inFlight,  \* Cached.inFlight
  flight,    \* the published fields of each durationCall
  store,     \* the entry on disk of each key
  answered,  \* number of matrices the provider gave for each key
  elsewhere  \* those of them it gave to other processes

vars == <<pc, key, live, call, loaded, stale, answer, inFlight, flight,
          store, answered, elsewhere>>

Ok(k, g)   == [kind |-> "ok", key |-> k, gen |-> g]
Failure(e) == [kind |-> e, key |-> None, gen |-> 0]
NoAnswer   == Failure("none")
EntryState == {"missing", "fresh", "stale"}

OpenFlight == [done |-> FALSE, answer |-> NoAnswer]

Init ==
  /\ pc       = [r \in Requests |-> "idle"]
  /\ key      = [r \in Requests |-> None]
  /\ live     = [r \in Requests |-> TRUE]
  /\ call     = [r \in Requests |-> None]
  /\ loaded   = [r \in Requests |-> "unread"]
  /\ stale    = [r \in Requests |-> NoAnswer]
  /\ answer   = [r \in Requests |-> NoAnswer]
  /\ inFlight = [k \in Keys |-> None]
  /\ flight   = [r \in Requests |-> OpenFlight]
  /\ store    \in [Keys -> [state : EntryState, gen : {0}]]
  /\ answered = [k \in Keys |-> 0]
  /\ elsewhere = [k \in Keys |-> {}]

Goto(r, label) == pc' = [pc EXCEPT ![r] = label]

Return(r, a) == Goto(r, "done") /\ answer' = [answer EXCEPT ![r] = a]

IsNext(r) == pc[r] = "idle" /\ \A q \in Requests : q < r => pc[q] # "idle"

(* Durations is called and computes its key. *)
Arrive(r, k) ==
  /\ IsNext(r)
  /\ Goto(r, "begin")
  /\ key' = [key EXCEPT ![r] = k]
  /\ UNCHANGED <<live, call, loaded, stale, answer, inFlight, flight, store, answered, elsewhere>>

(* The caller's context ends, at any time before Durations returns. *)
Cancel(r) ==
  /\ r \in Cancelable /\ pc[r] # "done" /\ live[r]
  /\ live' = [live EXCEPT ![r] = FALSE]
  /\ UNCHANGED <<pc, key, call, loaded, stale, answer, inFlight, flight, store, answered, elsewhere>>

(* Wrong: a leader that does not look whether its key is in flight. *)
LeadUnchecked(r) ==
  /\ pc[r] = "begin"
  /\ inFlight' = [inFlight EXCEPT ![key[r]] = r]
  /\ call' = [call EXCEPT ![r] = r]
  /\ Goto(r, "load")
  /\ UNCHANGED <<key, live, loaded, stale, answer, flight, store, answered, elsewhere>>

(* beginCall, under Cached.mu: lead a new flight or join the one in flight. *)
Lead(r) ==
  /\ pc[r] = "begin"
  /\ inFlight[key[r]] = None
  /\ inFlight' = [inFlight EXCEPT ![key[r]] = r]
  /\ call' = [call EXCEPT ![r] = r]
  /\ Goto(r, "load")
  /\ UNCHANGED <<key, live, loaded, stale, answer, flight, store, answered, elsewhere>>

Join(r) ==
  /\ pc[r] = "begin"
  /\ inFlight[key[r]] # None
  /\ call' = [call EXCEPT ![r] = inFlight[key[r]]]
  /\ Goto(r, "wait")
  /\ UNCHANGED <<key, live, loaded, stale, answer, inFlight, flight, store, answered, elsewhere>>

(* The select of a follower: its own context, or the flight. *)
GiveUp(r) ==
  /\ pc[r] = "wait" /\ ~live[r]
  /\ Return(r, Failure("canceled"))
  /\ UNCHANGED <<key, live, call, loaded, stale, inFlight, flight, store, answered, elsewhere>>

Share(r) ==
  /\ pc[r] = "wait" /\ flight[call[r]].done
  /\ Return(r, flight[call[r]].answer)
  /\ UNCHANGED <<key, live, call, loaded, stale, inFlight, flight, store, answered, elsewhere>>

(* Store.Load; a dead context or a file error is a warning, and so is an   *)
(* entry of the wrong dimensions.                                          *)
LoadResult(r) == IF live[r] THEN {store[key[r]].state, "unreadable"} ELSE {"unreadable"}

Load(r) ==
  /\ pc[r] = "load"
  /\ \E s \in LoadResult(r) :
       LET entry == Ok(key[r], store[key[r]].gen) IN
       /\ loaded' = [loaded EXCEPT ![r] = s]
       /\ stale' = [stale EXCEPT ![r] = IF s = "stale" THEN entry ELSE @]
       /\ IF s = "fresh"
            THEN answer' = [answer EXCEPT ![r] = entry] /\ Goto(r, "finish")
            ELSE Goto(r, "fetch") /\ UNCHANGED answer
  /\ UNCHANGED <<key, live, call, inFlight, flight, store, answered, elsewhere>>

(* Wrong: the key leaves the map before the matrix is saved. *)
FetchOkReleasing(r) ==
  /\ pc[r] = "fetch"
  /\ answered' = [answered EXCEPT ![key[r]] = @ + 1]
  /\ answer' = [answer EXCEPT ![r] = Ok(key[r], answered'[key[r]])]
  /\ inFlight' = [inFlight EXCEPT ![key[r]] = None]
  /\ stale' = [stale EXCEPT ![r] = NoAnswer]
  /\ Goto(r, "save")
  /\ UNCHANGED <<key, live, call, loaded, flight, store, elsewhere>>

(* Next.Durations returns a matrix; it is saved without being validated here. *)
FetchOk(r) ==
  /\ pc[r] = "fetch"
  /\ answered' = [answered EXCEPT ![key[r]] = @ + 1]
  /\ answer' = [answer EXCEPT ![r] = Ok(key[r], answered'[key[r]])]
  /\ stale' = [stale EXCEPT ![r] = NoAnswer]
  /\ Goto(r, "save")
  /\ UNCHANGED <<key, live, call, loaded, inFlight, flight, store, elsewhere>>

(* Next.Durations fails, as canceled only under a dead context. *)
ProviderErrors(r) == IF live[r] THEN {"failed"} ELSE {"failed", "canceled"}

(* Wrong: an error ends the request before the expired matrix is considered. *)
FallsBackNever(r) == FALSE

FallsBack(r) == stale[r] # NoAnswer /\ live[r]

FetchFailed(r) ==
  /\ pc[r] = "fetch"
  /\ \E e \in ProviderErrors(r) :
       answer' = [answer EXCEPT ![r] = IF FallsBack(r) THEN stale[r] ELSE Failure(e)]
  /\ stale' = [stale EXCEPT ![r] = NoAnswer]
  /\ Goto(r, "finish")
  /\ UNCHANGED <<key, live, call, loaded, inFlight, flight, store, answered, elsewhere>>

(* Store.Save replaces the entry with a fresh one ... *)
Save(r) ==
  /\ pc[r] = "save" /\ live[r]
  /\ store' = [store EXCEPT ![key[r]] = [state |-> "fresh", gen |-> answer[r].gen]]
  /\ Goto(r, "finish")
  /\ UNCHANGED <<key, live, call, loaded, stale, answer, inFlight, flight, answered, elsewhere>>

(* ... or warns: dead context, file error, or a matrix the store refuses.  *)
SaveFails(r) ==
  /\ pc[r] = "save"
  /\ Goto(r, "finish")
  /\ UNCHANGED <<key, live, call, loaded, stale, answer, inFlight, flight, store, answered, elsewhere>>

(* Wrong: the outcome is not copied into the flight, or done is not set. *)
PublishedEmpty(r) == [done |-> TRUE, answer |-> NoAnswer]
PublishedOpen(r) == [done |-> FALSE, answer |-> answer[r]]

(* finishCall, under Cached.mu: publish, leave the map, wake the followers. *)
Published(r) == [done |-> TRUE, answer |-> answer[r]]

Finish(r) ==
  /\ pc[r] = "finish"
  /\ flight' = [flight EXCEPT ![r] = Published(r)]
  /\ inFlight' = [inFlight EXCEPT ![key[r]] = None]
  /\ Goto(r, "done")
  /\ UNCHANGED <<key, live, call, loaded, stale, answer, store, answered, elsewhere>>

(* Time passes ExpiresAt. *)
Expire(k) ==
  /\ store[k].state = "fresh"
  /\ store' = [store EXCEPT ![k] = [state |-> "stale", gen |-> @.gen]]
  /\ UNCHANGED <<pc, key, live, call, loaded, stale, answer, inFlight, flight, answered, elsewhere>>

(* Another process (CLI or server) that uses the directory has the same    *)
(* steps; seen from here it is given an answer ...                         *)
AnsweredElsewhere(k) ==
  /\ Cardinality(elsewhere[k]) < MaxElsewhere
  /\ answered' = [answered EXCEPT ![k] = @ + 1]
  /\ elsewhere' = [elsewhere EXCEPT ![k] = @ \cup {answered'[k]}]
  /\ UNCHANGED <<pc, key, live, call, loaded, stale, answer, inFlight, flight, store>>

(* ... and, however much later, replaces the entry with it.                *)
SavedElsewhere(k) ==
  /\ \E g \in elsewhere[k] : store' = [store EXCEPT ![k] = [state |-> "fresh", gen |-> g]]
  /\ UNCHANGED <<pc, key, live, call, loaded, stale, answer, inFlight, flight, answered, elsewhere>>

(* The file is deleted, which README.md:255 calls safe at any time.        *)
Deleted(k) ==
  /\ store[k].state # "missing"
  /\ store' = [store EXCEPT ![k] = [state |-> "missing", gen |-> 0]]
  /\ UNCHANGED <<pc, key, live, call, loaded, stale, answer, inFlight, flight, answered, elsewhere>>

(* The steps Durations takes by itself once it was called. *)
Proceed(r) ==
  \/ Lead(r) \/ Join(r) \/ GiveUp(r) \/ Share(r) \/ Load(r)
  \/ FetchOk(r) \/ FetchFailed(r) \/ Save(r) \/ SaveFails(r) \/ Finish(r)

Next ==
  \/ \E r \in Requests : \/ \E k \in Keys : Arrive(r, k)
                         \/ Cancel(r)
                         \/ Proceed(r)
  \/ \E k \in Keys : Expire(k) \/ AnsweredElsewhere(k) \/ SavedElsewhere(k) \/ Deleted(k)

Spec == Init /\ [][Next]_vars

(* Goroutines are scheduled and the http.Client of OSRM has a timeout. *)
FairSpec == Spec /\ \A r \in Requests : WF_vars(Proceed(r))

----------------------------------------------------------------------------
(* README.md:247: same-key requests are combined, so no two of them are    *)
(* ever inside the provider together.                                      *)
SingleProviderCall ==
  \A r, s \in Requests :
    pc[r] = "fetch" /\ pc[s] = "fetch" /\ key[r] = key[s] => r = s

(* Everyone who stays on a flight leaves it with the same outcome: what    *)
(* the leader returned, and not an empty call read too early.              *)
FlightHasOneOutcome ==
  \A r \in Requests :
    pc[r] = "done" /\ live[r] =>
      /\ pc[call[r]] = "done"
      /\ answer[r] = answer[call[r]]

(* A live caller is told that the provider failed only if the flight had   *)
(* no readable entry, or its leader was gone when the provider failed.     *)
OutageCoveredUnlessLeaderGone ==
  \A r \in Requests :
    pc[r] = "done" /\ live[r] /\ answer[r].kind = "failed" =>
      loaded[call[r]] \in {"missing", "unreadable"} \/ ~live[call[r]]

(* Within one process (README.md:247) a matrix is never fetched while it   *)
(* is fresh on disk and can be read, unless another process put it there.  *)
NoRedundantFetch ==
  \A r \in Requests :
    pc[r] = "fetch" /\ loaded[r] # "unreadable" /\ store[key[r]].state = "fresh" =>
      store[key[r]].gen \in elsewhere[key[r]]

(* Seen from outside, a request is answered when Durations returns.        *)
Status == [r \in Requests |-> CASE pc[r] = "idle" -> "idle"
                                [] pc[r] = "done" -> "answered"
                                [] OTHER -> "open"]
Visible == [r \in Requests |-> IF pc[r] = "done" THEN answer[r] ELSE NoAnswer]
Asking == {key[r] : r \in {s \in Requests : pc[s] = "fetch"}}

Lookup == INSTANCE CachedLookup WITH
            Shared <- TRUE, status <- Status, answer <- Visible, asking <- Asking, latest <- answered

(* Coalescing, caching and falling back implement the plain lookup         *)
(* service, for which a request may hear that another was canceled.        *)
ImplementsLookup == Lookup!ASpec

(* Every call of Durations returns. *)
EveryRequestReturns ==
  \A r \in Requests : pc[r] = "begin" ~> pc[r] = "done"

(* README.md:214 gives geocoding and OSRM requests the same cache          *)
(* behavior, and geocode/cached_test.go:202 demands that a live follower   *)
(* does not inherit the canceled result of its leader.                     *)
CancellationIsPrivate ==
  \A r \in Requests :
    pc[r] = "done" /\ live[r] => answer[r].kind # "canceled"
============================================================================
