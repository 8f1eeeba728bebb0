--------------------------- MODULE GeocodeCached ---------------------------
(***************************************************************************)
(* internal/geocode/cached.go: the Cached geocoder.  Concurrent requests   *)
(* for one cache key share a flight: the first becomes its leader, loads   *)
(* the entry, asks the provider when the entry is not fresh and publishes  *)
(* the outcome; the others wait for it or for their own context.           *)
(*                                                                         *)
(* A request leads at most one flight, because a leader always returns     *)
(* after finishCall: a *geocodeCall is therefore named by its leader.      *)
(* A location is abstracted to the pair <<key, gen>>: the gen-th valid     *)
(* answer the provider gave for that key, to this process or to another    *)
(* that uses the same cache directory (gen 0 is the entry that was there   *)
(* when this process started).                                             *)
(***************************************************************************)
EXTENDS Naturals, FiniteSets

CONSTANTS Requests,     \* calls of Geocode, numbered in the order they are made
          Cancelable,   \* those whose context may end: a bound
          Keys,         \* cache keys: namespace and normalized address
          None,         \* no flight, no key
          MaxElsewhere  \* bound on the answers other processes are given per key

ASSUME RequestsAssumption == Requests \subseteq Nat /\ Cancelable \subseteq Requests
ASSUME NoneAssumption == None \notin Requests /\ None \notin Keys
ASSUME MaxElsewhereAssumption == MaxElsewhere \in Nat

VARIABLES
  pc,        \* where each request is
  key,       \* its cache key
  live,      \* ctx.Err() == nil
  call,      \* the flight it joined or leads
  loaded,    \* what Store.Load told the leader
  stale,     \* loadOrFetch's local: the expired answer the leader holds back
  answer,    \* what the request returns, or is about to
  inFlight,  \* Cached.inFlight
  flight,    \* the published fields of each geocodeCall
  store,     \* the entry on disk of each key
  answered,  \* number of valid answers the provider gave for each key
  elsewhere  \* those of them it gave to other processes

vars == <<pc, key, live, call, loaded, stale, answer, inFlight, flight,
          store, answered, elsewhere>>

Ok(k, g)    == [kind |-> "ok", key |-> k, gen |-> g]
Failure(e)  == [kind |-> e, key |-> None, gen |-> 0]
Failures    == {"canceled", "failed", "invalid", "blank"}
Stop        == [kind : {"ok"}, key : Keys, gen : Nat]
NoAnswer    == Failure("none")
Answer      == Stop \cup {Failure(e) : e \in Failures}

OpenFlight == [done |-> FALSE, answer |-> NoAnswer, leaderCanceled |-> FALSE]

Leading == {"load", "fetch", "save", "finish"}
PC      == {"idle", "begin", "wait", "done"} \cup Leading
EntryState == {"missing", "fresh", "stale"}

(* A flight is open and empty, or published with an outcome. *)
TypeOK ==
  /\ pc       \in [Requests -> PC]
  /\ key      \in [Requests -> Keys \cup {None}]
  /\ live     \in [Requests -> BOOLEAN]
  /\ call     \in [Requests -> Requests \cup {None}]
  /\ loaded   \in [Requests -> EntryState \cup {"unread", "unreadable"}]
  /\ stale    \in [Requests -> Stop \cup {NoAnswer}]
  /\ answer   \in [Requests -> Answer \cup {NoAnswer}]
  /\ inFlight \in [Keys -> Requests \cup {None}]
  /\ flight   \in [Requests -> {OpenFlight} \cup
                                [done : {TRUE}, answer : Answer, leaderCanceled : BOOLEAN]]
  /\ store    \in [Keys -> [state : EntryState, gen : Nat]]
  /\ answered \in [Keys -> Nat]
  /\ elsewhere \in [Keys -> SUBSET Nat]

Init ==
  /\ pc       = [r \in Requests |-> "idle"]
  /\ key      = [r \in Requests |-> None]
  /\ live     = [r \in Requests |-> TRUE]
  /\ call     = [r \in Requests |-> None]
  /\ loaded   = [r \in Requests |-> "unread"]
  /\ stale    = [r \in Requests |-> NoAnswer]
  /\ answer   = [r \in Requests |-> NoAnswer]
  /\ inFlight = [k \in Keys |-> None]
  /\ flight   = [r \in Requests |-> OpenFlight]
  /\ store    \in [Keys -> [state : EntryState, gen : {0}]]
  /\ answered = [k \in Keys |-> 0]
  /\ elsewhere = [k \in Keys |-> {}]

Goto(r, label) == pc' = [pc EXCEPT ![r] = label]

Return(r, a) == /\ Goto(r, "done")
                /\ answer' = [answer EXCEPT ![r] = a]

IsNext(r) == pc[r] = "idle" /\ \A q \in Requests : q < r => pc[q] # "idle"

(* Geocode is called: a blank address is refused, any other is given its key. *)
Arrive(r, k) ==
  /\ IsNext(r)
  /\ Goto(r, "begin")
  /\ key' = [key EXCEPT ![r] = k]
  /\ UNCHANGED <<live, call, loaded, stale, answer, inFlight, flight, store, answered, elsewhere>>

ArriveBlank(r) ==
  /\ IsNext(r)
  /\ Return(r, Failure("blank"))
  /\ UNCHANGED <<key, live, call, loaded, stale, inFlight, flight, store, answered, elsewhere>>

(* The caller's context is canceled or runs out, at any time before Geocode returns. *)
Cancel(r) ==
  /\ r \in Cancelable /\ pc[r] # "done" /\ live[r]
  /\ live' = [live EXCEPT ![r] = FALSE]
  /\ UNCHANGED <<pc, key, call, loaded, stale, answer, inFlight, flight, store, answered, elsewhere>>

(* Wrong: a leader that does not look whether its key is in flight. *)
LeadUnchecked(r) ==
  /\ pc[r] = "begin"
  /\ inFlight' = [inFlight EXCEPT ![key[r]] = r]
  /\ flight' = [flight EXCEPT ![r] = OpenFlight]
  /\ call' = [call EXCEPT ![r] = r]
  /\ Goto(r, "load")
  /\ UNCHANGED <<key, live, loaded, stale, answer, store, answered, elsewhere>>

(* beginCall, under Cached.mu: lead a new flight or join the one in flight. *)
Lead(r) ==
  /\ pc[r] = "begin"
  /\ inFlight[key[r]] = None
  /\ inFlight' = [inFlight EXCEPT ![key[r]] = r]
  /\ flight' = [flight EXCEPT ![r] = OpenFlight]
  /\ call' = [call EXCEPT ![r] = r]
  /\ Goto(r, "load")
  /\ UNCHANGED <<key, live, loaded, stale, answer, store, answered, elsewhere>>

Join(r) ==
  /\ pc[r] = "begin"
  /\ inFlight[key[r]] # None
  /\ call' = [call EXCEPT ![r] = inFlight[key[r]]]
  /\ Goto(r, "wait")
  /\ UNCHANGED <<key, live, loaded, stale, answer, inFlight, flight, store, answered, elsewhere>>

(* The select of a follower: its own context is done ... *)
GiveUp(r) ==
  /\ pc[r] = "wait" /\ ~live[r]
  /\ Return(r, Failure("canceled"))
  /\ UNCHANGED <<key, live, call, loaded, stale, inFlight, flight, store, answered, elsewhere>>

(* ... or the flight is, and its outcome is taken over, unless it is the   *)
(* failure of a leader whose own context ended.                            *)
Abandoned(f) == flight[f].answer.kind # "ok" /\ flight[f].leaderCanceled

Retry(r) ==
  /\ pc[r] = "wait" /\ flight[call[r]].done
  /\ Abandoned(call[r]) /\ live[r]
  /\ Goto(r, "begin")
  /\ UNCHANGED <<key, live, call, loaded, stale, answer, inFlight, flight, store, answered, elsewhere>>

Share(r) ==
  /\ pc[r] = "wait" /\ flight[call[r]].done
  /\ ~(Abandoned(call[r]) /\ live[r])
  /\ Return(r, flight[call[r]].answer)
  /\ UNCHANGED <<key, live, call, loaded, stale, inFlight, flight, store, answered, elsewhere>>

(* Store.Load, by the leader.  A read error (and a dead context, which     *)
(* FileGeocodeStore.Load reports first) is only a warning.                 *)
LoadResult(r) == IF live[r] THEN {store[key[r]].state, "unreadable"} ELSE {"unreadable"}

Load(r) ==
  /\ pc[r] = "load"
  /\ \E s \in LoadResult(r) :
       LET entry == Ok(key[r], store[key[r]].gen) IN
       /\ loaded' = [loaded EXCEPT ![r] = s]
       /\ stale' = [stale EXCEPT ![r] = IF s = "stale" THEN entry ELSE @]
       /\ IF s = "fresh"
            THEN answer' = [answer EXCEPT ![r] = entry] /\ Goto(r, "finish")
            ELSE Goto(r, "fetch") /\ UNCHANGED answer
  /\ UNCHANGED <<key, live, call, inFlight, flight, store, answered, elsewhere>>

(* Wrong: the key leaves the map before the location is saved. *)
FetchOkReleasing(r) ==
  /\ pc[r] = "fetch"
  /\ answered' = [answered EXCEPT ![key[r]] = @ + 1]
  /\ answer' = [answer EXCEPT ![r] = Ok(key[r], answered'[key[r]])]
  /\ inFlight' = [inFlight EXCEPT ![key[r]] = None]
  /\ stale' = [stale EXCEPT ![r] = NoAnswer]
  /\ Goto(r, "save")
  /\ UNCHANGED <<key, live, call, loaded, flight, store, elsewhere>>

(* Next.Geocode returns a location, which is validated and goes on to Save. *)
FetchOk(r) ==
  /\ pc[r] = "fetch"
  /\ answered' = [answered EXCEPT ![key[r]] = @ + 1]
  /\ answer' = [answer EXCEPT ![r] = Ok(key[r], answered'[key[r]])]
  /\ stale' = [stale EXCEPT ![r] = NoAnswer]
  /\ Goto(r, "save")
  /\ UNCHANGED <<key, live, call, loaded, inFlight, flight, store, elsewhere>>

(* Next.Geocode returns a location that fails validateResolvedStop: an     *)
(* error even if an expired entry is at hand.                              *)
FetchInvalid(r) ==
  /\ pc[r] = "fetch"
  /\ answer' = [answer EXCEPT ![r] = Failure("invalid")]
  /\ stale' = [stale EXCEPT ![r] = NoAnswer]
  /\ Goto(r, "finish")
  /\ UNCHANGED <<key, live, call, loaded, inFlight, flight, store, answered, elsewhere>>

(* Next.Geocode fails; only a dead context makes it fail as canceled.  The *)
(* expired entry stands in for a failed provider while the context lives.  *)
ProviderErrors(r) == IF live[r] THEN {"failed"} ELSE {"failed", "canceled"}

FallsBack(r) == stale[r] # NoAnswer /\ live[r]

FetchFailed(r) ==
  /\ pc[r] = "fetch"
  /\ \E e \in ProviderErrors(r) :
       answer' = [answer EXCEPT ![r] = IF FallsBack(r) THEN stale[r] ELSE Failure(e)]
  /\ stale' = [stale EXCEPT ![r] = NoAnswer]
  /\ Goto(r, "finish")
  /\ UNCHANGED <<key, live, call, loaded, inFlight, flight, store, answered, elsewhere>>

(* Store.Save: the entry is replaced with a fresh one, or, when the write  *)
(* fails or the context is dead, left as it was with a warning.            *)
Save(r) ==
  /\ pc[r] = "save" /\ live[r]
  /\ store' = [store EXCEPT ![key[r]] = [state |-> "fresh", gen |-> answer[r].gen]]
  /\ Goto(r, "finish")
  /\ UNCHANGED <<key, live, call, loaded, stale, answer, inFlight, flight, answered, elsewhere>>

SaveFails(r) ==
  /\ pc[r] = "save"
  /\ Goto(r, "finish")
  /\ UNCHANGED <<key, live, call, loaded, stale, answer, inFlight, flight, store, answered, elsewhere>>

(* Wrong: done closed before the outcome is copied; leaderCanceled never   *)
(* set; or taken from the error instead of the context.                    *)
PublishedEmpty(r) == [done |-> TRUE, answer |-> NoAnswer, leaderCanceled |-> ~live[r]]
PublishedUnflagged(r) == [done |-> TRUE, answer |-> answer[r], leaderCanceled |-> FALSE]
PublishedByError(r) ==
  [done |-> TRUE, answer |-> answer[r], leaderCanceled |-> answer[r].kind = "canceled"]

(* finishCall, under Cached.mu: publish, leave the map, wake the followers. *)
Published(r) == [done |-> TRUE, answer |-> answer[r], leaderCanceled |-> ~live[r]]

(* Wrong: done is never closed. *)
FinishSilently(r) ==
  /\ pc[r] = "finish"
  /\ inFlight' = [inFlight EXCEPT ![key[r]] = None]
  /\ Goto(r, "done")
  /\ UNCHANGED <<key, live, call, loaded, stale, answer, flight, store, answered, elsewhere>>

(* Wrong: the finished flight stays in the map. *)
FinishKeepingKey(r) ==
  /\ pc[r] = "finish"
  /\ flight' = [flight EXCEPT ![r] = Published(r)]
  /\ Goto(r, "done")
  /\ UNCHANGED <<key, live, call, loaded, stale, answer, inFlight, store, answered, elsewhere>>

Finish(r) ==
  /\ pc[r] = "finish"
  /\ flight' = [flight EXCEPT ![r] = Published(r)]
  /\ inFlight' = [inFlight EXCEPT ![key[r]] = None]
  /\ Goto(r, "done")
  /\ UNCHANGED <<key, live, call, loaded, stale, answer, store, answered, elsewhere>>

(* Time passes ExpiresAt. *)
Expire(k) ==
  /\ store[k].state = "fresh"
  /\ store' = [store EXCEPT ![k] = [state |-> "stale", gen |-> @.gen]]
  /\ UNCHANGED <<pc, key, live, call, loaded, stale, answer, inFlight, flight, answered, elsewhere>>

(* Another process (CLI or server) that uses the directory has the same    *)
(* steps; seen from here it is given an answer ...                         *)
AnsweredElsewhere(k) ==
  /\ Cardinality(elsewhere[k]) < MaxElsewhere
  /\ answered' = [answered EXCEPT ![k] = @ + 1]
  /\ elsewhere' = [elsewhere EXCEPT ![k] = @ \cup {answered'[k]}]
  /\ UNCHANGED <<pc, key, live, call, loaded, stale, answer, inFlight, flight, store>>

(* ... and, however much later, replaces the entry with it.                *)
SavedElsewhere(k) ==
  /\ \E g \in elsewhere[k] : store' = [store EXCEPT ![k] = [state |-> "fresh", gen |-> g]]
  /\ UNCHANGED <<pc, key, live, call, loaded, stale, answer, inFlight, flight, answered, elsewhere>>

(* The file is deleted, which README.md:255 calls safe at any time.        *)
Deleted(k) ==
  /\ store[k].state # "missing"
  /\ store' = [store EXCEPT ![k] = [state |-> "missing", gen |-> 0]]
  /\ UNCHANGED <<pc, key, live, call, loaded, stale, answer, inFlight, flight, answered, elsewhere>>

(* The steps Geocode takes by itself once it was called. *)
Proceed(r) ==
  \/ Lead(r) \/ Join(r) \/ GiveUp(r) \/ Retry(r) \/ Share(r)
  \/ Load(r) \/ FetchOk(r) \/ FetchInvalid(r) \/ FetchFailed(r)
  \/ Save(r) \/ SaveFails(r) \/ Finish(r)

Next ==
  \/ \E r \in Requests : \/ ArriveBlank(r)
                         \/ \E k \in Keys : Arrive(r, k)
                         \/ Cancel(r)
                         \/ Proceed(r)
  \/ \E k \in Keys : Expire(k) \/ AnsweredElsewhere(k) \/ SavedElsewhere(k) \/ Deleted(k)

Spec == Init /\ [][Next]_vars

(* A running goroutine is scheduled, and the provider call it may be in    *)
(* ends by the timeout of its http.Client at the latest.  Callers and time *)
(* owe nothing.                                                            *)
FairSpec == Spec /\ \A r \in Requests : WF_vars(Proceed(r))

----------------------------------------------------------------------------
(* README.md:247: same-key requests are combined, so no two requests for   *)
(* one key are ever inside the provider together.                          *)
SingleProviderCall ==
  \A r, s \in Requests :
    pc[r] = "fetch" /\ pc[s] = "fetch" /\ key[r] = key[s] => r = s

(* A follower is never stranded: the flight it waits for is published, or  *)
(* still in the map under the follower's own key with its leader at work.  *)
NoStrandedFollower ==
  \A r \in Requests : pc[r] = "wait" =>
    LET f == call[r] IN
    \/ flight[f].done
    \/ inFlight[key[r]] = f /\ key[f] = key[r] /\ pc[f] \in Leading

(* The cancellation of one caller is its own: a request whose context is   *)
(* alive when it returns never reports that a context was canceled.        *)
CancellationIsPrivate ==
  \A r \in Requests :
    pc[r] = "done" /\ live[r] => answer[r].kind # "canceled"

(* README.md:249: an expired entry that could be read covers a provider    *)
(* outage.  A live caller, leader or follower, is told of the outage only  *)
(* if the flight it was answered by found no readable entry.               *)
ExpiredEntryCoversOutage ==
  \A r \in Requests :
    pc[r] = "done" /\ live[r] /\ answer[r].kind = "failed" =>
      loaded[call[r]] \in {"missing", "unreadable"}

(* Within one process (README.md:247) a provider is never asked for what   *)
(* is already fresh on disk, unless the entry could not be read: a fresh   *)
(* entry under a request to the provider is the work of another process.   *)
NoRedundantFetch ==
  \A r \in Requests :
    pc[r] = "fetch" /\ loaded[r] # "unreadable" /\ store[key[r]].state = "fresh" =>
      store[key[r]].gen \in elsewhere[key[r]]

(* What this process saves is the newest answer it was given: of all later *)
(* ones none was its own.  (Between processes the last writer wins.)       *)
SavesNewestAnswer ==
  [][\A k \in Keys :
       /\ store'[k] # store[k] /\ store'[k].state = "fresh"
       /\ store'[k].gen \notin elsewhere[k]
       => store'[k].gen + 1 .. answered[k] \subseteq elsewhere[k]]_vars

(* The parts of the inductive invariant behind the safety properties: a    *)
(* request inside Geocode has its key, a flight if it waits and an outcome *)
(* when it has one to save or publish, ...                                 *)
KeyAssigned ==
  \A r \in Requests : /\ pc[r] \notin {"idle", "done"} => key[r] \in Keys
                      /\ pc[r] = "wait" => call[r] \in Requests
                      /\ pc[r] \in {"save", "finish"} => answer[r] \in Answer

(* ... leaders and map entries correspond one to one, ...                  *)
LeadersHoldTheirKey ==
  \A r \in Requests : pc[r] \in Leading => inFlight[key[r]] = r /\ call[r] = r

FlightsHaveLeaders ==
  \A k \in Keys : inFlight[k] # None =>
    pc[inFlight[k]] \in Leading /\ key[inFlight[k]] = k

(* ... a request that waits has joined a flight of its own key, ...        *)
WaitersJoined ==
  \A r \in Requests : pc[r] = "wait" =>
    /\ key[call[r]] = key[r]
    /\ flight[call[r]].done \/ inFlight[key[r]] = call[r]

(* ... a published flight is over, and only an ended context leaves the    *)
(* outcome canceled, ...                                                   *)
PublishedIsOver ==
  \A r \in Requests : flight[r].done =>
    pc[r] = "done" /\ (flight[r].answer.kind = "canceled" => flight[r].leaderCanceled)

CanceledMeansDead ==
  \A r \in Requests :
    pc[r] \in {"finish", "done"} /\ answer[r].kind = "canceled" => ~live[r]

(* ... and a leader that ignores an entry does so because it had none, or  *)
(* because its own context ended.                                          *)
NoEntry(r) == loaded[r] \in {"missing", "unreadable"}

EntryKeptBack ==
  \A r \in Requests :
    /\ pc[r] = "fetch" => (NoEntry(r) \/ stale[r] # NoAnswer)
    /\ pc[r] = "save" => answer[r].kind = "ok"
    /\ pc[r] = "finish" /\ answer[r].kind = "failed" => (NoEntry(r) \/ ~live[r])
    /\ flight[r].done /\ flight[r].answer.kind = "failed" =>
         (NoEntry(r) \/ flight[r].leaderCanceled)
    /\ stale[r] = NoAnswer \/ stale[r].kind = "ok"

(* Whoever reports an outage was answered by a flight that is over.        *)
OutageReported ==
  \A r \in Requests : pc[r] = "done" /\ answer[r].kind = "failed" =>
    /\ call[r] \in Requests /\ pc[call[r]] = "done"
    /\ live[r] => NoEntry(call[r])

IInv == /\ TypeOK /\ KeyAssigned /\ LeadersHoldTheirKey /\ FlightsHaveLeaders
        /\ WaitersJoined /\ PublishedIsOver /\ CanceledMeansDead /\ EntryKeptBack
        /\ OutageReported

(* Seen from outside, a request is answered when Geocode returns; until    *)
(* then the answer its flight prepares does not exist.                     *)
Status == [r \in Requests |-> CASE pc[r] = "idle" -> "idle"
                                [] pc[r] = "done" -> "answered"
                                [] OTHER -> "open"]
Visible == [r \in Requests |-> IF pc[r] = "done" THEN answer[r] ELSE NoAnswer]
Asking == {key[r] : r \in {s \in Requests : pc[s] = "fetch"}}

Lookup == INSTANCE CachedLookup WITH
            Shared <- FALSE, status <- Status, answer <- Visible, asking <- Asking, latest <- answered

(* Coalescing, caching, retrying and falling back implement the plain      *)
(* lookup service.                                                         *)
ImplementsLookup == Lookup!ASpec

(* Every call of Geocode returns: followers are woken, and retrying after  *)
(* a canceled leader does not go on forever.                               *)
EveryRequestReturns ==
  \A r \in Requests : pc[r] = "begin" ~> pc[r] = "done"
============================================================================
