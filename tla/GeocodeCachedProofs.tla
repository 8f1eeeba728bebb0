------------------------ MODULE GeocodeCachedProofs ------------------------
(***************************************************************************)
(* Proofs about GeocodeCached for any set of requests and keys.  The chain *)
(* is: TypeOK, then IInv (leaders own their key, waiters have joined a     *)
(* flight of their key, published flights are over), then the properties   *)
(* as consequences of IInv.                                                *)
(***************************************************************************)
EXTENDS GeocodeCached, TLAPS

(* A published flight has an outcome. *)
LEMMA PublishedIsAnswered ==
  ASSUME TypeOK, NEW r \in Requests, flight[r].done PROVE flight[r].answer \in Answer
<1>1. flight[r] \in {OpenFlight} \cup [done : {TRUE}, answer : Answer, leaderCanceled : BOOLEAN]
  BY DEF TypeOK
<1>2. flight[r] # OpenFlight
  BY DEF OpenFlight
<1> QED
  BY ONLY <1>1, <1>2

(* Every variable keeps its type through every step of Cached.Geocode. *)
LEMMA TypeStep == TypeOK /\ KeyAssigned /\ [Next]_vars => TypeOK' /\ KeyAssigned'
<1> SUFFICES ASSUME TypeOK, KeyAssigned, [Next]_vars PROVE TypeOK' /\ KeyAssigned'
  OBVIOUS
<1> USE NoneAssumption DEF TypeOK, KeyAssigned, PC, Leading, EntryState, Answer, Failures, Failure, NoAnswer, Stop, Ok,
            OpenFlight, Goto, Return
<1>1. ASSUME NEW r \in Requests, NEW k \in Keys, Arrive(r, k) PROVE TypeOK' /\ KeyAssigned'
  BY <1>1 DEF Arrive, IsNext
<1>2. ASSUME NEW r \in Requests, ArriveBlank(r) PROVE TypeOK' /\ KeyAssigned'
  BY <1>2 DEF ArriveBlank, IsNext
<1>3. ASSUME NEW r \in Requests, Cancel(r) PROVE TypeOK' /\ KeyAssigned'
  BY <1>3 DEF Cancel
<1>4. ASSUME NEW r \in Requests, Lead(r) PROVE TypeOK' /\ KeyAssigned'
  BY <1>4 DEF Lead
<1>5. ASSUME NEW r \in Requests, Join(r) PROVE TypeOK' /\ KeyAssigned'
  BY <1>5 DEF Join
<1>6. ASSUME NEW r \in Requests, GiveUp(r) PROVE TypeOK' /\ KeyAssigned'
  BY <1>6 DEF GiveUp
<1>7. ASSUME NEW r \in Requests, Retry(r) PROVE TypeOK' /\ KeyAssigned'
  BY <1>7 DEF Retry
<1>8. ASSUME NEW r \in Requests, Share(r) PROVE TypeOK' /\ KeyAssigned'
  <2>1. call[r] \in Requests
    BY <1>8 DEF Share
  <2>2. flight[call[r]].answer \in Answer
    BY <1>8, <2>1, PublishedIsAnswered DEF Share
  <2> QED
    BY <1>8, <2>2 DEF Share
<1>9. ASSUME NEW r \in Requests, Load(r) PROVE TypeOK' /\ KeyAssigned'
  <2> DEFINE entry == Ok(key[r], store[key[r]].gen)
  <2>1. PICK s \in LoadResult(r) :
          /\ loaded' = [loaded EXCEPT ![r] = s]
          /\ stale' = [stale EXCEPT ![r] = IF s = "stale" THEN entry ELSE @]
          /\ \/ answer' = [answer EXCEPT ![r] = entry] /\ pc' = [pc EXCEPT ![r] = "finish"]
             \/ answer' = answer /\ pc' = [pc EXCEPT ![r] = "fetch"]
    BY <1>9 DEF Load
  <2>2. key[r] \in Keys /\ s \in EntryState \cup {"unreadable"}
    BY <1>9, <2>1 DEF Load, LoadResult
  <2>3. entry \in Stop
    BY <2>2
  <2> HIDE DEF entry
  <2>4. pc[r] = "load" /\ UNCHANGED <<key, live, call, inFlight, flight, store, answered, elsewhere>>
    BY <1>9 DEF Load
  <2>5. stale' \in [Requests -> Stop \cup {NoAnswer}]
    BY <2>1, <2>3 DEF TypeOK
  <2>a. entry \in Answer
    BY <2>3 DEF Answer
  <2>6. answer' \in [Requests -> Answer \cup {NoAnswer}]
    BY <2>1, <2>a DEF TypeOK
  <2>7. /\ pc' \in [Requests -> PC]
        /\ loaded' \in [Requests -> EntryState \cup {"unread", "unreadable"}]
    <3>1. pc' \in [Requests -> PC]
      BY <2>1 DEF TypeOK, PC, Leading
    <3>2. loaded' \in [Requests -> EntryState \cup {"unread", "unreadable"}]
      BY <2>1, <2>2 DEF TypeOK
    <3> QED
      BY <3>1, <3>2
  <2>8. TypeOK'
    BY <2>4, <2>5, <2>6, <2>7 DEF TypeOK
  <2>9. pc'[r] \in {"save", "finish"} => answer'[r] = entry
    BY <2>1
  <2>10. \A q \in Requests \ {r} : pc'[q] = pc[q] /\ answer'[q] = answer[q]
    BY <2>1
  <2>11. KeyAssigned'
    <3> HIDE DEF Answer, NoAnswer, Stop, Failure
    <3>1. pc'[r] # "wait" /\ pc'[r] # "idle"
      BY <2>1
    <3> QED
      BY <2>2, <2>4, <2>9, <2>10, <2>a, <3>1
  <2> QED
    BY <2>8, <2>11
<1>10. ASSUME NEW r \in Requests, FetchOk(r) PROVE TypeOK' /\ KeyAssigned'
  <2>1. key[r] \in Keys /\ answered[key[r]] + 1 \in Nat
    <3>1. pc[r] \notin {"idle", "done"}
      BY <1>10 DEF FetchOk
    <3>2. key[r] \in Keys
      BY <3>1
    <3>3. answered[key[r]] \in Nat
      BY <3>2
    <3> QED
      BY <3>2, <3>3
  <2>2. answered'[key[r]] \in Nat
    BY <1>10, <2>1 DEF FetchOk
  <2>3. Ok(key[r], answered'[key[r]]) \in Stop
    BY <2>1, <2>2
  <2> QED
    BY <1>10, <2>1, <2>3 DEF FetchOk
<1>11. ASSUME NEW r \in Requests, FetchInvalid(r) PROVE TypeOK' /\ KeyAssigned'
  BY <1>11 DEF FetchInvalid
<1>12. ASSUME NEW r \in Requests, FetchFailed(r) PROVE TypeOK' /\ KeyAssigned'
  <2>1. PICK e \in ProviderErrors(r) :
          answer' = [answer EXCEPT ![r] = IF FallsBack(r) THEN stale[r] ELSE Failure(e)]
    BY <1>12 DEF FetchFailed
  <2>2. e \in Failures
    BY <2>1 DEF ProviderErrors
  <2>3. Failure(e) \in Answer
    BY <2>2
  <2> DEFINE a == IF FallsBack(r) THEN stale[r] ELSE Failure(e)
  <2>4. a \in Answer
    <3>1. stale[r] \in Stop \cup {NoAnswer} /\ (FallsBack(r) => stale[r] # NoAnswer)
      BY DEF FallsBack
    <3> QED
      BY ONLY <2>3, <3>1 DEF Answer
  <2>5. answer' = [answer EXCEPT ![r] = a]
    BY <2>1
  <2> HIDE DEF a
  <2> QED
    BY <1>12, <2>4, <2>5 DEF FetchFailed
<1>13. ASSUME NEW r \in Requests, Save(r) PROVE TypeOK' /\ KeyAssigned'
  <2>1. answer[r].gen \in Nat
    OBVIOUS
  <2> QED
    BY <1>13, <2>1 DEF Save
<1>14. ASSUME NEW r \in Requests, SaveFails(r) PROVE TypeOK' /\ KeyAssigned'
  BY <1>14 DEF SaveFails
<1>15. ASSUME NEW r \in Requests, Finish(r) PROVE TypeOK' /\ KeyAssigned'
  BY <1>15 DEF Finish, Published
<1>16. ASSUME NEW k \in Keys, Expire(k) PROVE TypeOK' /\ KeyAssigned'
  BY <1>16 DEF Expire
<1>18. ASSUME NEW k \in Keys, AnsweredElsewhere(k) PROVE TypeOK' /\ KeyAssigned'
  <2>1. answered'[k] \in Nat /\ answered' \in [Keys -> Nat]
    BY <1>18 DEF AnsweredElsewhere
  <2>2. elsewhere[k] \cup {answered'[k]} \in SUBSET Nat
    BY <2>1
  <2>3. elsewhere' \in [Keys -> SUBSET Nat]
    BY <1>18, <2>2 DEF AnsweredElsewhere
  <2> QED
    BY <1>18, <2>1, <2>3 DEF AnsweredElsewhere
<1>19. ASSUME NEW k \in Keys, SavedElsewhere(k) PROVE TypeOK' /\ KeyAssigned'
  <2>1. PICK g \in elsewhere[k] : store' = [store EXCEPT ![k] = [state |-> "fresh", gen |-> g]]
    BY <1>19 DEF SavedElsewhere
  <2>2. g \in Nat
    BY <2>1
  <2> QED
    BY <1>19, <2>1, <2>2 DEF SavedElsewhere
<1>20. ASSUME NEW k \in Keys, Deleted(k) PROVE TypeOK' /\ KeyAssigned'
  BY <1>20 DEF Deleted
<1>17. CASE UNCHANGED vars
  BY <1>17 DEF vars
<1> QED
  BY <1>1, <1>2, <1>3, <1>4, <1>5, <1>6, <1>7, <1>8, <1>9, <1>10, <1>11, <1>12,
     <1>13, <1>14, <1>15, <1>16, <1>17, <1>18, <1>19, <1>20 DEF Next, Proceed


(* Leaders keep their key, waiters their flight and published flights stay *)
(* over, through every step.                                               *)
LEMMA InvStep == IInv /\ [Next]_vars => IInv'
<1> SUFFICES ASSUME IInv, [Next]_vars PROVE IInv'
  OBVIOUS
<1>a. TypeOK /\ KeyAssigned /\ TypeOK' /\ KeyAssigned'
  BY TypeStep DEF IInv
<1> DEFINE Rest == /\ LeadersHoldTheirKey /\ FlightsHaveLeaders /\ WaitersJoined
                   /\ PublishedIsOver /\ CanceledMeansDead /\ EntryKeptBack
                   /\ OutageReported
<1>b. Rest
  BY DEF IInv
<1>c. SUFFICES Rest'
  BY <1>a DEF IInv
<1> USE <1>a, <1>b, NoneAssumption
    DEF LeadersHoldTheirKey, FlightsHaveLeaders, WaitersJoined, PublishedIsOver,
        CanceledMeansDead, EntryKeptBack, OutageReported, NoEntry,
        TypeOK, KeyAssigned, Leading, Failure, NoAnswer, Ok, OpenFlight, Goto, Return
<1>1. ASSUME NEW r \in Requests, NEW k \in Keys, Arrive(r, k) PROVE Rest'
  BY <1>1 DEF Arrive, IsNext
<1>2. ASSUME NEW r \in Requests, ArriveBlank(r) PROVE Rest'
  BY <1>2 DEF ArriveBlank, IsNext
<1>3. ASSUME NEW r \in Requests, Cancel(r) PROVE Rest'
  BY <1>3 DEF Cancel
<1>4. ASSUME NEW r \in Requests, Lead(r) PROVE Rest'
  BY <1>4 DEF Lead
<1>5. ASSUME NEW r \in Requests, Join(r) PROVE Rest'
  BY <1>5 DEF Join
<1>6. ASSUME NEW r \in Requests, GiveUp(r) PROVE Rest'
  BY <1>6 DEF GiveUp
<1>7. ASSUME NEW r \in Requests, Retry(r) PROVE Rest'
  BY <1>7 DEF Retry
<1>8. ASSUME NEW r \in Requests, Share(r) PROVE Rest'
  BY <1>8 DEF Share, Abandoned
<1>9. ASSUME NEW r \in Requests, Load(r) PROVE Rest'
  <2>a. PICK s \in LoadResult(r) :
          /\ pc[r] = "load"
          /\ loaded' = [loaded EXCEPT ![r] = s]
          /\ stale' = [stale EXCEPT ![r] =
                         IF s = "stale" THEN Ok(key[r], store[key[r]].gen) ELSE @]
          /\ \/ /\ s = "fresh" /\ pc' = [pc EXCEPT ![r] = "finish"]
                /\ answer' = [answer EXCEPT ![r] = Ok(key[r], store[key[r]].gen)]
             \/ /\ s # "fresh" /\ pc' = [pc EXCEPT ![r] = "fetch"]
                /\ answer' = answer
          /\ UNCHANGED <<key, live, call, inFlight, flight, store, answered>>
    BY <1>9 DEF Load
  <2>b. s \in EntryState \cup {"unreadable"}
    BY <2>a DEF LoadResult
  <2>1. LeadersHoldTheirKey'
    BY <1>9 DEF Load, LoadResult
  <2>2. FlightsHaveLeaders'
    BY <1>9 DEF Load, LoadResult
  <2>3. WaitersJoined'
    BY <1>9 DEF Load, LoadResult
  <2>4. PublishedIsOver'
    BY <1>9 DEF Load, LoadResult
  <2>5. CanceledMeansDead'
    BY <2>a, <2>b DEF EntryState
  <2>6. EntryKeptBack'
    BY <2>a, <2>b DEF EntryState
  <2>7. OutageReported'
    BY <2>a, <2>b DEF EntryState
  <2> QED
    BY <2>1, <2>2, <2>3, <2>4, <2>5, <2>6, <2>7
<1>10. ASSUME NEW r \in Requests, FetchOk(r) PROVE Rest'
  BY <1>10 DEF FetchOk
<1>11. ASSUME NEW r \in Requests, FetchInvalid(r) PROVE Rest'
  BY <1>11 DEF FetchInvalid
<1>12. ASSUME NEW r \in Requests, FetchFailed(r) PROVE Rest'
  BY <1>12 DEF FetchFailed, ProviderErrors, FallsBack
<1>13. ASSUME NEW r \in Requests, Save(r) PROVE Rest'
  BY <1>13 DEF Save
<1>14. ASSUME NEW r \in Requests, SaveFails(r) PROVE Rest'
  BY <1>14 DEF SaveFails
<1>15. ASSUME NEW r \in Requests, Finish(r) PROVE Rest'
  <2>1. LeadersHoldTheirKey'
    BY <1>15 DEF Finish, Published
  <2>2. FlightsHaveLeaders'
    BY <1>15 DEF Finish, Published
  <2>3. WaitersJoined'
    BY <1>15 DEF Finish, Published
  <2>a. /\ flight'[r].done /\ flight'[r].answer = answer[r]
        /\ flight'[r].leaderCanceled = ~live[r]
    <3>1. flight'[r] = Published(r)
      BY <1>15 DEF Finish
    <3>2. CASE live[r]
      BY <3>1, <3>2 DEF Published
    <3>3. CASE ~live[r]
      BY <3>1, <3>3 DEF Published
    <3> QED
      BY <3>2, <3>3
  <2>b. \A q \in Requests \ {r} : flight'[q] = flight[q] /\ pc'[q] = pc[q]
    BY <1>15 DEF Finish
  <2>c. /\ pc[r] = "finish" /\ pc'[r] = "done"
        /\ UNCHANGED <<live, answer, loaded, stale>>
    BY <1>15 DEF Finish
  <2>4. PublishedIsOver'
    <3> SUFFICES ASSUME NEW q \in Requests, flight'[q].done
                 PROVE /\ pc'[q] = "done"
                       /\ flight'[q].answer.kind = "canceled" => flight'[q].leaderCanceled
      OBVIOUS
    <3>1. CASE q = r
      <4>1. answer[r].kind = "canceled" => ~live[r]
        BY <2>c
      <4> QED
        BY ONLY <3>1, <4>1, <2>a, <2>c, Zenon
    <3>2. CASE q # r
      BY <3>2, <2>b
    <3> QED
      BY <3>1, <3>2
  <2>5. CanceledMeansDead'
    BY <1>15 DEF Finish, Published
  <2>6. EntryKeptBack'
    <3>1. NoEntry(r)' = NoEntry(r) /\ stale' = stale /\ loaded' = loaded
      BY <2>c
    <3>2. flight'[r].answer.kind = "failed" => NoEntry(r) \/ flight'[r].leaderCanceled
      <4>1. answer[r].kind = "failed" => NoEntry(r) \/ ~live[r]
        BY <2>c
      <4> QED
        BY ONLY <4>1, <2>a, Zenon
    <3> QED
      BY <2>b, <2>c, <3>1, <3>2
  <2>7. OutageReported'
    BY <1>15 DEF Finish, Published
  <2> QED
    BY <2>1, <2>2, <2>3, <2>4, <2>5, <2>6, <2>7
<1>16. ASSUME NEW k \in Keys, Expire(k) PROVE Rest'
  BY <1>16 DEF Expire
<1>18. ASSUME NEW k \in Keys, AnsweredElsewhere(k) PROVE Rest'
  BY <1>18 DEF AnsweredElsewhere
<1>19. ASSUME NEW k \in Keys, SavedElsewhere(k) PROVE Rest'
  BY <1>19 DEF SavedElsewhere
<1>20. ASSUME NEW k \in Keys, Deleted(k) PROVE Rest'
  BY <1>20 DEF Deleted
<1>17. CASE UNCHANGED vars
  BY <1>17 DEF vars
<1> QED
  BY <1>1, <1>2, <1>3, <1>4, <1>5, <1>6, <1>7, <1>8, <1>9, <1>10, <1>11, <1>12,
     <1>13, <1>14, <1>15, <1>16, <1>17, <1>18, <1>19, <1>20 DEF Next, Proceed

(* IInv holds in every reachable state. *)
LEMMA Invariant == Spec => []IInv
<1>1. Init => IInv
  BY NoneAssumption
     DEF Init, IInv, TypeOK, KeyAssigned, LeadersHoldTheirKey, FlightsHaveLeaders,
         WaitersJoined, PublishedIsOver, CanceledMeansDead, EntryKeptBack, NoEntry,
         OutageReported, PC, Leading, EntryState, OpenFlight, NoAnswer, Failure
<1>2. QED
  BY <1>1, InvStep, PTL DEF Spec

(* Every variable of the cache keeps its type, for any requests and keys. *)
THEOREM TypeCorrect == Spec => []TypeOK
<1>1. IInv => TypeOK
  BY DEF IInv
<1>2. QED
  BY <1>1, Invariant, PTL

(* The provider is never asked for one key by two requests at once: both   *)
(* would have to be the leader that inFlight names.                        *)
THEOREM ProviderCallsAreExclusive == Spec => []SingleProviderCall
<1>1. IInv => SingleProviderCall
  BY DEF IInv, LeadersHoldTheirKey, Leading, SingleProviderCall
<1>2. QED
  BY <1>1, Invariant, PTL

(* A waiting follower always has a published flight, or a leader at work   *)
(* that will publish it.                                                   *)
THEOREM FollowersAreServed == Spec => []NoStrandedFollower
<1>1. IInv => NoStrandedFollower
  BY NoneAssumption DEF IInv, TypeOK, KeyAssigned, WaitersJoined, FlightsHaveLeaders,
                        NoStrandedFollower
<1>2. QED
  BY <1>1, Invariant, PTL

(* No caller with a live context is ever told that a context was canceled. *)
THEOREM CancellationStaysPrivate == Spec => []CancellationIsPrivate
<1>1. IInv => CancellationIsPrivate
  BY DEF IInv, CanceledMeansDead, CancellationIsPrivate
<1>2. QED
  BY <1>1, Invariant, PTL

(* A live caller learns of a provider outage only from a flight that had   *)
(* no readable entry to fall back to.                                      *)
THEOREM OutagesAreCovered == Spec => []ExpiredEntryCoversOutage
<1>1. IInv => ExpiredEntryCoversOutage
  BY DEF IInv, OutageReported, NoEntry, ExpiredEntryCoversOutage
<1>2. QED
  BY <1>1, Invariant, PTL

(* What a flight for key k may end with: an answer the provider has given  *)
(* for that key, or an error.                                              *)
Given(a, k) == a = Ok(k, a.gen) /\ a.gen \in 0..answered[k]
Outcome(a, k) == Given(a, k) \/ a \in {Failure(e) : e \in {"failed", "invalid", "canceled"}}

(* Nothing is on disk, with another process or in the hands of a request   *)
(* that the provider has not given for its key, and a leader is about to   *)
(* save the newest answer this process was given.                          *)
StoreIsGiven ==
  \A k \in Keys : store[k].gen <= answered[k] /\ elsewhere[k] \subseteq 0..answered[k]

Newest(a, k) == a.gen \notin elsewhere[k] /\ a.gen + 1 .. answered[k] \subseteq elsewhere[k]

AnswersAreGiven ==
  \A r \in Requests :
    /\ stale[r] # NoAnswer => pc[r] = "fetch" /\ Given(stale[r], key[r])
    /\ pc[r] = "save" => Given(answer[r], key[r]) /\ Newest(answer[r], key[r])
    /\ pc[r] = "finish" => Outcome(answer[r], key[r])
    /\ flight[r].done => Outcome(flight[r].answer, key[r])

GivenInv == IInv /\ NoRedundantFetch /\ StoreIsGiven /\ AnswersAreGiven

(* While a leader is between Load and Save no other request of the process *)
(* asks for its key or saves to it, and no step brings an answer that the  *)
(* provider has not given.                                                 *)
LEMMA GivenStep == GivenInv /\ [Next]_vars => GivenInv'
<1> SUFFICES ASSUME GivenInv, [Next]_vars PROVE GivenInv'
  OBVIOUS
<1>a. IInv /\ IInv'
  BY InvStep DEF GivenInv
<1>b. TypeOK /\ TypeOK' /\ KeyAssigned /\ LeadersHoldTheirKey /\ PublishedIsOver
  BY <1>a DEF IInv
<1> DEFINE Rest == NoRedundantFetch /\ StoreIsGiven /\ AnswersAreGiven
<1>c. Rest
  BY DEF GivenInv
<1>d. SUFFICES Rest'
  BY <1>a DEF GivenInv
<1> USE <1>b, <1>c, NoneAssumption
    DEF NoRedundantFetch, StoreIsGiven, AnswersAreGiven, Given, Newest, Outcome, LeadersHoldTheirKey,
        PublishedIsOver, TypeOK, KeyAssigned, Leading, Failure, NoAnswer, Ok, OpenFlight,
        Goto, Return
<1>1. ASSUME NEW r \in Requests, NEW k \in Keys, Arrive(r, k) PROVE Rest'
  <2>1. /\ pc[r] = "idle" /\ pc' = [pc EXCEPT ![r] = "begin"]
        /\ key' = [key EXCEPT ![r] = k]
        /\ UNCHANGED <<loaded, stale, answer, flight, store, answered, elsewhere>>
    BY <1>1 DEF Arrive, IsNext
  <2>2. stale[r] = NoAnswer /\ ~flight[r].done
    BY <2>1
  <2> QED
    BY <2>1, <2>2
<1>2. ASSUME NEW r \in Requests, ArriveBlank(r) PROVE Rest'
  BY <1>2 DEF ArriveBlank, IsNext
<1>3. ASSUME NEW r \in Requests, Cancel(r) PROVE Rest'
  BY <1>3 DEF Cancel
<1>4. ASSUME NEW r \in Requests, Lead(r) PROVE Rest'
  BY <1>4 DEF Lead
<1>5. ASSUME NEW r \in Requests, Join(r) PROVE Rest'
  BY <1>5 DEF Join
<1>6. ASSUME NEW r \in Requests, GiveUp(r) PROVE Rest'
  BY <1>6 DEF GiveUp
<1>7. ASSUME NEW r \in Requests, Retry(r) PROVE Rest'
  BY <1>7 DEF Retry
<1>8. ASSUME NEW r \in Requests, Share(r) PROVE Rest'
  BY <1>8 DEF Share, Abandoned
<1>9. ASSUME NEW r \in Requests, Load(r) PROVE Rest'
  BY <1>9 DEF Load, LoadResult
<1>10. ASSUME NEW r \in Requests, FetchOk(r) PROVE Rest'
  BY <1>10 DEF FetchOk
<1>11. ASSUME NEW r \in Requests, FetchInvalid(r) PROVE Rest'
  BY <1>11 DEF FetchInvalid
<1>12. ASSUME NEW r \in Requests, FetchFailed(r) PROVE Rest'
  BY <1>12 DEF FetchFailed, ProviderErrors, FallsBack
<1>13. ASSUME NEW r \in Requests, Save(r) PROVE Rest'
  <2>1. /\ pc[r] = "save" /\ pc' = [pc EXCEPT ![r] = "finish"]
        /\ store' = [store EXCEPT ![key[r]] = [state |-> "fresh", gen |-> answer[r].gen]]
        /\ UNCHANGED <<key, loaded, stale, answer, flight, answered, elsewhere>>
    BY <1>13 DEF Save
  <2>2. NoRedundantFetch'
    BY <2>1
  <2>a. answer[r].gen \in 0..answered[key[r]]
    BY <2>1
  <2>3. StoreIsGiven'
    BY <2>1, <2>a
  <2>4. AnswersAreGiven'
    BY <2>1
  <2> QED
    BY <2>2, <2>3, <2>4
<1>14. ASSUME NEW r \in Requests, SaveFails(r) PROVE Rest'
  BY <1>14 DEF SaveFails
<1>15. ASSUME NEW r \in Requests, Finish(r) PROVE Rest'
  BY <1>15 DEF Finish, Published
<1>16. ASSUME NEW k \in Keys, Expire(k) PROVE Rest'
  BY <1>16 DEF Expire
<1>18. ASSUME NEW k \in Keys, AnsweredElsewhere(k) PROVE Rest'
  <2>1. /\ answered' = [answered EXCEPT ![k] = @ + 1]
        /\ elsewhere' = [elsewhere EXCEPT ![k] = @ \cup {answered[k] + 1}]
        /\ UNCHANGED <<pc, key, loaded, stale, answer, flight, store>>
    BY <1>18 DEF AnsweredElsewhere
  <2>2. \A j \in Keys : elsewhere[j] \subseteq elsewhere'[j] /\ answered[j] \in 0..answered'[j]
    BY <2>1
  <2>3. NoRedundantFetch'
    BY <2>1, <2>2
  <2>4. StoreIsGiven'
    BY <2>1
  <2>5. \A a, j : j \in Keys /\ Given(a, j) => Given(a, j)'
    BY <2>1
  <2>6. \A a, j : j \in Keys /\ Given(a, j) /\ Newest(a, j) => Newest(a, j)'
    <3> SUFFICES ASSUME NEW a, NEW j \in Keys, Given(a, j), Newest(a, j) PROVE Newest(a, j)'
      OBVIOUS
    <3>1. CASE j = k
      <4>1. a.gen \in 0..answered[k] /\ a.gen # answered[k] + 1
        BY <3>1
      <4>2. answered'[k] = answered[k] + 1 /\ elsewhere'[k] = elsewhere[k] \cup {answered[k] + 1}
        BY <2>1
      <4> QED
        BY <3>1, <4>1, <4>2
    <3>2. CASE j # k
      BY <2>1, <3>2
    <3> QED
      BY <3>1, <3>2
  <2>7. AnswersAreGiven'
    <3>1. \A a \in Answer : \A j : Given(a, j) => j \in Keys
      BY DEF Answer, Stop, Failures
    <3>2. \A q \in Requests : /\ stale[q] # NoAnswer => stale[q] \in Answer
                              /\ pc[q] \in {"save", "finish"} => answer[q] \in Answer
                              /\ flight[q].done => flight[q].answer \in Answer
      BY PublishedIsAnswered DEF Answer
    <3> HIDE DEF Given, Newest, Answer, NoAnswer, Failure
    <3> QED
      BY <2>1, <2>5, <2>6, <3>1, <3>2
  <2> QED
    BY <2>3, <2>4, <2>7
<1>19. ASSUME NEW k \in Keys, SavedElsewhere(k) PROVE Rest'
  BY <1>19 DEF SavedElsewhere
<1>20. ASSUME NEW k \in Keys, Deleted(k) PROVE Rest'
  BY <1>20 DEF Deleted
<1>17. CASE UNCHANGED vars
  BY <1>17 DEF vars
<1> QED
  BY <1>1, <1>2, <1>3, <1>4, <1>5, <1>6, <1>7, <1>8, <1>9, <1>10, <1>11, <1>12,
     <1>13, <1>14, <1>15, <1>16, <1>17, <1>18, <1>19, <1>20 DEF Next, Proceed

LEMMA GivenInvariant == Spec => []GivenInv
<1>1. Init => GivenInv
  BY NoneAssumption
     DEF Init, GivenInv, IInv, TypeOK, KeyAssigned, LeadersHoldTheirKey, FlightsHaveLeaders,
         WaitersJoined, PublishedIsOver, CanceledMeansDead, EntryKeptBack, NoEntry,
         OutageReported, PC, Leading, EntryState, OpenFlight, NoAnswer, Failure,
         NoRedundantFetch, StoreIsGiven, AnswersAreGiven
<1>2. QED
  BY <1>1, GivenStep, PTL DEF Spec

(* A request to the provider has a fresh entry next to it only if another  *)
(* process put it there, or the entry could not be read.                   *)
THEOREM FetchesAreNeeded == Spec => []NoRedundantFetch
<1>1. GivenInv => NoRedundantFetch
  BY DEF GivenInv
<1>2. QED
  BY <1>1, GivenInvariant, PTL

(* Whatever other processes do to the entries, this one saves its answers  *)
(* in the order it was given them.                                         *)
THEOREM OwnAnswersInOrder == Spec => SavesNewestAnswer
<1> DEFINE InOrder == \A k \in Keys :
                        /\ store'[k] # store[k] /\ store'[k].state = "fresh"
                        /\ store'[k].gen \notin elsewhere[k]
                        => store'[k].gen + 1 .. answered[k] \subseteq elsewhere[k]
<1>1. GivenInv /\ [Next]_vars => [InOrder]_vars
  <2> SUFFICES ASSUME GivenInv, Next PROVE InOrder
    OBVIOUS
  <2> USE DEF GivenInv, IInv, TypeOK, EntryState
  <2>1. CASE UNCHANGED store
    BY <2>1
  <2>2. ASSUME NEW r \in Requests, Save(r) PROVE InOrder
    BY <2>2 DEF Save, KeyAssigned, AnswersAreGiven, Newest
  <2>3. ASSUME NEW k \in Keys, Expire(k) \/ Deleted(k) PROVE InOrder
    BY <2>3 DEF Expire, Deleted
  <2>4. ASSUME NEW k \in Keys, SavedElsewhere(k) PROVE InOrder
    BY <2>4 DEF SavedElsewhere
  <2> QED
    BY <2>1, <2>2, <2>3, <2>4 DEF Next, Proceed, Arrive, ArriveBlank, Cancel, Lead, Join, GiveUp,
       Retry, Share, Load, FetchOk, FetchInvalid, FetchFailed, SaveFails, Finish, AnsweredElsewhere
<1>2. QED
  BY <1>1, GivenInvariant, PTL DEF Spec, SavesNewestAnswer

(* A step of a call that stays inside Geocode is not seen from outside, ... *)
LEMMA InsideIsHidden ==
  ASSUME TypeOK, NEW r \in Requests, NEW l \in PC \ {"idle", "done"}, pc[r] \notin {"idle", "done"},
         pc' = [pc EXCEPT ![r] = l], \A q \in Requests \ {r} : answer'[q] = answer[q]
  PROVE  Status' = Status /\ Visible' = Visible
<1>1. \A q \in Requests \ {r} : pc'[q] = pc[q]
  BY DEF TypeOK
<1>2. pc'[r] \notin {"idle", "done"}
  BY DEF TypeOK
<1>3. ASSUME NEW q \in Requests PROVE Status'[q] = Status[q] /\ Visible'[q] = Visible[q]
  BY <1>1, <1>2 DEF Status, Visible
<1> QED
  BY <1>3 DEF Status, Visible

(* ... a return is its answer, ...                                         *)
LEMMA ReturnIsReply ==
  ASSUME TypeOK, NEW r \in Requests, NEW a, pc[r] # "done", Return(r, a)
  PROVE  /\ Status' = [Status EXCEPT ![r] = "answered"]
         /\ Visible' = [Visible EXCEPT ![r] = a]
<1>1. \A q \in Requests \ {r} : pc'[q] = pc[q] /\ answer'[q] = answer[q]
  BY DEF TypeOK, Return, Goto
<1>2. pc'[r] = "done" /\ answer'[r] = a
  BY DEF TypeOK, Return, Goto
<1> QED
  BY <1>1, <1>2 DEF Status, Visible

(* ... and the provider is asked for the keys of calls at "fetch".         *)
LEMMA AskingFollowsFetch ==
  ASSUME TypeOK, SingleProviderCall, NEW r \in Requests, NEW l, pc' = [pc EXCEPT ![r] = l]
  PROVE  /\ key' = key /\ pc[r] # "fetch" /\ l # "fetch" => Asking' = Asking
         /\ key' = key /\ pc[r] # "fetch" /\ l = "fetch" => Asking' = Asking \cup {key[r]}
         /\ key' = key /\ pc[r] = "fetch" /\ l # "fetch" => Asking' = Asking \ {key[r]}
         /\ pc[r] = "fetch" => key[r] \in Asking
<1>1. pc'[r] = l /\ \A q \in Requests \ {r} : pc'[q] = pc[q]
  BY DEF TypeOK
<1>2. \A k : k \in Asking <=> \E q \in Requests : pc[q] = "fetch" /\ key[q] = k
  BY DEF Asking
<1>3. \A k : k \in Asking' <=> \E q \in Requests : pc'[q] = "fetch" /\ key'[q] = k
  BY DEF Asking
<1>4. CASE key' = key /\ pc[r] # "fetch" /\ l # "fetch"
  BY <1>1, <1>2, <1>3, <1>4
<1>5. CASE key' = key /\ pc[r] # "fetch" /\ l = "fetch"
  <2>1. \A k : k \in Asking' <=> k \in Asking \/ k = key[r]
    BY <1>1, <1>2, <1>3, <1>5
  <2> QED
    BY <2>1, <1>5
<1>6. CASE key' = key /\ pc[r] = "fetch" /\ l # "fetch"
  <2>1. \A k : k \in Asking' <=> k \in Asking /\ k # key[r]
    BY <1>1, <1>2, <1>3, <1>6 DEF SingleProviderCall
  <2> QED
    BY <2>1, <1>2, <1>6
<1> QED
  BY <1>2, <1>4, <1>5, <1>6

(* Whatever a call returns, the lookup service may answer in that state. *)
LEMMA OutcomesArePermitted ==
  ASSUME NEW r \in Requests, NEW a, Outcome(a, key[r]), a.kind = "canceled" => ~live[r]
  PROVE  a \in Lookup!Permitted(r)
<1>1. CASE Given(a, key[r])
  <2>1. a = [kind |-> "ok", key |-> key[r], gen |-> a.gen] /\ a.gen \in 0..answered[key[r]]
    BY <1>1 DEF Given, Ok
  <2> QED
    BY <2>1 DEF Lookup!Permitted
<1>2. CASE a \in {Failure("failed"), Failure("invalid")}
  BY <1>2 DEF Lookup!Permitted, Lookup!NoKeyAnswer, Failure
<1>3. CASE a = Failure("canceled")
  <2>1. ~live[r]
    BY <1>3 DEF Failure
  <2> QED
    BY <1>3, <2>1 DEF Lookup!Permitted, Lookup!Canceled, Lookup!NoKeyAnswer, Failure
<1> QED
  BY <1>1, <1>2, <1>3 DEF Outcome

(* Every step of the cache is a step of the lookup service, or none. *)
LEMMA LookupStep == GivenInv /\ [Next]_vars => [Lookup!ANext]_(Lookup!avars)
<1> SUFFICES ASSUME GivenInv, [Next]_vars PROVE [Lookup!ANext]_(Lookup!avars)
  OBVIOUS
<1>a. IInv /\ TypeOK /\ KeyAssigned /\ AnswersAreGiven
  BY DEF GivenInv, IInv
<1>b. SingleProviderCall
  BY <1>a DEF IInv, LeadersHoldTheirKey, Leading, SingleProviderCall
<1> USE <1>a, <1>b
<1>q. ASSUME UNCHANGED <<Status, key, live, Visible, Asking, answered, elsewhere>>
      PROVE [Lookup!ANext]_(Lookup!avars)
  BY <1>q DEF Lookup!avars
<1>r. ASSUME NEW r \in Requests, NEW a, pc[r] \notin {"idle", "done", "fetch"}, Return(r, a),
             a \in Lookup!Permitted(r), UNCHANGED <<key, live, answered, elsewhere>>
      PROVE [Lookup!ANext]_(Lookup!avars)
  <2>1. /\ Status' = [Status EXCEPT ![r] = "answered"]
        /\ Visible' = [Visible EXCEPT ![r] = a]
    BY <1>r, ReturnIsReply
  <2>2. Asking' = Asking
    BY <1>r, AskingFollowsFetch DEF Return, Goto
  <2>3. Status[r] = "open"
    BY <1>r DEF Status
  <2>4. Lookup!Reply(r)
    BY <1>r, <2>1, <2>2, <2>3 DEF Lookup!Reply
  <2> QED
    BY <2>4 DEF Lookup!ANext
<1>s. ASSUME NEW r \in Requests, NEW l \in PC \ {"idle", "done", "fetch"}, Goto(r, l),
             pc[r] \notin {"idle", "done", "fetch"}, \A q \in Requests \ {r} : answer'[q] = answer[q],
             UNCHANGED <<key, live, answered, elsewhere>>
      PROVE [Lookup!ANext]_(Lookup!avars)
  <2>1. Status' = Status /\ Visible' = Visible
    BY <1>s, InsideIsHidden DEF Goto
  <2>2. Asking' = Asking
    BY <1>s, AskingFollowsFetch DEF Goto
  <2> QED
    BY <1>s, <2>1, <2>2, <1>q
<1>t. ASSUME NEW r \in Requests, NEW l \in {"save", "finish"}, Goto(r, l), pc[r] = "fetch",
             \A q \in Requests \ {r} : answer'[q] = answer[q],
             answered' \in {answered, [answered EXCEPT ![key[r]] = @ + 1]},
             UNCHANGED <<key, live, elsewhere>>
      PROVE [Lookup!ANext]_(Lookup!avars)
  <2>1. Status' = Status /\ Visible' = Visible
    BY <1>t, InsideIsHidden DEF Goto, PC, Leading
  <2>2. Asking' = Asking \ {key[r]} /\ key[r] \in Asking
    BY <1>t, AskingFollowsFetch DEF Goto
  <2>3. Lookup!ProviderReturns(key[r])
    BY <1>t, <2>1, <2>2 DEF Lookup!ProviderReturns
  <2>4. key[r] \in Keys
    BY <1>t DEF KeyAssigned
  <2> QED
    BY <2>3, <2>4 DEF Lookup!ANext
<1>1. ASSUME NEW r \in Requests, NEW k \in Keys, Arrive(r, k) PROVE Lookup!ANext
  <2>1. /\ pc[r] = "idle" /\ pc' = [pc EXCEPT ![r] = "begin"]
        /\ key' = [key EXCEPT ![r] = k]
        /\ UNCHANGED <<live, answer, answered, elsewhere>>
    BY <1>1 DEF Arrive, IsNext, Goto
  <2>2. pc'[r] = "begin" /\ \A q \in Requests \ {r} : pc'[q] = pc[q] /\ key'[q] = key[q]
    BY <2>1 DEF TypeOK
  <2>3. Status[r] = "idle" /\ Status' = [Status EXCEPT ![r] = "open"]
    BY <2>1, <2>2 DEF Status
  <2>4. Visible' = Visible
    BY <2>1, <2>2 DEF Visible
  <2>5. Asking' = Asking
    BY <2>1, <2>2 DEF Asking
  <2>6. Lookup!Ask(r, k)
    BY <2>1, <2>3, <2>4, <2>5 DEF Lookup!Ask
  <2> QED
    BY <2>6 DEF Lookup!ANext
<1>2. ASSUME NEW r \in Requests, ArriveBlank(r) PROVE Lookup!ANext
  <2>1. /\ Status' = [Status EXCEPT ![r] = "answered"]
        /\ Visible' = [Visible EXCEPT ![r] = Failure("blank")]
    BY <1>2, ReturnIsReply DEF ArriveBlank, IsNext
  <2>2. Status[r] = "idle"
    BY <1>2 DEF Status, ArriveBlank, IsNext
  <2>3. Asking' = Asking
    BY <1>2, AskingFollowsFetch DEF ArriveBlank, IsNext, Return, Goto
  <2>4. Lookup!Refuse(r)
    BY <1>2, <2>1, <2>2, <2>3 DEF ArriveBlank, Lookup!Refuse, Lookup!NoKeyAnswer, Failure
  <2> QED
    BY <2>4 DEF Lookup!ANext
<1>3. ASSUME NEW r \in Requests, Cancel(r) PROVE Lookup!ANext
  <2>1. UNCHANGED <<Status, Visible, Asking>>
    BY <1>3 DEF Cancel, Status, Visible, Asking
  <2>2. Status[r] # "answered"
    BY <1>3 DEF Cancel, Status
  <2>3. Lookup!End(r)
    BY <1>3, <2>1, <2>2 DEF Cancel, Lookup!End
  <2> QED
    BY <2>3 DEF Lookup!ANext
<1>4. ASSUME NEW r \in Requests, Lead(r) PROVE [Lookup!ANext]_(Lookup!avars)
  BY <1>4, <1>s DEF Lead, PC, Leading
<1>5. ASSUME NEW r \in Requests, Join(r) PROVE [Lookup!ANext]_(Lookup!avars)
  BY <1>5, <1>s DEF Join, PC
<1>6. ASSUME NEW r \in Requests, GiveUp(r) PROVE [Lookup!ANext]_(Lookup!avars)
  <2>1. Failure("canceled") \in Lookup!Permitted(r)
    BY <1>6 DEF GiveUp, Lookup!Permitted, Lookup!Canceled, Lookup!NoKeyAnswer, Failure
  <2> QED
    BY <1>6, <2>1, <1>r DEF GiveUp
<1>7. ASSUME NEW r \in Requests, Retry(r) PROVE [Lookup!ANext]_(Lookup!avars)
  BY <1>7, <1>s DEF Retry, PC
<1>8. ASSUME NEW r \in Requests, Share(r) PROVE [Lookup!ANext]_(Lookup!avars)
  <2> DEFINE f == call[r]
  <2>1. f \in Requests /\ key[f] = key[r] /\ flight[f].done
    BY <1>8 DEF Share, KeyAssigned, IInv, WaitersJoined
  <2>2. Outcome(flight[f].answer, key[r])
    BY <2>1 DEF AnswersAreGiven
  <2>3. flight[f].answer.kind = "canceled" => ~live[r]
    BY <1>8, <2>1 DEF Share, Abandoned, IInv, PublishedIsOver
  <2>4. flight[f].answer \in Lookup!Permitted(r)
    BY <2>2, <2>3, OutcomesArePermitted
  <2> QED
    BY <1>8, <2>4, <1>r DEF Share
<1>9. ASSUME NEW r \in Requests, Load(r) PROVE [Lookup!ANext]_(Lookup!avars)
  <2>1. /\ pc[r] = "load" /\ UNCHANGED <<key, live, answered, elsewhere>>
        /\ \/ Goto(r, "finish") /\ \E a : answer' = [answer EXCEPT ![r] = a]
           \/ Goto(r, "fetch") /\ answer' = answer
    BY <1>9 DEF Load
  <2>2. CASE Goto(r, "finish")
    BY <2>1, <2>2, <1>s DEF PC, Leading, TypeOK
  <2>3. CASE Goto(r, "fetch") /\ answer' = answer
    <3>1. Status' = Status /\ Visible' = Visible
      BY <2>1, <2>3, InsideIsHidden DEF Goto, PC, Leading
    <3>2. Asking' = Asking \cup {key[r]}
      BY <2>1, <2>3, AskingFollowsFetch DEF Goto
    <3>3. key[r] \notin Asking
      BY <2>1 DEF Asking, IInv, LeadersHoldTheirKey, Leading
    <3>4. Status[r] = "open" /\ key[r] \in Keys
      BY <2>1 DEF Status, KeyAssigned
    <3>5. Lookup!CallProvider(key[r])
      BY <2>1, <3>1, <3>2, <3>3, <3>4 DEF Lookup!CallProvider
    <3> QED
      BY <3>4, <3>5 DEF Lookup!ANext
  <2> QED
    BY <2>1, <2>2, <2>3
<1>10. ASSUME NEW r \in Requests, FetchOk(r) PROVE [Lookup!ANext]_(Lookup!avars)
  BY <1>10, <1>t DEF FetchOk, TypeOK
<1>11. ASSUME NEW r \in Requests, FetchInvalid(r) PROVE [Lookup!ANext]_(Lookup!avars)
  BY <1>11, <1>t DEF FetchInvalid, TypeOK
<1>12. ASSUME NEW r \in Requests, FetchFailed(r) PROVE [Lookup!ANext]_(Lookup!avars)
  BY <1>12, <1>t DEF FetchFailed, TypeOK
<1>13. ASSUME NEW r \in Requests, Save(r) \/ SaveFails(r) PROVE [Lookup!ANext]_(Lookup!avars)
  BY <1>13, <1>s DEF Save, SaveFails, PC, Leading
<1>14. ASSUME NEW r \in Requests, Finish(r) PROVE [Lookup!ANext]_(Lookup!avars)
  <2>1. answer[r].kind = "canceled" => ~live[r]
    BY <1>14 DEF Finish, IInv, CanceledMeansDead
  <2>2. answer[r] \in Lookup!Permitted(r)
    BY <1>14, <2>1, OutcomesArePermitted DEF Finish, AnswersAreGiven
  <2>3. Return(r, answer[r])
    BY <1>14 DEF Finish, Return, TypeOK
  <2> QED
    BY <1>14, <2>2, <2>3, <1>r DEF Finish
<1>15. ASSUME NEW k \in Keys, Expire(k) PROVE [Lookup!ANext]_(Lookup!avars)
  BY <1>15, <1>q DEF Expire, Status, Visible, Asking
<1>17. ASSUME NEW k \in Keys, AnsweredElsewhere(k) PROVE Lookup!ANext
  <2>1. UNCHANGED <<Status, key, live, Visible, Asking>>
    BY <1>17 DEF AnsweredElsewhere, Status, Visible, Asking
  <2>2. Lookup!AnsweredElsewhere(k)
    BY <1>17, <2>1 DEF AnsweredElsewhere, Lookup!AnsweredElsewhere
  <2> QED
    BY <2>2 DEF Lookup!ANext
<1>18. ASSUME NEW k \in Keys, SavedElsewhere(k) \/ Deleted(k)
       PROVE  [Lookup!ANext]_(Lookup!avars)
  BY <1>18, <1>q DEF SavedElsewhere, Deleted, Status, Visible, Asking
<1>16. CASE UNCHANGED vars
  BY <1>16, <1>q DEF vars, Status, Visible, Asking
<1> QED
  BY <1>1, <1>2, <1>3, <1>4, <1>5, <1>6, <1>7, <1>8, <1>9, <1>10, <1>11, <1>12,
     <1>13, <1>14, <1>15, <1>16, <1>17, <1>18 DEF Next, Proceed

(* Coalescing calls, retrying after a canceled leader, caching and falling *)
(* back to an expired entry implement the plain lookup service.            *)
THEOREM CacheImplementsLookup == Spec => ImplementsLookup
<1>1. Init => Lookup!AInit
  BY DEF Init, Lookup!AInit, Lookup!NoKeyAnswer, Status, Visible, Asking, NoAnswer, Failure
<1>2. QED
  BY <1>1, LookupStep, GivenInvariant, PTL DEF Spec, ImplementsLookup, Lookup!ASpec
============================================================================
