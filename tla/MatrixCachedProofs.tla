------------------------- MODULE MatrixCachedProofs -------------------------
(***************************************************************************)
(* Proofs about MatrixCached for any set of requests and keys.  As in the  *)
(* geocode cache, leaders own their key and waiters have joined a flight;  *)
(* what is particular is Outcomes: a flight ends with the answer of its    *)
(* leader, and whoever stays on it returns that very answer.               *)
(***************************************************************************)
EXTENDS MatrixCached, TLAPS

Leading == {"load", "fetch", "save", "finish"}
PC      == {"idle", "begin", "wait", "done"} \cup Leading
Matrix  == [kind : {"ok"}, key : Keys, gen : Nat]
Answer  == Matrix \cup {Failure(e) : e \in {"canceled", "failed", "none"}}

Types ==
  /\ pc       \in [Requests -> PC]
  /\ key      \in [Requests -> Keys \cup {None}]
  /\ live     \in [Requests -> BOOLEAN]
  /\ call     \in [Requests -> Requests \cup {None}]
  /\ loaded   \in [Requests -> EntryState \cup {"unread", "unreadable"}]
  /\ stale    \in [Requests -> Matrix \cup {NoAnswer}]
  /\ answer   \in [Requests -> Answer]
  /\ inFlight \in [Keys -> Requests \cup {None}]
  /\ flight   \in [Requests -> [done : BOOLEAN, answer : Answer]]
  /\ store    \in [Keys -> [state : EntryState, gen : Nat]]
  /\ answered \in [Keys -> Nat]
  /\ elsewhere \in [Keys -> SUBSET Nat]
  /\ \A r \in Requests : pc[r] \notin {"idle", "done"} => key[r] \in Keys

(* A leader holds its key, and the map names leaders of the key only. *)
Leaders ==
  /\ \A r \in Requests : pc[r] \in Leading => inFlight[key[r]] = r /\ call[r] = r
  /\ \A k \in Keys : inFlight[k] # None => pc[inFlight[k]] \in Leading /\ key[inFlight[k]] = k

(* Whoever has joined a flight has joined that of a leader, which is at    *)
(* work, or over and published.                                            *)
Joined ==
  \A r \in Requests :
    /\ pc[r] \in {"wait", "done"} => call[r] \in Requests
    /\ call[r] # None => call[call[r]] = call[r] /\ pc[call[r]] \in Leading \cup {"done"}

Outcomes ==
  \A r \in Requests :
    /\ flight[r].done => pc[r] = "done" /\ flight[r].answer = answer[r]
    /\ pc[r] = "done" /\ live[r] => pc[call[r]] = "done" /\ answer[r] = answer[call[r]]

(* A leader is out of the provider's answers only without an entry, or     *)
(* with its own context ended.                                             *)
NoEntry(r) == loaded[r] \in {"missing", "unreadable"}

Outages ==
  \A r \in Requests :
    /\ pc[r] = "fetch" => NoEntry(r) \/ stale[r] # NoAnswer
    /\ pc[r] = "save" => answer[r].kind = "ok"
    /\ pc[r] \in {"finish", "done"} /\ call[r] = r /\ answer[r].kind = "failed" =>
         NoEntry(r) \/ ~live[r]

MInv == Types /\ Leaders /\ Joined /\ Outcomes /\ Outages /\ NoRedundantFetch

(* What Load leaves behind: an entry at hand that is fresh is the answer,  *)
(* one that is stale is kept back.                                         *)
LEMMA LoadDoes ==
  ASSUME Types, NEW r \in Requests, Load(r)
  PROVE  \E s \in EntryState \cup {"unreadable"} :
           /\ pc[r] = "load" /\ s # "unreadable" => s = store[key[r]].state
           /\ loaded' = [loaded EXCEPT ![r] = s]
           /\ stale' = [stale EXCEPT ![r] =
                          IF s = "stale" THEN Ok(key[r], store[key[r]].gen) ELSE stale[r]]
           /\ \/ /\ s = "fresh" /\ pc' = [pc EXCEPT ![r] = "finish"]
                 /\ answer' = [answer EXCEPT ![r] = Ok(key[r], store[key[r]].gen)]
              \/ /\ s # "fresh" /\ pc' = [pc EXCEPT ![r] = "fetch"]
                 /\ answer' = answer
<1>1. PICK s \in LoadResult(r) :
        /\ loaded' = [loaded EXCEPT ![r] = s]
        /\ stale' = [stale EXCEPT ![r] = IF s = "stale" THEN Ok(key[r], store[key[r]].gen) ELSE @]
        /\ IF s = "fresh"
             THEN answer' = [answer EXCEPT ![r] = Ok(key[r], store[key[r]].gen)] /\ Goto(r, "finish")
             ELSE Goto(r, "fetch") /\ UNCHANGED answer
  BY DEF Load
<1>2. pc[r] = "load" /\ key[r] \in Keys
  BY DEF Load, Types
<1>3. s \in EntryState \cup {"unreadable"} /\ (s # "unreadable" => s = store[key[r]].state)
  BY <1>1, <1>2 DEF LoadResult, Types
<1> QED
  BY <1>1, <1>2, <1>3 DEF Goto

(* Every variable keeps its type through every step of Cached.Durations. *)
LEMMA TypesStep == Types /\ Joined /\ [Next]_vars => Types'
<1> SUFFICES ASSUME Types, Joined, [Next]_vars PROVE Types'
  OBVIOUS
<1> USE NoneAssumption DEF Types, Joined, PC, Leading, Matrix, Answer, EntryState, Failure, NoAnswer, Ok,
            Goto, Return
<1>1. ASSUME NEW r \in Requests, NEW k \in Keys, Arrive(r, k) PROVE Types'
  BY <1>1 DEF Arrive, IsNext
<1>2. ASSUME NEW r \in Requests, Cancel(r) PROVE Types'
  BY <1>2 DEF Cancel
<1>3. ASSUME NEW r \in Requests, Lead(r) PROVE Types'
  BY <1>3 DEF Lead
<1>4. ASSUME NEW r \in Requests, Join(r) PROVE Types'
  BY <1>4 DEF Join
<1>5. ASSUME NEW r \in Requests, GiveUp(r) PROVE Types'
  BY <1>5 DEF GiveUp
<1>6. ASSUME NEW r \in Requests, Share(r) PROVE Types'
  BY <1>6 DEF Share
<1>7. ASSUME NEW r \in Requests, Load(r) PROVE Types'
  <2>1. PICK s \in EntryState \cup {"unreadable"} :
          /\ loaded' = [loaded EXCEPT ![r] = s]
          /\ stale' = [stale EXCEPT ![r] =
                         IF s = "stale" THEN Ok(key[r], store[key[r]].gen) ELSE stale[r]]
          /\ answer' \in {answer, [answer EXCEPT ![r] = Ok(key[r], store[key[r]].gen)]}
          /\ pc' \in {[pc EXCEPT ![r] = "finish"], [pc EXCEPT ![r] = "fetch"]}
    BY <1>7, LoadDoes
  <2>2. key[r] \in Keys /\ UNCHANGED <<key, live, call, inFlight, flight, store, answered, elsewhere>>
    BY <1>7 DEF Load
  <2>3. Ok(key[r], store[key[r]].gen) \in Matrix
    BY <2>2
  <2>4. /\ pc' \in [Requests -> PC] /\ loaded' \in [Requests -> EntryState \cup {"unread", "unreadable"}]
        /\ \A q \in Requests : pc'[q] \notin {"idle", "done"} => key'[q] \in Keys
    <3>1. pc' \in [Requests -> PC] /\ \A q \in Requests \ {r} : pc'[q] = pc[q]
      <4>1. pc \in [Requests -> PC]
        OBVIOUS
      <4>2. PICK l \in {"finish", "fetch"} : pc' = [pc EXCEPT ![r] = l]
        BY <2>1
      <4>3. l \in PC
        BY <4>2
      <4> HIDE DEF Types, Joined, PC
      <4> QED
        BY <4>1, <4>2, <4>3
    <3>2. loaded' \in [Requests -> EntryState \cup {"unread", "unreadable"}]
      BY <2>1
    <3>3. ASSUME NEW q \in Requests, pc'[q] \notin {"idle", "done"} PROVE key'[q] \in Keys
      BY <2>2, <3>1, <3>3
    <3> QED
      BY <3>1, <3>2, <3>3
  <2>5. stale' \in [Requests -> Matrix \cup {NoAnswer}]
    BY <2>1, <2>3
  <2>6. answer' \in [Requests -> Answer]
    <3>1. Ok(key[r], store[key[r]].gen) \in Answer
      BY <2>3
    <3>2. answer \in [Requests -> Answer]
      OBVIOUS
    <3> HIDE DEF Types, Joined, Answer, Ok
    <3> QED
      BY <2>1, <3>1, <3>2
  <2> QED
    BY <2>2, <2>4, <2>5, <2>6
<1>8. ASSUME NEW r \in Requests, FetchOk(r) PROVE Types'
  <2>1. key[r] \in Keys /\ answered'[key[r]] \in Nat
    <3>1. key[r] \in Keys /\ answered' = [answered EXCEPT ![key[r]] = @ + 1]
      BY <1>8 DEF FetchOk
    <3>2. answered \in [Keys -> Nat]
      OBVIOUS
    <3> HIDE DEF Types, Joined
    <3> QED
      BY <3>1, <3>2
  <2>2. Ok(key[r], answered'[key[r]]) \in Matrix
    BY <2>1
  <2> QED
    BY <1>8, <2>1, <2>2 DEF FetchOk
<1>9. ASSUME NEW r \in Requests, FetchFailed(r) PROVE Types'
  BY <1>9 DEF FetchFailed, ProviderErrors, FallsBack
<1>10. ASSUME NEW r \in Requests, Save(r) PROVE Types'
  BY <1>10 DEF Save
<1>11. ASSUME NEW r \in Requests, SaveFails(r) PROVE Types'
  BY <1>11 DEF SaveFails
<1>12. ASSUME NEW r \in Requests, Finish(r) PROVE Types'
  BY <1>12 DEF Finish, Published
<1>13. ASSUME NEW k \in Keys, Expire(k) PROVE Types'
  BY <1>13 DEF Expire
<1>15. ASSUME NEW k \in Keys, AnsweredElsewhere(k) PROVE Types'
  <2>1. answered'[k] \in Nat /\ answered' \in [Keys -> Nat]
    BY <1>15 DEF AnsweredElsewhere
  <2>2. elsewhere[k] \cup {answered'[k]} \in SUBSET Nat
    BY <2>1
  <2>3. elsewhere' \in [Keys -> SUBSET Nat]
    BY <1>15, <2>2 DEF AnsweredElsewhere
  <2> QED
    BY <1>15, <2>1, <2>3 DEF AnsweredElsewhere
<1>16. ASSUME NEW k \in Keys, SavedElsewhere(k) PROVE Types'
  <2>1. PICK g \in elsewhere[k] : store' = [store EXCEPT ![k] = [state |-> "fresh", gen |-> g]]
    BY <1>16 DEF SavedElsewhere
  <2>2. g \in Nat
    BY <2>1
  <2> QED
    BY <1>16, <2>1, <2>2 DEF SavedElsewhere
<1>17. ASSUME NEW k \in Keys, Deleted(k) PROVE Types'
  BY <1>17 DEF Deleted
<1>14. CASE UNCHANGED vars
  BY <1>14 DEF vars
<1> QED
  BY <1>1, <1>2, <1>3, <1>4, <1>5, <1>6, <1>7,
     <1>8, <1>9, <1>10, <1>11, <1>12, <1>13, <1>14, <1>15, <1>16, <1>17 DEF Next, Proceed

(* Leaders keep their key, and a published outcome is that of its leader,  *)
(* through every step.                                                     *)
LEMMA MInvStep == MInv /\ [Next]_vars => MInv'
<1> SUFFICES ASSUME MInv, [Next]_vars PROVE MInv'
  OBVIOUS
<1>a. Types /\ Types'
  BY TypesStep DEF MInv
<1> DEFINE Rest == Leaders /\ Joined /\ Outcomes /\ Outages /\ NoRedundantFetch
<1>b. Rest
  BY DEF MInv
<1>c. SUFFICES Rest'
  BY <1>a DEF MInv
<1> USE <1>a, <1>b, NoneAssumption
    DEF Leaders, Joined, Outcomes, Outages, NoRedundantFetch, NoEntry,
        Types, Leading, EntryState, Failure, NoAnswer, Ok, Goto, Return
<1>1. ASSUME NEW r \in Requests, NEW k \in Keys, Arrive(r, k) PROVE Rest'
  BY <1>1 DEF Arrive, IsNext
<1>2. ASSUME NEW r \in Requests, Cancel(r) PROVE Rest'
  BY <1>2 DEF Cancel
<1>3. ASSUME NEW r \in Requests, Lead(r) PROVE Rest'
  BY <1>3 DEF Lead
<1>4. ASSUME NEW r \in Requests, Join(r) PROVE Rest'
  BY <1>4 DEF Join
<1>5. ASSUME NEW r \in Requests, GiveUp(r) PROVE Rest'
  BY <1>5 DEF GiveUp
<1>6. ASSUME NEW r \in Requests, Share(r) PROVE Rest'
  BY <1>6 DEF Share
<1>7. ASSUME NEW r \in Requests, Load(r) PROVE Rest'
  <2>1. PICK s \in EntryState \cup {"unreadable"} :
          /\ pc[r] = "load" /\ s # "unreadable" => s = store[key[r]].state
          /\ loaded' = [loaded EXCEPT ![r] = s]
          /\ stale' = [stale EXCEPT ![r] =
                         IF s = "stale" THEN Ok(key[r], store[key[r]].gen) ELSE stale[r]]
          /\ \/ /\ s = "fresh" /\ pc' = [pc EXCEPT ![r] = "finish"]
                /\ answer' = [answer EXCEPT ![r] = Ok(key[r], store[key[r]].gen)]
             \/ /\ s # "fresh" /\ pc' = [pc EXCEPT ![r] = "fetch"]
                /\ answer' = answer
    BY <1>7, LoadDoes
  <2>2. pc[r] = "load" /\ UNCHANGED <<key, live, call, inFlight, flight, store, answered, elsewhere>>
    BY <1>7 DEF Load
  <2>3. Leaders' /\ Joined'
    <3>1. \/ pc' = [pc EXCEPT ![r] = "finish"]
          \/ pc' = [pc EXCEPT ![r] = "fetch"]
      BY <2>1
    <3>2. CASE pc' = [pc EXCEPT ![r] = "finish"]
      BY <2>2, <3>2
    <3>3. CASE pc' = [pc EXCEPT ![r] = "fetch"]
      BY <2>2, <3>3
    <3> QED
      BY <3>1, <3>2, <3>3
  <2>4. Outcomes'
    BY <2>1, <2>2
  <2>5. Outages'
    BY <2>1, <2>2
  <2>6. NoRedundantFetch'
    BY <2>1, <2>2
  <2> QED
    BY <2>3, <2>4, <2>5, <2>6
<1>8. ASSUME NEW r \in Requests, FetchOk(r) PROVE Rest'
  BY <1>8 DEF FetchOk
<1>9. ASSUME NEW r \in Requests, FetchFailed(r) PROVE Rest'
  <2>1. PICK e \in ProviderErrors(r) :
          answer' = [answer EXCEPT ![r] = IF FallsBack(r) THEN stale[r] ELSE Failure(e)]
    BY <1>9 DEF FetchFailed
  <2>2. /\ pc[r] = "fetch" /\ pc' = [pc EXCEPT ![r] = "finish"]
        /\ stale' = [stale EXCEPT ![r] = NoAnswer]
        /\ UNCHANGED <<key, live, call, loaded, inFlight, flight, store, answered, elsewhere>>
    BY <1>9 DEF FetchFailed
  <2>3. Leaders' /\ Joined'
    BY <2>2
  <2>4. Outcomes'
    BY <2>1, <2>2
  <2>5. Outages'
    <3>1. answer'[r].kind = "failed" => ~FallsBack(r)
      BY <2>1, <2>2 DEF FallsBack, Matrix
    <3>2. stale[r] = NoAnswer \/ ~live[r] => NoEntry(r) \/ ~live[r]
      BY <2>2
    <3> QED
      BY <2>1, <2>2, <3>1, <3>2 DEF FallsBack
  <2>6. NoRedundantFetch'
    BY <2>2
  <2> QED
    BY <2>3, <2>4, <2>5, <2>6
<1>10. ASSUME NEW r \in Requests, Save(r) PROVE Rest'
  BY <1>10 DEF Save
<1>11. ASSUME NEW r \in Requests, SaveFails(r) PROVE Rest'
  BY <1>11 DEF SaveFails
<1>12. ASSUME NEW r \in Requests, Finish(r) PROVE Rest'
  BY <1>12 DEF Finish, Published
<1>13. ASSUME NEW k \in Keys, Expire(k) PROVE Rest'
  BY <1>13 DEF Expire
<1>15. ASSUME NEW k \in Keys, AnsweredElsewhere(k) PROVE Rest'
  BY <1>15 DEF AnsweredElsewhere
<1>16. ASSUME NEW k \in Keys, SavedElsewhere(k) PROVE Rest'
  BY <1>16 DEF SavedElsewhere
<1>17. ASSUME NEW k \in Keys, Deleted(k) PROVE Rest'
  BY <1>17 DEF Deleted
<1>14. CASE UNCHANGED vars
  BY <1>14 DEF vars
<1> QED
  BY <1>1, <1>2, <1>3, <1>4, <1>5, <1>6, <1>7,
     <1>8, <1>9, <1>10, <1>11, <1>12, <1>13, <1>14, <1>15, <1>16, <1>17 DEF Next, Proceed

LEMMA MInvInit == Init => MInv
<1> SUFFICES ASSUME Init PROVE MInv
  OBVIOUS
<1> USE NoneAssumption DEF Init, PC, Leading, EntryState, OpenFlight, NoAnswer, Failure
<1>1. Types
  BY DEF Types, Answer
<1> QED
  BY <1>1 DEF MInv, Leaders, Joined, Outcomes, Outages, NoEntry, NoRedundantFetch

LEMMA MInvariant == Spec => []MInv
  BY MInvInit, MInvStep, PTL DEF Spec

(* OSRM is never asked for one matrix by two requests at once. *)
THEOREM MatrixCallsAreExclusive == Spec => []SingleProviderCall
<1>1. MInv => SingleProviderCall
  BY DEF MInv, Leaders, Leading, SingleProviderCall
<1>2. QED
  BY <1>1, MInvariant, PTL

(* A live caller returns the very answer of the leader of its flight, and  *)
(* only when that has returned.                                            *)
THEOREM FlightsAgree == Spec => []FlightHasOneOutcome
<1>1. MInv => FlightHasOneOutcome
  BY DEF MInv, Outcomes, FlightHasOneOutcome
<1>2. QED
  BY <1>1, MInvariant, PTL

(* A live caller is told of an outage only by a flight without a readable  *)
(* entry, or by one whose leader had gone.                                 *)
THEOREM MatrixOutagesAreCovered == Spec => []OutageCoveredUnlessLeaderGone
<1>1. MInv => OutageCoveredUnlessLeaderGone
  <2> SUFFICES ASSUME MInv, NEW r \in Requests, pc[r] = "done", live[r], answer[r].kind = "failed"
               PROVE  loaded[call[r]] \in {"missing", "unreadable"} \/ ~live[call[r]]
    BY DEF OutageCoveredUnlessLeaderGone
  <2>1. call[r] \in Requests /\ call[call[r]] = call[r]
    BY NoneAssumption DEF MInv, Joined
  <2>2. pc[call[r]] = "done" /\ answer[call[r]].kind = "failed"
    BY DEF MInv, Outcomes
  <2> QED
    BY <2>1, <2>2 DEF MInv, Outages, NoEntry
<1>2. QED
  BY <1>1, MInvariant, PTL

(* A request to OSRM has a fresh matrix next to it only if another process *)
(* put it there, or the entry could not be read.                           *)
THEOREM MatrixFetchesAreNeeded == Spec => []NoRedundantFetch
<1>1. MInv => NoRedundantFetch
  BY DEF MInv
<1>2. QED
  BY <1>1, MInvariant, PTL

----------------------------------------------------------------------------
(* What a flight for key k may end with: a matrix the provider has given   *)
(* for that key, or an error, "canceled" only if somebody who asked for    *)
(* that key is gone.                                                       *)
Given(a, k) == a = Ok(k, a.gen) /\ a.gen \in 0..answered[k]
Deserted == {key[r] : r \in {s \in Requests : ~live[s]}}
Outcome(a, k) == Given(a, k) \/ a = Failure("failed") \/ (a = Failure("canceled") /\ k \in Deserted)

(* Nothing is on disk, with another process or in the hands of a request   *)
(* that the provider has not given for its key, and followers wait for their own key.            *)
StoreIsGiven ==
  \A k \in Keys : store[k].gen <= answered[k] /\ elsewhere[k] \subseteq 0..answered[k]

AnswersAreGiven ==
  \A r \in Requests :
    /\ pc[r] = "idle" => key[r] = None /\ stale[r] = NoAnswer
    /\ pc[r] # "idle" => key[r] \in Keys
    /\ stale[r] # NoAnswer => Given(stale[r], key[r])
    /\ pc[r] = "save" => Given(answer[r], key[r])
    /\ pc[r] = "finish" => Outcome(answer[r], key[r])
    /\ flight[r].done => Outcome(flight[r].answer, key[r])
    /\ pc[r] = "wait" => key[call[r]] = key[r]

GivenInv == MInv /\ StoreIsGiven /\ AnswersAreGiven

(* Nobody who is gone comes back, and nobody changes the key. *)
LEMMA DesertedLasts ==
  ASSUME Types, AnswersAreGiven, [Next]_vars, NEW k \in Keys, k \in Deserted
  PROVE  k \in Deserted'
<1>1. PICK s \in Requests : key[s] = k /\ ~live[s]
  BY DEF Deserted
<1>2. key'[s] = k /\ ~live'[s]
  <2>1. pc[s] # "idle"
    BY <1>1, NoneAssumption DEF AnswersAreGiven
  <2>2. CASE UNCHANGED <<key, live>>
    BY <1>1, <2>2
  <2>3. ASSUME NEW r \in Requests, NEW q \in Keys, Arrive(r, q) PROVE key'[s] = k /\ ~live'[s]
    BY <1>1, <2>1, <2>3 DEF Arrive, IsNext, Types
  <2>4. ASSUME NEW r \in Requests, Cancel(r) PROVE key'[s] = k /\ ~live'[s]
    BY <1>1, <2>4 DEF Cancel, Types
  <2> QED
    BY <2>2, <2>3, <2>4
       DEF Next, Proceed, Lead, Join, GiveUp, Share, Load, FetchOk, FetchFailed, Save, SaveFails,
           Finish, Expire, AnsweredElsewhere, SavedElsewhere, Deleted, vars
<1> QED
  BY <1>1, <1>2 DEF Deserted

(* No step brings an answer the provider has not given, and the provider   *)
(* tells "canceled" only to those who are gone.                            *)
LEMMA GivenStep == GivenInv /\ [Next]_vars => GivenInv'
<1> SUFFICES ASSUME GivenInv, [Next]_vars PROVE GivenInv'
  OBVIOUS
<1>a. MInv' /\ Types /\ Types' /\ Leaders /\ Joined /\ Outcomes
  BY MInvStep DEF GivenInv, MInv
<1> DEFINE Rest == StoreIsGiven /\ AnswersAreGiven
<1>b. Rest
  BY DEF GivenInv
<1>c. SUFFICES Rest'
  BY <1>a DEF GivenInv
<1>d. \A k \in Keys : k \in Deserted => k \in Deserted'
  BY <1>a, <1>b, DesertedLasts
<1>e. ASSUME NEW r \in Requests, pc[r] = "wait" PROVE call[r] \in Requests /\ pc[call[r]] # "idle"
  BY <1>a, <1>e, NoneAssumption DEF Joined, Leading
<1>f. ASSUME NEW r \in Requests, stale[r] # NoAnswer PROVE Given(stale[r], key[r])
  BY <1>b, <1>f DEF AnswersAreGiven
<1> USE <1>a, <1>b, <1>d, NoneAssumption
    DEF StoreIsGiven, AnswersAreGiven, Given, Outcome, Leaders, Joined, Outcomes,
        Types, Leading, Failure, NoAnswer, Ok, Goto, Return
<1>1. ASSUME NEW r \in Requests, NEW k \in Keys, Arrive(r, k) PROVE Rest'
  <2>1. /\ pc[r] = "idle" /\ pc' = [pc EXCEPT ![r] = "begin"] /\ key' = [key EXCEPT ![r] = k]
        /\ UNCHANGED <<stale, answer, flight, store, answered, elsewhere, call>>
    BY <1>1 DEF Arrive, IsNext
  <2>2. stale[r] = NoAnswer /\ ~flight[r].done
    BY <2>1
  <2>3. \A q \in Requests : pc[q] = "wait" => call[q] \in Requests \ {r}
    BY <1>e, <2>1
  <2>4. StoreIsGiven'
    BY <2>1
  <2>5. ASSUME NEW q \in Requests \ {r} PROVE (flight[q].done => Outcome(flight[q].answer, key[q]))'
    <3>1. flight[q].done => key[q] \in Keys /\ Outcome(flight[q].answer, key[q])
      BY <2>5
    <3>2. key'[q] = key[q] /\ flight'[q] = flight[q] /\ answered' = answered
      BY <2>1, <2>5
    <3> HIDE <1>a, <1>b
    <3> QED
      BY <1>d, <3>1, <3>2
  <2> QED
    BY <2>1, <2>2, <2>3, <2>4, <2>5
<1>2. ASSUME NEW r \in Requests, Cancel(r) PROVE Rest'
  BY <1>2 DEF Cancel
<1>3. ASSUME NEW r \in Requests, Lead(r) PROVE Rest'
  BY <1>3 DEF Lead
<1>4. ASSUME NEW r \in Requests, Join(r) PROVE Rest'
  BY <1>4 DEF Join
<1>5. ASSUME NEW r \in Requests, GiveUp(r) PROVE Rest'
  BY <1>5 DEF GiveUp
<1>6. ASSUME NEW r \in Requests, Share(r) PROVE Rest'
  BY <1>6 DEF Share
<1>7. ASSUME NEW r \in Requests, Load(r) PROVE Rest'
  BY <1>7, LoadDoes DEF Load
<1>8. ASSUME NEW r \in Requests, FetchOk(r) PROVE Rest'
  BY <1>8 DEF FetchOk
<1>9. ASSUME NEW r \in Requests, FetchFailed(r) PROVE Rest'
  <2>1. PICK e \in ProviderErrors(r) :
          answer' = [answer EXCEPT ![r] = IF FallsBack(r) THEN stale[r] ELSE Failure(e)]
    BY <1>9 DEF FetchFailed
  <2>2. /\ pc[r] = "fetch" /\ pc' = [pc EXCEPT ![r] = "finish"] /\ key[r] \in Keys
        /\ stale' = [stale EXCEPT ![r] = NoAnswer]
        /\ UNCHANGED <<key, live, call, flight, store, answered, elsewhere>>
    BY <1>9 DEF FetchFailed
  <2>3. Outcome(answer'[r], key[r])
    <3>1. CASE FallsBack(r)
      <4>1. answer'[r] = stale[r] /\ Given(stale[r], key[r])
        BY <1>f, <2>1, <2>2, <3>1 DEF FallsBack
      <4> QED
        BY <4>1
    <3>2. CASE ~FallsBack(r)
      BY <2>1, <2>2, <3>2 DEF ProviderErrors, Deserted
    <3> QED
      BY <3>1, <3>2
  <2>4. Outcome(answer[r], key[r])'
    BY <2>2, <2>3
  <2>5. \A q \in Requests \ {r} : pc'[q] = pc[q] /\ answer'[q] = answer[q]
    BY <2>1, <2>2
  <2> QED
    BY <2>2, <2>4, <2>5
<1>10. ASSUME NEW r \in Requests, Save(r) PROVE Rest'
  <2>1. /\ pc[r] = "save" /\ pc' = [pc EXCEPT ![r] = "finish"] /\ key[r] \in Keys
        /\ store' = [store EXCEPT ![key[r]] = [state |-> "fresh", gen |-> answer[r].gen]]
        /\ UNCHANGED <<key, live, call, stale, answer, flight, answered, elsewhere>>
    BY <1>10 DEF Save
  <2>2. answer[r].gen \in 0..answered[key[r]]
    BY <2>1
  <2>3. StoreIsGiven'
    BY <2>1, <2>2
  <2>4. AnswersAreGiven'
    BY <2>1
  <2> QED
    BY <2>3, <2>4
<1>11. ASSUME NEW r \in Requests, SaveFails(r) PROVE Rest'
  BY <1>11 DEF SaveFails
<1>12. ASSUME NEW r \in Requests, Finish(r) PROVE Rest'
  BY <1>12 DEF Finish, Published
<1>13. ASSUME NEW k \in Keys, Expire(k) PROVE Rest'
  BY <1>13 DEF Expire
<1>15. ASSUME NEW k \in Keys, AnsweredElsewhere(k) PROVE Rest'
  BY <1>15 DEF AnsweredElsewhere
<1>16. ASSUME NEW k \in Keys, SavedElsewhere(k) PROVE Rest'
  BY <1>16 DEF SavedElsewhere
<1>17. ASSUME NEW k \in Keys, Deleted(k) PROVE Rest'
  BY <1>17 DEF Deleted
<1>14. CASE UNCHANGED vars
  BY <1>14 DEF vars
<1> QED
  BY <1>1, <1>2, <1>3, <1>4, <1>5, <1>6, <1>7,
     <1>8, <1>9, <1>10, <1>11, <1>12, <1>13, <1>14, <1>15, <1>16, <1>17 DEF Next, Proceed

LEMMA GivenInvariant == Spec => []GivenInv
<1>1. Init => StoreIsGiven /\ AnswersAreGiven
  BY NoneAssumption
     DEF Init, StoreIsGiven, AnswersAreGiven, OpenFlight, NoAnswer, Failure
<1>2. StoreIsGiven /\ AnswersAreGiven /\ MInv => GivenInv
  BY DEF GivenInv
<1>3. Init => MInv
  BY MInvInit
<1>4. QED
  BY <1>1, <1>2, <1>3, GivenStep, PTL DEF Spec

(* A step that stays inside Durations is not seen from outside, ...        *)
LEMMA InsideIsHidden ==
  ASSUME Types, NEW r \in Requests, NEW l \in PC \ {"idle", "done"}, pc[r] \notin {"idle", "done"},
         pc' = [pc EXCEPT ![r] = l], \A q \in Requests \ {r} : answer'[q] = answer[q]
  PROVE  Status' = Status /\ Visible' = Visible
<1>1. \A q \in Requests \ {r} : pc'[q] = pc[q]
  BY DEF Types
<1>2. pc'[r] \notin {"idle", "done"}
  BY DEF Types
<1>3. ASSUME NEW q \in Requests PROVE Status'[q] = Status[q] /\ Visible'[q] = Visible[q]
  BY <1>1, <1>2 DEF Status, Visible
<1> QED
  BY <1>3 DEF Status, Visible

(* ... a return is the answer of the service, ...                          *)
LEMMA ReturnIsReply ==
  ASSUME Types, NEW r \in Requests, NEW a, pc[r] # "done", Return(r, a)
  PROVE  /\ Status' = [Status EXCEPT ![r] = "answered"]
         /\ Visible' = [Visible EXCEPT ![r] = a]
<1>1. \A q \in Requests \ {r} : pc'[q] = pc[q] /\ answer'[q] = answer[q]
  BY DEF Types, Return, Goto
<1>2. pc'[r] = "done" /\ answer'[r] = a
  BY DEF Types, Return, Goto
<1> QED
  BY <1>1, <1>2 DEF Status, Visible

(* ... and the keys being asked for are those of the calls at "fetch".     *)
LEMMA AskingFollowsFetch ==
  ASSUME Types, SingleProviderCall, NEW r \in Requests, NEW l, pc' = [pc EXCEPT ![r] = l]
  PROVE  /\ key' = key /\ pc[r] # "fetch" /\ l # "fetch" => Asking' = Asking
         /\ key' = key /\ pc[r] # "fetch" /\ l = "fetch" => Asking' = Asking \cup {key[r]}
         /\ key' = key /\ pc[r] = "fetch" /\ l # "fetch" => Asking' = Asking \ {key[r]}
         /\ pc[r] = "fetch" => key[r] \in Asking
<1>1. pc'[r] = l /\ \A q \in Requests \ {r} : pc'[q] = pc[q]
  BY DEF Types
<1>2. \A k : k \in Asking <=> \E q \in Requests : pc[q] = "fetch" /\ key[q] = k
  BY DEF Asking
<1>3. \A k : k \in Asking' <=> \E q \in Requests : pc'[q] = "fetch" /\ key'[q] = k
  BY DEF Asking
<1>4. CASE key' = key /\ pc[r] # "fetch" /\ l # "fetch"
  BY <1>1, <1>2, <1>3, <1>4
<1>5. CASE key' = key /\ pc[r] # "fetch" /\ l = "fetch"
  <2>1. \A k : k \in Asking' <=> k \in Asking \/ k = key[r]
    BY <1>1, <1>2, <1>3, <1>5
  <2> QED
    BY <2>1, <1>5
<1>6. CASE key' = key /\ pc[r] = "fetch" /\ l # "fetch"
  <2>1. \A k : k \in Asking' <=> k \in Asking /\ k # key[r]
    BY <1>1, <1>2, <1>3, <1>6 DEF SingleProviderCall
  <2> QED
    BY <2>1, <1>2, <1>6
<1> QED
  BY <1>2, <1>4, <1>5, <1>6

(* What a flight ends with may be told to everybody who asked for its key. *)
LEMMA OutcomesArePermitted ==
  ASSUME NEW r \in Requests, NEW a, Outcome(a, key[r])
  PROVE  a \in Lookup!Permitted(r)
<1>1. CASE Given(a, key[r])
  <2>1. a = [kind |-> "ok", key |-> key[r], gen |-> a.gen] /\ a.gen \in 0..answered[key[r]]
    BY <1>1 DEF Given, Ok
  <2> QED
    BY <2>1 DEF Lookup!Permitted
<1>2. CASE a = Failure("failed")
  BY <1>2 DEF Lookup!Permitted, Lookup!NoKeyAnswer, Failure
<1>3. CASE a = Failure("canceled") /\ key[r] \in Deserted
  <2>1. \E s \in Requests : key[s] = key[r] /\ ~live[s]
    BY <1>3 DEF Deserted
  <2> QED
    BY <1>3, <2>1 DEF Lookup!Permitted, Lookup!Canceled, Lookup!NoKeyAnswer, Failure
<1> QED
  BY <1>1, <1>2, <1>3 DEF Outcome

(* Every step of the matrix cache is one of the lookup service, or none. *)
LEMMA LookupStep == GivenInv /\ [Next]_vars => [Lookup!ANext]_(Lookup!avars)
<1> SUFFICES ASSUME GivenInv, [Next]_vars PROVE [Lookup!ANext]_(Lookup!avars)
  OBVIOUS
<1>a. Types /\ Leaders /\ Joined /\ Outcomes /\ AnswersAreGiven
  BY DEF GivenInv, MInv
<1>b. SingleProviderCall
  BY <1>a DEF Leaders, Leading, SingleProviderCall
<1> USE <1>a, <1>b
<1>q. ASSUME UNCHANGED <<Status, key, live, Visible, Asking, answered, elsewhere>>
      PROVE [Lookup!ANext]_(Lookup!avars)
  BY <1>q DEF Lookup!avars
<1>r. ASSUME NEW r \in Requests, NEW a, pc[r] \notin {"idle", "done", "fetch"}, Return(r, a),
             a \in Lookup!Permitted(r), UNCHANGED <<key, live, answered, elsewhere>>
      PROVE [Lookup!ANext]_(Lookup!avars)
  <2>1. /\ Status' = [Status EXCEPT ![r] = "answered"]
        /\ Visible' = [Visible EXCEPT ![r] = a]
    BY <1>r, ReturnIsReply
  <2>2. Asking' = Asking
    BY <1>r, AskingFollowsFetch DEF Return, Goto
  <2>3. Status[r] = "open"
    BY <1>r DEF Status
  <2>4. Lookup!Reply(r)
    BY <1>r, <2>1, <2>2, <2>3 DEF Lookup!Reply
  <2> QED
    BY <2>4 DEF Lookup!ANext
<1>s. ASSUME NEW r \in Requests, NEW l \in PC \ {"idle", "done", "fetch"}, Goto(r, l),
             pc[r] \notin {"idle", "done", "fetch"}, \A q \in Requests \ {r} : answer'[q] = answer[q],
             UNCHANGED <<key, live, answered, elsewhere>>
      PROVE [Lookup!ANext]_(Lookup!avars)
  <2>1. Status' = Status /\ Visible' = Visible
    BY <1>s, InsideIsHidden DEF Goto
  <2>2. Asking' = Asking
    BY <1>s, AskingFollowsFetch DEF Goto
  <2> QED
    BY <1>s, <2>1, <2>2, <1>q
<1>t. ASSUME NEW r \in Requests, NEW l \in {"save", "finish"}, Goto(r, l), pc[r] = "fetch",
             \A q \in Requests \ {r} : answer'[q] = answer[q],
             answered' \in {answered, [answered EXCEPT ![key[r]] = @ + 1]},
             UNCHANGED <<key, live, elsewhere>>
      PROVE [Lookup!ANext]_(Lookup!avars)
  <2>1. Status' = Status /\ Visible' = Visible
    BY <1>t, InsideIsHidden DEF Goto, PC, Leading
  <2>2. Asking' = Asking \ {key[r]} /\ key[r] \in Asking
    BY <1>t, AskingFollowsFetch DEF Goto
  <2>3. Lookup!ProviderReturns(key[r])
    BY <1>t, <2>1, <2>2 DEF Lookup!ProviderReturns
  <2>4. key[r] \in Keys
    BY <1>t DEF Types
  <2> QED
    BY <2>3, <2>4 DEF Lookup!ANext
<1>1. ASSUME NEW r \in Requests, NEW k \in Keys, Arrive(r, k) PROVE Lookup!ANext
  <2>1. /\ pc[r] = "idle" /\ pc' = [pc EXCEPT ![r] = "begin"]
        /\ key' = [key EXCEPT ![r] = k]
        /\ UNCHANGED <<live, answer, answered, elsewhere>>
    BY <1>1 DEF Arrive, IsNext, Goto
  <2>2. pc'[r] = "begin" /\ \A q \in Requests \ {r} : pc'[q] = pc[q] /\ key'[q] = key[q]
    BY <2>1 DEF Types
  <2>3. Status[r] = "idle" /\ Status' = [Status EXCEPT ![r] = "open"]
    BY <2>1, <2>2 DEF Status
  <2>4. Visible' = Visible
    BY <2>1, <2>2 DEF Visible
  <2>5. Asking' = Asking
    BY <2>1, <2>2 DEF Asking
  <2>6. Lookup!Ask(r, k)
    BY <2>1, <2>3, <2>4, <2>5 DEF Lookup!Ask
  <2> QED
    BY <2>6 DEF Lookup!ANext
<1>2. ASSUME NEW r \in Requests, Cancel(r) PROVE Lookup!ANext
  <2>1. UNCHANGED <<Status, Visible, Asking>>
    BY <1>2 DEF Cancel, Status, Visible, Asking
  <2>2. Status[r] # "answered"
    BY <1>2 DEF Cancel, Status
  <2>3. Lookup!End(r)
    BY <1>2, <2>1, <2>2 DEF Cancel, Lookup!End
  <2> QED
    BY <2>3 DEF Lookup!ANext
<1>3. ASSUME NEW r \in Requests, Lead(r) PROVE [Lookup!ANext]_(Lookup!avars)
  BY <1>3, <1>s DEF Lead, PC, Leading
<1>4. ASSUME NEW r \in Requests, Join(r) PROVE [Lookup!ANext]_(Lookup!avars)
  BY <1>4, <1>s DEF Join, PC
<1>5. ASSUME NEW r \in Requests, GiveUp(r) PROVE [Lookup!ANext]_(Lookup!avars)
  <2>1. Failure("canceled") \in Lookup!Permitted(r)
    BY <1>5 DEF GiveUp, Lookup!Permitted, Lookup!Canceled, Lookup!NoKeyAnswer, Failure
  <2> QED
    BY <1>5, <2>1, <1>r DEF GiveUp
<1>6. ASSUME NEW r \in Requests, Share(r) PROVE [Lookup!ANext]_(Lookup!avars)
  <2>1. pc[r] = "wait" /\ flight[call[r]].done /\ key[call[r]] = key[r]
    BY <1>6 DEF Share, AnswersAreGiven
  <2>2. call[r] \in Requests
    BY <2>1 DEF Joined
  <2>3. flight[call[r]].answer \in Lookup!Permitted(r)
    BY <2>1, <2>2, OutcomesArePermitted DEF AnswersAreGiven
  <2> QED
    BY <1>6, <2>3, <1>r DEF Share
<1>7. ASSUME NEW r \in Requests, Load(r) PROVE [Lookup!ANext]_(Lookup!avars)
  <2>1. /\ pc[r] = "load" /\ UNCHANGED <<key, live, answered, elsewhere>>
        /\ \/ Goto(r, "finish") /\ \E a : answer' = [answer EXCEPT ![r] = a]
           \/ Goto(r, "fetch") /\ answer' = answer
    BY <1>7, LoadDoes DEF Load, Goto
  <2>2. CASE Goto(r, "finish")
    BY <2>1, <2>2, <1>s DEF PC, Leading, Types
  <2>3. CASE Goto(r, "fetch") /\ answer' = answer
    <3>1. Status' = Status /\ Visible' = Visible
      BY <2>1, <2>3, InsideIsHidden DEF Goto, PC, Leading
    <3>2. Asking' = Asking \cup {key[r]}
      BY <2>1, <2>3, AskingFollowsFetch DEF Goto
    <3>3. key[r] \notin Asking
      BY <2>1 DEF Asking, Leaders, Leading
    <3>4. Status[r] = "open" /\ key[r] \in Keys
      BY <2>1 DEF Status, Types
    <3>5. Lookup!CallProvider(key[r])
      BY <2>1, <3>1, <3>2, <3>3, <3>4 DEF Lookup!CallProvider
    <3> QED
      BY <3>4, <3>5 DEF Lookup!ANext
  <2> QED
    BY <2>1, <2>2, <2>3
<1>8. ASSUME NEW r \in Requests, FetchOk(r) PROVE [Lookup!ANext]_(Lookup!avars)
  BY <1>8, <1>t DEF FetchOk, Types
<1>9. ASSUME NEW r \in Requests, FetchFailed(r) PROVE [Lookup!ANext]_(Lookup!avars)
  BY <1>9, <1>t DEF FetchFailed, Types
<1>10. ASSUME NEW r \in Requests, Save(r) \/ SaveFails(r) PROVE [Lookup!ANext]_(Lookup!avars)
  BY <1>10, <1>s DEF Save, SaveFails, PC, Leading
<1>11. ASSUME NEW r \in Requests, Finish(r) PROVE [Lookup!ANext]_(Lookup!avars)
  <2>1. answer[r] \in Lookup!Permitted(r)
    BY <1>11, OutcomesArePermitted DEF Finish, AnswersAreGiven
  <2>2. Return(r, answer[r])
    BY <1>11 DEF Finish, Return, Types
  <2> QED
    BY <1>11, <2>1, <2>2, <1>r DEF Finish
<1>12. ASSUME NEW k \in Keys, Expire(k) PROVE [Lookup!ANext]_(Lookup!avars)
  BY <1>12, <1>q DEF Expire, Status, Visible, Asking
<1>14. ASSUME NEW k \in Keys, AnsweredElsewhere(k) PROVE Lookup!ANext
  <2>1. UNCHANGED <<Status, key, live, Visible, Asking>>
    BY <1>14 DEF AnsweredElsewhere, Status, Visible, Asking
  <2>2. Lookup!AnsweredElsewhere(k)
    BY <1>14, <2>1 DEF AnsweredElsewhere, Lookup!AnsweredElsewhere
  <2> QED
    BY <2>2 DEF Lookup!ANext
<1>15. ASSUME NEW k \in Keys, SavedElsewhere(k) \/ Deleted(k)
       PROVE  [Lookup!ANext]_(Lookup!avars)
  BY <1>15, <1>q DEF SavedElsewhere, Deleted, Status, Visible, Asking
<1>13. CASE UNCHANGED vars
  BY <1>13, <1>q DEF vars, Status, Visible, Asking
<1> QED
  BY <1>1, <1>2, <1>3, <1>4, <1>5, <1>6, <1>7, <1>8, <1>9, <1>10, <1>11, <1>12, <1>13,
     <1>14, <1>15 DEF Next, Proceed

(* Coalescing calls, caching and falling back to an expired matrix         *)
(* implement the plain lookup service, in which the cancellation of one    *)
(* request may be told to others that asked for the same matrix.           *)
THEOREM MatrixImplementsLookup == Spec => ImplementsLookup
<1>1. Init => Lookup!AInit
  BY DEF Init, Lookup!AInit, Lookup!NoKeyAnswer, Status, Visible, Asking, NoAnswer, Failure
<1>2. QED
  BY <1>1, LookupStep, GivenInvariant, PTL DEF Spec, ImplementsLookup, Lookup!ASpec
============================================================================
