--------------------------- MODULE CachedLookup ----------------------------
(***************************************************************************)
(* What geocode.Cached and matrix.Cached promise their callers, without    *)
(* flights, leaders or files: requests are answered one by one, the        *)
(* provider is asked for a key at most once at a time and only on behalf   *)
(* of a request that is still open, an answer is one the provider has      *)
(* already given for that very key, to this process or to another, and a   *)
(* request is told "canceled" only if it was, or, where cancellation is    *)
(* shared, one for the same key was.                                       *)
(***************************************************************************)
EXTENDS Naturals

CONSTANTS Requests, Keys, None,
          Shared   \* whether requests for one key share cancellation

VARIABLES
  status,   \* "idle", "open" or "answered"
  key, live, answer,
  asking,   \* keys the provider is being asked for
  latest,   \* number of valid answers the provider gave for each key
  elsewhere \* those of them it gave to other processes

avars == <<status, key, live, answer, asking, latest, elsewhere>>

NoKeyAnswer(e) == [kind |-> e, key |-> None, gen |-> 0]

AInit ==
  /\ status    = [r \in Requests |-> "idle"]
  /\ key       = [r \in Requests |-> None]
  /\ live      = [r \in Requests |-> TRUE]
  /\ answer    = [r \in Requests |-> NoKeyAnswer("none")]
  /\ asking    = {}
  /\ latest    = [k \in Keys |-> 0]
  /\ elsewhere = [k \in Keys |-> {}]

Ask(r, k) ==
  /\ status[r] = "idle"
  /\ status' = [status EXCEPT ![r] = "open"]
  /\ key' = [key EXCEPT ![r] = k]
  /\ UNCHANGED <<live, answer, asking, latest, elsewhere>>

Refuse(r) ==
  /\ status[r] = "idle"
  /\ status' = [status EXCEPT ![r] = "answered"]
  /\ answer' = [answer EXCEPT ![r] = NoKeyAnswer("blank")]
  /\ UNCHANGED <<key, live, asking, latest, elsewhere>>

End(r) ==
  /\ status[r] # "answered" /\ live[r]
  /\ live' = [live EXCEPT ![r] = FALSE]
  /\ UNCHANGED <<status, key, answer, asking, latest, elsewhere>>

CallProvider(k) ==
  /\ k \notin asking
  /\ \E r \in Requests : status[r] = "open" /\ key[r] = k
  /\ asking' = asking \cup {k}
  /\ UNCHANGED <<status, key, live, answer, latest, elsewhere>>

ProviderReturns(k) ==
  /\ k \in asking
  /\ asking' = asking \ {k}
  /\ latest' \in {latest, [latest EXCEPT ![k] = @ + 1]}
  /\ UNCHANGED <<status, key, live, answer, elsewhere>>

(* The provider answers another process that shares the cache directory.   *)
AnsweredElsewhere(k) ==
  /\ latest' = [latest EXCEPT ![k] = @ + 1]
  /\ elsewhere' = [elsewhere EXCEPT ![k] = @ \cup {latest'[k]}]
  /\ UNCHANGED <<status, key, live, answer, asking>>

Canceled(r) ==
  \/ ~live[r]
  \/ Shared /\ \E s \in Requests : key[s] = key[r] /\ ~live[s]

(* The answers a request may be given in the present state. *)
Permitted(r) ==
  {[kind |-> "ok", key |-> key[r], gen |-> g] : g \in 0..latest[key[r]]}
  \cup {NoKeyAnswer(e) : e \in {"failed", "invalid"}}
  \cup (IF Canceled(r) THEN {NoKeyAnswer("canceled")} ELSE {})

Reply(r) ==
  /\ status[r] = "open"
  /\ status' = [status EXCEPT ![r] = "answered"]
  /\ \E a \in Permitted(r) : answer' = [answer EXCEPT ![r] = a]
  /\ UNCHANGED <<key, live, asking, latest, elsewhere>>

ANext ==
  \/ \E r \in Requests : \/ Refuse(r) \/ End(r) \/ Reply(r)
                         \/ \E k \in Keys : Ask(r, k)
  \/ \E k \in Keys : CallProvider(k) \/ ProviderReturns(k) \/ AnsweredElsewhere(k)

ASpec == AInit /\ [][ANext]_avars
============================================================================
