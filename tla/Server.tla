------------------------------- MODULE Server -------------------------------
(***************************************************************************)
(* The server process with its handlers of POST /v1/geocode at work:       *)
(* internal/httpapi/v1/geocode.go over cmd/route-server/main.go.  A batch  *)
(* is looked up row by row under the context of its connection; all        *)
(* batches share the provider, which is asked once at a time and at most   *)
(* once a second; the reply must be written before the deadline of the     *)
(* connection.  Nothing relates this deadline to the rows of a batch or to *)
(* the time a lookup may take.                                             *)
(*                                                                         *)
(* A lookup ends as geocode.Cached promises (CachedLookup): with a place,  *)
(* with an error, or, if its own context has ended, with that.             *)
(***************************************************************************)
EXTENDS ServerLifecycle, Naturals, Sequences

CONSTANTS Bodies,        \* what clients send: [form, rows]
          MaxStops,      \* Limits.MaxStops
          ReadTimeout,   \* serverReadTimeout
          WriteTimeout,  \* serverWriteTimeout, from the end of the header
          TurnTime       \* longest turn at the provider: the limiter's interval and the timeout of Nominatim

ASSUME BodiesAssumption ==
  /\ Bodies # {}
  /\ Bodies \subseteq [form : {"ok", "wrong method", "malformed"}, rows : Seq({"address", "blank"})]
ASSUME LimitsAssumption == MaxStops \in Nat /\ ReadTimeout \in Nat /\ WriteTimeout \in Nat /\ TurnTime \in Nat

VARIABLES
  body,      \* the request body of each batch
  connected, \* the client is there: r.Context() has not ended
  results,   \* response.Results so far
  status,    \* the HTTP status written
  elapsed    \* time since the header of the batch was read, up to WriteTimeout + 1

hvars == <<body, connected, results, status, elapsed>>

RowResults == {"stop", "empty", "failed", "canceled"}
Statuses == {"none", "200 OK", "400 Bad Request", "405 Method Not Allowed", "422 Unprocessable Entity"}

ServerTypeOK ==
  /\ TypeOK
  /\ body      \in [Requests -> Bodies]
  /\ connected \in [Requests -> BOOLEAN]
  /\ results   \in [Requests -> UNION {[1..n -> RowResults] : n \in 0..MaxStops}]
  /\ status    \in [Requests -> Statuses]
  /\ elapsed   \in [Requests -> 0..WriteTimeout + 1]
  /\ \A r \in Requests : requests[r] \in Ends <=> status[r] # "none"

ServerInit ==
  /\ Init
  /\ body = [r \in Requests |-> CHOOSE b \in Bodies : TRUE]
  /\ connected = [r \in Requests |-> TRUE]
  /\ results = [r \in Requests |-> <<>>]
  /\ status = [r \in Requests |-> "none"]
  /\ elapsed = [r \in Requests |-> 0]

(* Time by the clock of the deadline, which need not be told further. *)
After(t, d) == IF t + d > WriteTimeout THEN WriteTimeout + 1 ELSE t + d

(* The body may come slowly: ReadTimeout bounds how long it takes. *)
Arrive(r) ==
  /\ Accept(r)
  /\ \E b \in Bodies : body' = [body EXCEPT ![r] = b]
  /\ \E d \in 0..ReadTimeout : elapsed' = [elapsed EXCEPT ![r] = After(0, d)]
  /\ UNCHANGED <<connected, results, status>>

(* The client leaves, or its connection breaks. *)
Leave(r) ==
  /\ requests[r] = "active" /\ connected[r]
  /\ connected' = [connected EXCEPT ![r] = FALSE]
  /\ UNCHANGED <<vars, body, results, status, elapsed>>

(* The checks before the loop, "none" if the batch passes them. *)
Refusal(b) ==
  IF b.form = "wrong method" THEN "405 Method Not Allowed"
  ELSE IF b.form = "malformed" THEN "400 Bad Request"
  ELSE IF Len(b.rows) \notin 1..MaxStops THEN "422 Unprocessable Entity"
  ELSE "none"

(* newHTTPServer gives every connection a deadline for writing. *)
Fate(r) == IF ~connected[r] THEN "left" ELSE IF elapsed[r] > WriteTimeout THEN "late" ELSE "answered"

Write(r, code) ==
  /\ HandlerReturns(r, Fate(r))
  /\ status' = [status EXCEPT ![r] = code]
  /\ UNCHANGED <<body, connected, results, elapsed>>

Refuse(r) == Refusal(body[r]) # "none" /\ Write(r, Refusal(body[r]))

AtRow(r, kind) ==
  LET next == Len(results[r]) + 1 IN
  /\ requests[r] = "active" /\ main # "exited"
  /\ Refusal(body[r]) = "none"
  /\ next \in DOMAIN body[r].rows /\ body[r].rows[next] = kind

Record(r, found) == results' = [results EXCEPT ![r] = Append(@, found)]

Blank(r) ==
  /\ AtRow(r, "blank")
  /\ Record(r, "empty")
  /\ UNCHANGED <<vars, body, connected, status, elapsed>>

(* Wrong: lookups go on under a context that the shutdown has ended. *)
LookupResultsShared(r) == IF inShutdown THEN {"canceled"} ELSE {"stop", "failed"}

(* geocode.Cached.Geocode under r.Context(). *)
LookupResults(r) == {"stop", "failed"} \cup (IF connected[r] THEN {} ELSE {"canceled"})

(* A turn at the provider delays everybody; a lookup that finds its place  *)
(* on disk takes none.                                                     *)
Wait(d) == elapsed' = [q \in Requests |-> IF q \in Active THEN After(elapsed[q], d) ELSE elapsed[q]]

(* Wrong: a lookup that failed is tried again for the same row. *)
LookupRetrying(r) ==
  /\ AtRow(r, "address")
  /\ \/ UNCHANGED results
     \/ \E found \in LookupResults(r) : Record(r, found)
  /\ \E d \in 0..TurnTime : Wait(d)
  /\ UNCHANGED <<vars, body, connected, status>>

Lookup(r) ==
  /\ AtRow(r, "address")
  /\ \E found \in LookupResults(r) : Record(r, found)
  /\ \E d \in 0..TurnTime : Wait(d)
  /\ UNCHANGED <<vars, body, connected, status>>

Reply(r) ==
  /\ Refusal(body[r]) = "none"
  /\ Len(results[r]) = Len(body[r].rows)
  /\ Write(r, "200 OK")

Next ==
  \/ Process /\ UNCHANGED hvars
  \/ \E r \in Requests : Arrive(r) \/ Leave(r) \/ Refuse(r) \/ Blank(r) \/ Lookup(r) \/ Reply(r)

Spec == ServerInit /\ [][Next]_<<vars, hvars>>

(* The two goroutines of the process run, and the context of Shutdown has  *)
(* a deadline.  Handlers need not end.                                     *)
FairSpec == Spec /\ WF_vars(Main /\ UNCHANGED hvars) /\ WF_vars(ServeCloses /\ UNCHANGED hvars)

----------------------------------------------------------------------------
(* cmd/route-server/README.md:54, "an ordered success/error item for each  *)
(* address": what a client receives has one result per row, in their       *)
(* order, and never the end of a context in the place of a result,         *)
(* whatever happens to other clients and to the process meanwhile.         *)
EveryRowReported ==
  \A r \in Requests :
    requests[r] \in {"answered", "late"} /\ status[r] = "200 OK" =>
      /\ Len(results[r]) = Len(body[r].rows)
      /\ \A i \in DOMAIN results[r] :
           /\ results[r][i] = "empty" <=> body[r].rows[i] = "blank"
           /\ results[r][i] # "canceled"

(* A batch of n rows is late only because of others' rows, or because n    *)
(* turns at the provider do not fit in what a slow body left of the        *)
(* deadline: no row takes more than one turn, and nothing else takes time. *)
(* Whether a full batch fits is up to the configuration, which bounds      *)
(* neither max_stops nor geocode_timeout_sec by the 90 seconds.            *)
LateOnlyBehindOthers ==
  \A r \in Requests :
    requests[r] = "late" => \/ \E q \in Requests \ {r} : results[q] # <<>>
                            \/ ReadTimeout + Len(results[r]) * TurnTime > WriteTimeout
============================================================================
