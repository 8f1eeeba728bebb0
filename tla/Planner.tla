------------------------------ MODULE Planner ------------------------------
(***************************************************************************)
(* One request on its way through internal/httpapi/v1/optimize.go and      *)
(* internal/planner/service.go, the providers and back; module Commands    *)
(* adds the command line around it.  Five places decide on sizes           *)
(* (config.Validate, Limits.validate, validateOptimizeRequest, the         *)
(* planner's default, Solver.validate); here they meet.  Stops are         *)
(* counted, a matrix is known by its rows.                                 *)
(***************************************************************************)
EXTENDS Integers, Sequences

CONSTANTS Most   \* bound: the largest count, limit or top_k considered

ASSUME MostAssumption == Most \in Nat

VARIABLES
  config,    \* config.PlannerConfig after config.Load
  entry,     \* "http", or the CLI command: "all" or "optimize"
  input,     \* what came in
  stage,     \* what is done next
  stops,     \* stops resolved so far
  matrix,    \* rows of the matrix, Unusable if it has a bad value or shape
  fetched,   \* a provider was called
  outcome    \* the response or the returned error, by its cause

vars == <<config, entry, input, stage, stops, matrix, fetched, outcome>>

Unusable == -1
Counts == 0..Most
Configs == [defaultTopK : Counts, maxTopK : Counts, maxStops : Counts]
Inputs == [form : {"ok", "wrong method", "malformed"},  \* method and JSON body
           fields : BOOLEAN,    \* names, coordinates and ids of all stops are valid
           count : Counts,      \* stops, or addresses of "all"
           topK : -1..Most,     \* 0 when it is left out
           matrix : -1..Most]   \* rows of the matrix file; 0 when there is none

(* config.Validate *)
Validate(c) == c.defaultTopK >= 1 /\ c.maxTopK >= c.defaultTopK /\ c.maxStops >= 1

(* Limits.validate, without which the server does not start. *)
LimitsValidate(c) == Validate(c) /\ c.maxStops >= 2

(* What a CLI command hands to the planner, well formed by its types. *)
OptimizeRequest(n, k, rows) ==
  [form |-> "ok", fields |-> TRUE, count |-> n, topK |-> k, matrix |-> rows]
NoInput == OptimizeRequest(0, 0, 0)

(* No request is under way. *)
PlannerInit ==
  /\ entry = "none" /\ input = NoInput /\ stage = "idle"
  /\ stops = 0 /\ matrix = 0 /\ fetched = FALSE /\ outcome = "none"

Begin(e, i, first) ==
  /\ entry' = e /\ input' = i /\ stage' = first
  /\ stops' = 0 /\ matrix' = 0 /\ fetched' = FALSE /\ outcome' = "none"

Request(e, i) == Begin(e, i, IF e = "http" THEN "handle" ELSE "resolve")
NoRequest == Begin("none", NoInput, "idle")

(* A body posted to a server that has accepted its configuration: only     *)
(* this one has a form and fields to be checked.                           *)
Post(i) ==
  /\ stage = "idle" /\ LimitsValidate(config) /\ i.matrix = 0
  /\ Request("http", i)
  /\ UNCHANGED config

Return(result) == stage' = "done" /\ outcome' = result
Continue(next) == stage' = next /\ UNCHANGED outcome

(* Wrong: top_k is left for the solver to check. *)
TopKUnchecked(i) == i.count \in 2..config.maxStops /\ i.fields

(* validateOptimizeRequest *)
validateOptimizeRequest(i) ==
  i.count \in 2..config.maxStops /\ i.topK \in 0..config.maxTopK /\ i.fields

(* Server.optimize up to the call of the planner: 405, 400, 422. *)
Handle ==
  /\ stage = "handle"
  /\ IF input.form # "ok" THEN Return(input.form)
     ELSE IF ~validateOptimizeRequest(input) THEN Return("invalid")
     ELSE Continue("resolve")
  /\ UNCHANGED <<config, entry, input, stops, matrix, fetched>>

(* resolveStops *)
TakeStops ==
  /\ stage = "resolve" /\ entry # "all"
  /\ stops' = input.count
  /\ IF input.count = 0 THEN Return("empty") ELSE Continue("matrix")
  /\ UNCHANGED <<config, entry, input, matrix, fetched>>

(* One address after the other; the first that fails ends the request. *)
Geocode ==
  /\ stage = "resolve" /\ entry = "all"
  /\ fetched' = TRUE
  /\ \/ stops' = stops + 1 /\ Continue(IF stops' = input.count THEN "matrix" ELSE "resolve")
     \/ Return("provider") /\ UNCHANGED stops
  /\ UNCHANGED <<config, entry, input, matrix>>

(* A matrix that was read is used as it is; the planner of "optimize" has  *)
(* no provider to ask for a missing one.                                   *)
TakeMatrix ==
  /\ stage = "matrix" /\ entry = "optimize"
  /\ matrix' = input.matrix
  /\ IF input.matrix = 0 THEN Return("provider") ELSE Continue("solve")
  /\ UNCHANGED <<config, entry, input, stops, fetched>>

(* OSRM.Durations checks the shape of what it is given but not its values. *)
Durations ==
  /\ stage = "matrix" /\ entry # "optimize"
  /\ fetched' = TRUE
  /\ \/ matrix' = stops /\ Continue("solve")
     \/ stops > 1 /\ matrix' = Unusable /\ Continue("solve")
     \/ Return("provider") /\ UNCHANGED matrix
  /\ UNCHANGED <<config, entry, input, stops>>

NewSolver == [maxStops |-> config.maxStops, maxTopK |-> config.maxTopK]
topK == IF input.topK = 0 THEN config.defaultTopK ELSE input.topK

(* Solver.validate, in its order. *)
Solve ==
  /\ stage = "solve"
  /\ IF stops \notin 1..NewSolver.maxStops THEN Return("stops")
     ELSE IF topK \notin 1..NewSolver.maxTopK THEN Return("top_k")
     ELSE IF matrix # stops THEN Return("matrix")
     ELSE Continue("directions")
  /\ UNCHANGED <<config, entry, input, stops, matrix, fetched>>

(* What Solver.Solve returns for n stops: from stop 0 through all others   *)
(* back to it; two zeros for one stop.                                     *)
Tours(n) ==
  {p \in [1..(n + 1) -> 0..(n - 1)] :
     /\ p[1] = 0 /\ p[n + 1] = 0
     /\ \A a, b \in 1..n : p[a] = p[b] => a = b}

(* Google.DirectionsURL refuses what it cannot look up. *)
HasDirections(n, path) == Len(path) >= 2 /\ \A i \in DOMAIN path : path[i] \in 0..(n - 1)

(* Ranks, ordered stops, and over HTTP a link for every route. *)
Planned ==
  /\ stage = "directions"
  /\ \E path \in Tours(stops) :
       Return(IF entry = "http" /\ ~HasDirections(stops, path) THEN "directions" ELSE "ok")
  /\ UNCHANGED <<config, entry, input, stops, matrix, fetched>>

Steps == Handle \/ TakeStops \/ Geocode \/ TakeMatrix \/ Durations \/ Solve \/ Planned

----------------------------------------------------------------------------
(* httpapi/v1/optimize_test.go:178, "rejects invalid input before matrix   *)
(* provider": once a provider was called for an HTTP request, only that    *)
(* provider can make it fail, under every configuration the server starts  *)
(* with.                                                                   *)
NothingFetchedInVain ==
  entry = "http" /\ fetched /\ outcome # "none" =>
    (outcome \in {"ok", "provider"} \/ (outcome = "matrix" /\ matrix = Unusable))

============================================================================
