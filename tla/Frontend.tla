------------------------------ MODULE Frontend ------------------------------
(***************************************************************************)
(* frontend/app.js: the page's list of stops, its two requests to the      *)
(* server and the routes it shows.  Handlers run to completion; only the   *)
(* replies to fetch arrive later, with other events before them.           *)
(*                                                                         *)
(* Messages and focus are left out.  The two coordinate fields of a row    *)
(* are one value: Empty, Partial (anything that is not a valid pair) or    *)
(* one of Points.  A stop's id is its position.                            *)
(***************************************************************************)
EXTENDS Naturals, Sequences, SequencesExt

CONSTANTS
  AddressKey,     \* addressKey, as a function from what may be typed
  Blank,          \* the address of a new row
  Labels, NoLabel,\* labels, trimmed; the one of a new row
  MaxLabeled,     \* bound: rows with a label at a time
  MaxTouched,     \* bound: rows changed while routes are calculated
  Points, Empty, Partial,
  Demo,           \* demoStops: [address, label]
  PageLimits,     \* limits the page starts with
  ServerLimits,   \* limits the server enforces and publishes
  Counts,         \* what may be typed as top_k, 0 for what is no count
  None

Addresses == DOMAIN AddressKey
NoKey == AddressKey[Blank]
Coordinates == Points \cup {Empty, Partial}
Limits == [maxStops : Nat, maxTopK : Nat, defaultTopK : Nat]

ASSUME PageAssumption ==
  /\ Blank \in Addresses
  /\ NoLabel \in Labels /\ {MaxLabeled, MaxTouched} \subseteq Nat
  /\ Demo \in Seq([address : Addresses, label : Labels]) /\ Len(Demo) >= 2
  /\ {PageLimits, ServerLimits} \subseteq Limits
  /\ PageLimits.maxStops >= 2 /\ ServerLimits.maxStops >= 2
  /\ ServerLimits.defaultTopK <= ServerLimits.maxTopK /\ Counts \subseteq Nat
  /\ Empty # Partial /\ {Empty, Partial, None} \cap Points = {}

VARIABLES
  rows,      \* state.rows
  busy,      \* state.busy
  request,   \* what the pending fetch carries
  routes,    \* state.routes: the stops they were calculated for, and (history)
             \* the labels then and the rows changed meanwhile
  topK,      \* the number in the field
  edited,    \* dataset.edited of the field
  limits,    \* limits
  config,    \* the reply to /v1/config
  frozen     \* the row inputs were last rendered disabled

vars == <<rows, busy, request, routes, topK, edited, limits, config, frozen>>

(* createRow.  Coordinates come from the user or from a lookup (source);   *)
(* key and lookup are the address looked up and the place it gave; stop is *)
(* the place that will be sent, with error where there should be one.      *)
NewRow(a, l) == [address |-> a, label |-> l, mode |-> "address", at |-> Empty,
                 source |-> "entered", key |-> NoKey, lookup |-> None, stop |-> None,
                 error |-> FALSE]

Init ==
  /\ rows = <<NewRow(Blank, NoLabel), NewRow(Blank, NoLabel)>>
  /\ busy = "" /\ request = None /\ routes = None
  /\ topK = PageLimits.defaultTopK /\ edited = FALSE
  /\ limits = PageLimits /\ config = "pending"
  /\ frozen = FALSE

parseCoordinates(row) == IF row.at \in Points THEN row.at ELSE None

isRowResolved(row) ==
  /\ row.stop # None
  /\ IF row.mode = "coordinates" THEN row.stop = parseCoordinates(row)
                                 ELSE row.key = AddressKey[row.address]

syncCoordinateStop(row) == [row EXCEPT !.stop = parseCoordinates(row)]

(* The label, else the name of the place the address gave (here that       *)
(* place), else a generated one (None).                                    *)
effectiveStopName(row) ==
  IF row.label # NoLabel THEN row.label
  ELSE IF row.lookup # None /\ row.key = AddressKey[row.address] THEN row.lookup ELSE None

(* Wrong: the old coordinates stay when an address was not found. *)
applyGeocodeResultKeeping(row, place) ==
  IF place # None
    THEN [row EXCEPT !.lookup = place, !.stop = place, !.at = place,
                     !.source = "geocoded", !.mode = "coordinates",
                     !.key = AddressKey[row.address], !.error = FALSE]
    ELSE [row EXCEPT !.lookup = None, !.stop = None, !.error = TRUE]

applyGeocodeResult(row, place) ==
  IF place # None
    THEN [row EXCEPT !.lookup = place, !.stop = place, !.at = place,
                     !.source = "geocoded", !.mode = "coordinates",
                     !.key = AddressKey[row.address], !.error = FALSE]
    ELSE [NewRow(row.address, row.label) EXCEPT !.mode = row.mode, !.error = TRUE]

invalidateRoutes == routes' = None

(* Notes in the history that a row changed under a request for routes. *)
Touch(i) ==
  IF busy = "optimize"
    THEN LET touched == request.touched \cup {i} IN
         /\ Cardinality(touched) <= MaxTouched
         /\ request' = [request EXCEPT !.touched = touched]
    ELSE UNCHANGED request

(* Draws every row again, its inputs live only when the page is idle. *)
renderRows(task) == frozen' = (task # "")

----------------------------------------------------------------------------
(* The row's own inputs, which are live unless they were rendered disabled. *)

(* Another address makes a new row of it. *)
TypeAddress(i, a) ==
  LET row == rows[i]
      other == AddressKey[a] # AddressKey[row.address] \/ row.key # AddressKey[a] IN
  /\ ~frozen /\ row.mode = "address" /\ a # row.address
  /\ rows' = [rows EXCEPT ![i] = IF other THEN NewRow(a, row.label) ELSE [row EXCEPT !.address = a]]
  /\ IF other THEN invalidateRoutes ELSE UNCHANGED routes
  /\ Touch(i)
  /\ UNCHANGED <<busy, topK, edited, limits, config, frozen>>

LabeledRows(but) == {j \in 1..Len(rows) : j # but /\ rows[j].label # NoLabel}

(* Shown routes keep the names they were asked for with. *)
TypeLabel(i, l) ==
  LET row == [rows[i] EXCEPT !.label = l] IN
  /\ ~frozen /\ l # rows[i].label
  /\ l # NoLabel => Cardinality(LabeledRows(i)) < MaxLabeled
  /\ rows' = [rows EXCEPT ![i] = IF row.mode = "coordinates" /\ row.source = "entered"
                                 THEN syncCoordinateStop(row) ELSE row]
  /\ UNCHANGED <<busy, request, routes, topK, edited, limits, config, frozen>>

(* Wrong: routes stay when coordinates change. *)
TypeCoordinatesQuietly(i, c) ==
  /\ ~frozen /\ rows[i].mode = "coordinates"
  /\ Empty \in {c, rows[i].at} => {c, rows[i].at} \cap Points = {}
  /\ rows' = [rows EXCEPT ![i] =
       syncCoordinateStop([@ EXCEPT !.at = c, !.source = "entered", !.error = FALSE])]
  /\ Touch(i)
  /\ UNCHANGED <<busy, routes, topK, edited, limits, config, frozen>>

(* updateCoordinate; one field at a time cannot fill or clear the pair.    *)
TypeCoordinates(i, c) ==
  /\ ~frozen /\ rows[i].mode = "coordinates"
  /\ Empty \in {c, rows[i].at} => {c, rows[i].at} \cap Points = {}
  /\ rows' = [rows EXCEPT ![i] =
       syncCoordinateStop([@ EXCEPT !.at = c, !.source = "entered", !.error = FALSE])]
  /\ invalidateRoutes
  /\ Touch(i)
  /\ UNCHANGED <<busy, topK, edited, limits, config, frozen>>

(* Coordinates of an earlier lookup are offered in empty fields. *)
AsCoordinates(row) ==
  LET shown == [row EXCEPT !.mode = "coordinates", !.error = FALSE] IN
  syncCoordinateStop(
    IF row.at = Empty /\ row.lookup # None
      THEN [shown EXCEPT !.at = row.lookup, !.source = "geocoded"] ELSE shown)

AsAddress(row) == [row EXCEPT !.mode = "address", !.error = FALSE, !.stop = None]

(* Rendered under whatever state.busy is by now. *)
ChangeMode(i) ==
  /\ ~frozen
  /\ rows' = [rows EXCEPT ![i] = IF @.mode = "address" THEN AsCoordinates(@) ELSE AsAddress(@)]
  /\ invalidateRoutes
  /\ renderRows(busy)
  /\ Touch(i)
  /\ UNCHANGED <<busy, topK, edited, limits, config>>

RemoveRow(i) ==
  /\ ~frozen /\ busy = "" /\ Len(rows) > 2
  /\ rows' = RemoveAt(rows, i)
  /\ invalidateRoutes
  /\ UNCHANGED <<busy, request, topK, edited, limits, config, frozen>>

----------------------------------------------------------------------------
(* The buttons and the field of top_k. *)

addStop ==
  /\ busy = "" /\ Len(rows) < limits.maxStops
  /\ rows' = Append(rows, NewRow(Blank, NoLabel))
  /\ invalidateRoutes /\ renderRows(busy)
  /\ UNCHANGED <<busy, request, topK, edited, limits, config>>

availableDemoStops == {i \in 1..Len(Demo) : i <= limits.maxStops}

(* The user confirms that the list may be replaced. *)
loadDemo ==
  /\ busy = ""
  /\ rows' = [i \in availableDemoStops |-> NewRow(Demo[i].address, Demo[i].label)]
  /\ invalidateRoutes /\ renderRows(busy)
  /\ UNCHANGED <<busy, request, topK, edited, limits, config>>

TypeTopK(k) ==
  /\ busy = "" /\ topK' = k /\ edited' = TRUE
  /\ invalidateRoutes
  /\ UNCHANGED <<rows, busy, request, limits, config, frozen>>

BlankRows == {i \in 1..Len(rows) : rows[i].mode = "address" /\ AddressKey[rows[i].address] = NoKey}
LookupRows == {i \in 1..Len(rows) : rows[i].mode = "address"}

(* Wrong: the number of stops is not compared with the limit. *)
CountUnchecked == TRUE
StopCountValid == Len(rows) <= limits.maxStops

(* resolveAddresses, when an address is missing. *)
ResolveRefused ==
  /\ busy = "" /\ StopCountValid /\ BlankRows # {}
  /\ rows' = [i \in 1..Len(rows) |-> [rows[i] EXCEPT !.error = i \in BlankRows]]
  /\ renderRows(busy)
  /\ UNCHANGED <<busy, request, routes, topK, edited, limits, config>>

(* Rows of coordinates are checked at once. *)
Checked(row) ==
  LET entered == [row EXCEPT !.error = FALSE] IN
  IF row.mode = "address" THEN entered
  ELSE [syncCoordinateStop(entered) EXCEPT !.error = parseCoordinates(row) = None]

(* Without an address to look up it runs to its end. *)
ResolveLocally ==
  /\ busy = "" /\ StopCountValid /\ LookupRows = {}
  /\ rows' = [i \in 1..Len(rows) |-> Checked(rows[i])]
  /\ invalidateRoutes /\ renderRows(busy)
  /\ UNCHANGED <<busy, request, topK, edited, limits, config>>

(* Otherwise it waits for /v1/geocode with every input disabled. *)
ResolveStart ==
  /\ busy = "" /\ StopCountValid /\ BlankRows = {} /\ LookupRows # {}
  /\ rows' = [i \in 1..Len(rows) |-> Checked(rows[i])]
  /\ busy' = "geocode" /\ renderRows("geocode")
  /\ request' = [lookups |-> LookupRows, configured |-> config = "loaded"]
  /\ UNCHANGED <<routes, topK, edited, limits, config>>

ResolveReply ==
  /\ busy = "geocode"
  /\ Cardinality(request.lookups) <= ServerLimits.maxStops
  /\ \E place \in [request.lookups -> Points \cup {None}] :
       rows' = [i \in 1..Len(rows) |->
         IF i \in request.lookups THEN applyGeocodeResult(rows[i], place[i]) ELSE rows[i]]
  /\ invalidateRoutes
  /\ busy' = "" /\ request' = None /\ renderRows("")
  /\ UNCHANGED <<topK, edited, limits, config>>

(* No reply, an error reply, or one that does not fit the request. *)
ResolveFails ==
  /\ busy = "geocode"
  /\ busy' = "" /\ request' = None /\ renderRows("")
  /\ UNCHANGED <<rows, routes, topK, edited, limits, config>>

OptimizeStart ==
  /\ busy = "" /\ StopCountValid /\ Len(rows) >= 2
  /\ \A i \in 1..Len(rows) : isRowResolved(rows[i])
  /\ topK \in 1..limits.maxTopK
  /\ busy' = "optimize"
  /\ request' = [stops |-> [i \in 1..Len(rows) |->
                             [at |-> rows[i].stop, name |-> effectiveStopName(rows[i]),
                              label |-> rows[i].label]],
                 topK |-> topK, configured |-> config = "loaded", touched |-> {}]
  /\ UNCHANGED <<rows, routes, topK, edited, limits, config, frozen>>

Accepted == Len(request.stops) <= ServerLimits.maxStops /\ request.topK <= ServerLimits.maxTopK

(* The rows are not rendered again: frozen stays what it was. *)
OptimizeReply ==
  /\ busy = "optimize" /\ Accepted
  /\ routes' = [stops |-> request.stops, touched |-> request.touched]
  /\ busy' = "" /\ request' = None
  /\ UNCHANGED <<rows, topK, edited, limits, config, frozen>>

OptimizeFails ==
  /\ busy = "optimize"
  /\ invalidateRoutes
  /\ busy' = "" /\ request' = None
  /\ UNCHANGED <<rows, topK, edited, limits, config, frozen>>

----------------------------------------------------------------------------
(* loadLimits *)
LimitsLoaded ==
  /\ config = "pending"
  /\ limits' = ServerLimits /\ config' = "loaded"
  /\ topK' = IF edited THEN topK ELSE ServerLimits.defaultTopK
  /\ UNCHANGED <<rows, busy, request, routes, edited, frozen>>

LimitsUnavailable ==
  /\ config = "pending" /\ config' = "failed"
  /\ UNCHANGED <<rows, busy, request, routes, topK, edited, limits, frozen>>

Settle == ResolveReply \/ ResolveFails \/ OptimizeReply \/ OptimizeFails

Next ==
  \/ \E i \in 1..Len(rows) :
       \/ \E a \in Addresses : TypeAddress(i, a)
       \/ \E l \in Labels : TypeLabel(i, l)
       \/ \E c \in Coordinates : TypeCoordinates(i, c)
       \/ ChangeMode(i) \/ RemoveRow(i)
  \/ addStop \/ loadDemo
  \/ \E k \in Counts : TypeTopK(k)
  \/ ResolveRefused \/ ResolveLocally \/ ResolveStart \/ OptimizeStart \/ Settle
  \/ LimitsLoaded \/ LimitsUnavailable

Spec == Init /\ [][Next]_vars

----------------------------------------------------------------------------
(* A row's parts agree however it came to its state: coordinates marked as *)
(* geocoded are those of the row's own lookup of its present address, a    *)
(* stop is what the fields say, and a row marked as failed is not ready.   *)
RowsCoherent ==
  \A i \in 1..Len(rows) : LET row == rows[i] IN
    /\ row.source = "geocoded" =>
         row.at = row.lookup /\ row.lookup # None /\ row.key = AddressKey[row.address]
    /\ row.stop # None => row.mode = "coordinates" /\ row.stop = row.at
    /\ row.error => ~isRowResolved(row)

(* The routes on the page are for the rows in the list, one for one: only  *)
(* a row that was changed while they were being calculated may differ.     *)
(* Other rows are at the places they were sent with, and their names are   *)
(* the ones they show, or would show under the labels they had then: a     *)
(* label typed since is the only difference.                               *)
RoutesMatchRows ==
  routes # None =>
    /\ Len(routes.stops) = Len(rows)
    /\ \A i \in 1..Len(rows) \ routes.touched : LET sent == routes.stops[i] IN
         /\ isRowResolved(rows[i])
         /\ sent.at = rows[i].stop
         /\ sent.name = effectiveStopName([rows[i] EXCEPT !.label = sent.label])

(* README.md:187: once the server's limits have come, nothing the page     *)
(* sends is refused for its size.                                          *)
RequestsWithinLimits ==
  request # None /\ request.configured =>
    /\ busy = "geocode" => Cardinality(request.lookups) <= ServerLimits.maxStops
    /\ busy = "optimize" => Accepted

(* README.md:182: resolved coordinates "can be edited directly", so the    *)
(* inputs of a page that waits for nothing are live.                       *)
EditableWhenIdle == busy = "" => ~frozen

============================================================================
