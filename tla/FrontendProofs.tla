--------------------------- MODULE FrontendProofs ---------------------------
(***************************************************************************)
(* Proofs about Frontend for any addresses, places, lists and limits.      *)
(*                                                                         *)
(* Rows stay coherent one by one: CoherentRow is what RowsCoherent says of *)
(* a row, that a place is only remembered for the address that gave it,    *)
(* and that the stop of a row of coordinates is the place in its fields.   *)
(* SentAs relates a row to the stop that was sent for it: OfRows says so   *)
(* of all rows not changed since, for the request (RequestInv) and for the *)
(* routes that come of it (RoutesInv).                                     *)
(***************************************************************************)
EXTENDS Frontend, FiniteSetTheorems, TLAPS

Row == [address : Addresses, label : Labels, mode : {"address", "coordinates"},
        at : Coordinates, source : {"entered", "geocoded"},
        key : {AddressKey[a] : a \in Addresses},
        lookup : Points \cup {None}, stop : Points \cup {None}, error : BOOLEAN]

Coherent(row) ==
  /\ row.source = "geocoded" => row.at = row.lookup /\ row.lookup # None
  /\ row.lookup # None => row.key = AddressKey[row.address]
  /\ row.stop # None => row.mode = "coordinates" /\ row.stop = row.at
  /\ row.mode = "coordinates" => row.stop = parseCoordinates(row)
  /\ row.error => ~isRowResolved(row)

CoherentRow == {row \in Row : Coherent(row)}

StopOf(row) == [at |-> row.stop, name |-> effectiveStopName(row), label |-> row.label]

(* This is what the row was sent as, under the label it had then. *)
SentAs(row, sent) ==
  /\ isRowResolved(row)
  /\ sent.at = row.stop
  /\ sent.name = effectiveStopName([row EXCEPT !.label = sent.label])

(* These stops are the ones in the list, but for the rows changed. *)
OfRows(stops, touched) ==
  /\ Len(stops) = Len(rows)
  /\ \A i \in 1..Len(rows) \ touched : SentAs(rows[i], stops[i])

LimitsInv == limits \in Limits /\ (config = "loaded" => limits = ServerLimits)

RequestInv ==
  /\ busy \in {"", "geocode", "optimize"}
  /\ busy = "geocode" /\ request.configured =>
       Cardinality(request.lookups) <= ServerLimits.maxStops
  /\ busy = "optimize" =>
       /\ request = [stops |-> request.stops, topK |-> request.topK,
                     configured |-> request.configured, touched |-> request.touched]
       /\ request.configured => Accepted
       /\ OfRows(request.stops, request.touched)

RoutesInv == routes # None => OfRows(routes.stops, routes.touched)

FInv == rows \in Seq(CoherentRow) /\ LimitsInv /\ RequestInv /\ RoutesInv

----------------------------------------------------------------------------
(* What the handlers make of a coherent row is one. *)

LEMMA NewRowIsCoherent ==
  ASSUME NEW a \in Addresses, NEW l \in Labels PROVE NewRow(a, l) \in CoherentRow
  BY PageAssumption DEF NewRow, CoherentRow, Row, Coherent, Coordinates, NoKey

LEMMA TypedAddressIsCoherent ==
  ASSUME NEW row \in CoherentRow, row.mode = "address", NEW a \in Addresses,
         AddressKey[a] = AddressKey[row.address]
  PROVE  [row EXCEPT !.address = a] \in CoherentRow
  BY DEF CoherentRow, Row, Coherent, isRowResolved

LEMMA LabeledIsCoherent ==
  ASSUME NEW row \in CoherentRow, NEW l \in Labels
  PROVE  [row EXCEPT !.label = l] \in CoherentRow
  BY DEF CoherentRow, Row, Coherent, isRowResolved, parseCoordinates

LEMMA SyncedIsCoherent ==
  ASSUME NEW row \in Row, row.mode = "coordinates", ~row.error,
         row.source = "geocoded" => row.at = row.lookup /\ row.lookup # None,
         row.lookup # None => row.key = AddressKey[row.address]
  PROVE  /\ syncCoordinateStop(row) \in CoherentRow
         /\ ~syncCoordinateStop(row).error
         /\ syncCoordinateStop(row).mode = "coordinates"
         /\ syncCoordinateStop(row).stop = parseCoordinates(row)
  BY PageAssumption DEF CoherentRow, Row, Coherent, syncCoordinateStop, parseCoordinates

LEMMA TypedCoordinatesAreCoherent ==
  ASSUME NEW row \in CoherentRow, row.mode = "coordinates", NEW c \in Coordinates
  PROVE  syncCoordinateStop([row EXCEPT !.at = c, !.source = "entered", !.error = FALSE]) \in CoherentRow
<1> DEFINE typed == [row EXCEPT !.at = c, !.source = "entered", !.error = FALSE]
<1>1. /\ typed \in Row /\ typed.mode = "coordinates" /\ ~typed.error /\ typed.source = "entered"
      /\ typed.lookup = row.lookup /\ typed.key = row.key /\ typed.address = row.address
  BY DEF CoherentRow, Row
<1>2. row.lookup # None => row.key = AddressKey[row.address]
  BY DEF CoherentRow, Coherent
<1> HIDE DEF typed
<1>3. syncCoordinateStop(typed) \in CoherentRow
  BY <1>1, <1>2, SyncedIsCoherent
<1> QED
  BY <1>3 DEF typed

LEMMA OtherModeIsCoherent ==
  ASSUME NEW row \in CoherentRow
  PROVE  AsCoordinates(row) \in CoherentRow /\ AsAddress(row) \in CoherentRow
<1> DEFINE shown == [row EXCEPT !.mode = "coordinates", !.error = FALSE]
           offered == [shown EXCEPT !.at = row.lookup, !.source = "geocoded"]
<1>1. row \in Row /\ Coherent(row)
  BY DEF CoherentRow
<1>2. AsAddress(row) \in CoherentRow
  BY <1>1 DEF AsAddress, CoherentRow, Row, Coherent
<1>3. /\ shown \in Row /\ shown.mode = "coordinates" /\ ~shown.error
      /\ shown.source = row.source /\ shown.at = row.at /\ shown.lookup = row.lookup
      /\ shown.key = row.key /\ shown.address = row.address
  BY <1>1 DEF Row
<1>4. syncCoordinateStop(shown) \in CoherentRow
  <2> HIDE DEF shown
  <2> QED
    BY <1>1, <1>3, SyncedIsCoherent DEF Coherent
<1>5. ASSUME row.lookup # None PROVE syncCoordinateStop(offered) \in CoherentRow
  <2>1. row.lookup \in Coordinates
    BY <1>1, <1>5 DEF Row, Coordinates
  <2>2. /\ offered \in Row /\ offered.mode = "coordinates" /\ ~offered.error
        /\ offered.at = row.lookup /\ offered.lookup = row.lookup
        /\ offered.key = row.key /\ offered.address = row.address
    BY <1>1, <2>1 DEF Row
  <2> HIDE DEF offered
  <2> QED
    BY <1>1, <1>5, <2>2, SyncedIsCoherent DEF Coherent
<1>6. AsCoordinates(row) = IF row.at = Empty /\ row.lookup # None
                           THEN syncCoordinateStop(offered) ELSE syncCoordinateStop(shown)
  BY DEF AsCoordinates
<1> HIDE DEF shown, offered
<1> QED
  BY <1>2, <1>4, <1>5, <1>6

LEMMA CheckedIsCoherent == ASSUME NEW row \in CoherentRow PROVE Checked(row) \in CoherentRow
<1> DEFINE entered == [row EXCEPT !.error = FALSE]
           synced == syncCoordinateStop(entered)
<1>1. row \in Row /\ Coherent(row)
  BY DEF CoherentRow
<1>2. /\ entered \in Row /\ ~entered.error /\ entered.mode = row.mode
      /\ entered.source = row.source /\ entered.at = row.at /\ entered.lookup = row.lookup
      /\ entered.key = row.key /\ entered.address = row.address /\ entered.stop = row.stop
  BY <1>1 DEF Row
<1>3. CASE row.mode = "address"
  <2>1. entered \in CoherentRow
    BY <1>1, <1>2, <1>3 DEF CoherentRow, Coherent
  <2> QED
    BY <1>3, <2>1 DEF Checked
<1>4. CASE row.mode = "coordinates"
  <2>1. /\ synced \in CoherentRow /\ ~synced.error /\ synced.mode = "coordinates"
        /\ synced.stop = parseCoordinates(entered)
    <3> HIDE DEF entered
    <3> QED
      BY <1>1, <1>2, <1>4, SyncedIsCoherent DEF Coherent
  <2>2. parseCoordinates(entered) = parseCoordinates(row)
    BY <1>2 DEF parseCoordinates
  <2>3. Checked(row) = [synced EXCEPT !.error = parseCoordinates(row) = None]
    BY <1>4 DEF Checked
  <2> HIDE DEF synced
  <2> QED
    BY <2>1, <2>2, <2>3 DEF CoherentRow, Row, Coherent, isRowResolved, parseCoordinates
<1> QED
  BY <1>1, <1>3, <1>4 DEF Row

LEMMA CheckedRows ==
  ASSUME rows \in Seq(CoherentRow), rows' = [i \in 1..Len(rows) |-> Checked(rows[i])]
  PROVE  rows' \in Seq(CoherentRow)
<1>1. Len(rows) \in Nat /\ \A i \in 1..Len(rows) : rows[i] \in CoherentRow
  OBVIOUS
<1>2. \A i \in 1..Len(rows) : Checked(rows[i]) \in CoherentRow
  BY <1>1, CheckedIsCoherent
<1> HIDE DEF Checked
<1> QED
  BY <1>1, <1>2

LEMMA MarkedIsCoherent ==
  ASSUME NEW row \in CoherentRow, NEW missing \in BOOLEAN, missing => row.mode = "address"
  PROVE  [row EXCEPT !.error = missing] \in CoherentRow
<1> DEFINE marked == [row EXCEPT !.error = missing]
<1>1. row \in Row /\ Coherent(row)
  BY DEF CoherentRow
<1>2. /\ marked \in Row /\ marked.error = missing /\ marked.stop = row.stop
      /\ marked.source = row.source /\ marked.at = row.at /\ marked.lookup = row.lookup
      /\ marked.key = row.key /\ marked.address = row.address /\ marked.mode = row.mode
  BY <1>1 DEF Row
<1>3. marked.error => marked.stop = None
  BY <1>1, <1>2 DEF Coherent
<1> HIDE DEF marked
<1>4. marked \in CoherentRow
  BY <1>1, <1>2, <1>3 DEF CoherentRow, Coherent, isRowResolved, parseCoordinates
<1> QED
  BY <1>4 DEF marked

LEMMA GeocodedIsCoherent ==
  ASSUME NEW row \in CoherentRow, NEW place \in Points \cup {None}
  PROVE  applyGeocodeResult(row, place) \in CoherentRow
<1>1. /\ row \in Row /\ row.address \in Addresses /\ row.label \in Labels
      /\ row.mode \in {"address", "coordinates"}
  BY DEF CoherentRow, Row
<1>2. CASE place # None
  BY <1>1, <1>2, PageAssumption DEF applyGeocodeResult, CoherentRow, Row, Coherent, Coordinates, parseCoordinates
<1>3. CASE place = None
  <2>1. NewRow(row.address, row.label) \in Row /\ Coherent(NewRow(row.address, row.label))
    BY <1>1, NewRowIsCoherent DEF CoherentRow
  <2>2. /\ NewRow(row.address, row.label).stop = None /\ NewRow(row.address, row.label).source = "entered"
        /\ NewRow(row.address, row.label).at = Empty /\ Empty \notin Points
    BY PageAssumption DEF NewRow
  <2> HIDE DEF NewRow
  <2> QED
    BY <1>1, <1>3, <2>1, <2>2 DEF applyGeocodeResult, CoherentRow, Row, Coherent, isRowResolved, parseCoordinates
<1> QED
  BY <1>2, <1>3

----------------------------------------------------------------------------
LEMMA RemovedIsSeq ==
  ASSUME NEW S, NEW s \in Seq(S), NEW i \in 1..Len(s) PROVE RemoveAt(s, i) \in Seq(S)
<1>1. SubSeq(s, 1, i - 1) \in Seq(S) /\ SubSeq(s, i + 1, Len(s)) \in Seq(S)
  OBVIOUS
<1> QED
  BY <1>1 DEF RemoveAt

(* A handler of one row keeps what is known of stops that were sent: that  *)
(* row counts as changed, or still is what it was sent as.                 *)
LEMMA OthersKept ==
  ASSUME NEW i \in 1..Len(rows), rows \in Seq(CoherentRow), NEW row, rows' = [rows EXCEPT ![i] = row],
         NEW stops, NEW touched, OfRows(stops, touched),
         i \in touched \/ (SentAs(rows[i], stops[i]) => SentAs(row, stops[i]))
  PROVE  /\ Len(rows') = Len(rows) /\ Len(stops) = Len(rows')
         /\ \A j \in 1..Len(rows') \ touched : SentAs(rows'[j], stops[j])
<1>1. Len(rows') = Len(rows) /\ \A j \in 1..Len(rows) : rows'[j] = IF j = i THEN row ELSE rows[j]
  OBVIOUS
<1> HIDE DEF SentAs
<1> QED
  BY <1>1 DEF OfRows

(* So it keeps the invariant if it also drops the routes, unless that row  *)
(* counted as changed in them, and notes the row in a request for routes.  *)
LEMMA EditKeeps ==
  ASSUME FInv, NEW i \in 1..Len(rows), NEW row \in CoherentRow,
         rows' = [rows EXCEPT ![i] = row],
         routes' = None \/ (routes' = routes /\ (routes = None \/ i \in routes.touched)),
         Touch(i), UNCHANGED <<busy, limits, config>>
  PROVE  FInv'
<1>1. rows' \in Seq(CoherentRow)
  BY DEF FInv
<1>2. LimitsInv'
  BY DEF FInv, LimitsInv
<1>3. RequestInv'
  <2>1. CASE busy # "optimize"
    BY <2>1 DEF FInv, RequestInv, Touch
  <2>2. CASE busy = "optimize"
    <3>1. /\ request = [stops |-> request.stops, topK |-> request.topK,
                        configured |-> request.configured, touched |-> request.touched]
          /\ request.configured => Accepted
          /\ OfRows(request.stops, request.touched)
      BY <2>2 DEF FInv, RequestInv
    <3>2. request' = [stops |-> request.stops, topK |-> request.topK,
                      configured |-> request.configured, touched |-> request.touched \cup {i}]
      BY <2>2, <3>1 DEF Touch
    <3>3. OfRows(request.stops, request.touched \cup {i})
      BY <3>1 DEF OfRows
    <3>4. OfRows(request.stops, request.touched)'
      BY <3>2, <3>3, OthersKept DEF FInv, OfRows
    <3> QED
      BY <2>2, <3>1, <3>2, <3>4 DEF RequestInv, Accepted
  <2> QED
    BY <2>1, <2>2
<1>4. RoutesInv'
  BY OthersKept DEF FInv, RoutesInv, OfRows
<1> QED
  BY <1>1, <1>2, <1>3, <1>4 DEF FInv

(* A label changes neither the place of a row nor what it was sent as. *)
LEMMA LabelKeeps ==
  ASSUME FInv, NEW i \in 1..Len(rows), NEW row \in CoherentRow, NEW l,
         row = [rows[i] EXCEPT !.label = l],
         rows' = [rows EXCEPT ![i] = row], UNCHANGED <<busy, request, routes, limits, config>>
  PROVE  FInv'
<1>1. rows' \in Seq(CoherentRow) /\ rows[i] \in Row
  BY DEF FInv, CoherentRow
<1>2. ASSUME NEW sent, SentAs(rows[i], sent) PROVE SentAs(row, sent)
  <2>1. [row EXCEPT !.label = sent.label] = [rows[i] EXCEPT !.label = sent.label]
    BY <1>1 DEF Row
  <2>2. row.stop = rows[i].stop /\ (isRowResolved(rows[i]) => isRowResolved(row))
    BY <1>1 DEF Row, isRowResolved, parseCoordinates
  <2> QED
    BY <1>2, <2>1, <2>2 DEF SentAs
<1>3. ASSUME NEW stops, NEW touched, OfRows(stops, touched)
      PROVE  /\ Len(rows') = Len(rows) /\ Len(stops) = Len(rows')
             /\ \A j \in 1..Len(rows') \ touched : SentAs(rows'[j], stops[j])
  <2>1. SentAs(rows[i], stops[i]) => SentAs(row, stops[i])
    BY <1>2
  <2>2. rows \in Seq(CoherentRow) /\ i \in 1..Len(rows) /\ rows' = [rows EXCEPT ![i] = row]
    BY DEF FInv
  <2>3. i \in touched \/ (SentAs(rows[i], stops[i]) => SentAs(row, stops[i]))
    BY <2>1
  <2> HIDE DEF SentAs
  <2> QED
    BY ONLY <1>3, <2>2, <2>3, OthersKept
<1>4. RequestInv'
  <2> HIDE DEF SentAs
  <2> QED
    BY <1>3 DEF FInv, RequestInv, Accepted, OfRows
<1>5. RoutesInv'
  <2> HIDE DEF SentAs
  <2> QED
    BY <1>3 DEF FInv, RoutesInv, OfRows
<1> QED
  BY <1>1, <1>4, <1>5 DEF FInv, LimitsInv

(* So does whatever leaves the page idle with coherent rows. *)
LEMMA IdleKeeps ==
  ASSUME FInv, busy' = "", rows' \in Seq(CoherentRow), UNCHANGED <<limits, config>>, RoutesInv'
  PROVE  FInv'
  BY DEF FInv, LimitsInv, RequestInv

(* A row without a place counts as changed in the routes shown. *)
LEMMA NoRoutesYet ==
  ASSUME FInv, NEW i \in 1..Len(rows), rows[i].mode = "address"
  PROVE  ~isRowResolved(rows[i]) /\ (routes = None \/ i \in routes.touched)
<1>1. rows[i] \in CoherentRow
  BY DEF FInv
<1>2. ~isRowResolved(rows[i])
  BY <1>1 DEF CoherentRow, Coherent, isRowResolved
<1> QED
  BY <1>2 DEF FInv, RoutesInv, OfRows, SentAs

(* What a row was sent as does not depend on its error, and checking its   *)
(* coordinates again gives the same place.                                 *)
LEMMA MarkedIsSent ==
  ASSUME NEW row \in CoherentRow, NEW sent, SentAs(row, sent), NEW e \in BOOLEAN
  PROVE  SentAs([row EXCEPT !.error = e], sent)
<1> DEFINE marked == [row EXCEPT !.error = e]
<1>1. row \in Row
  BY DEF CoherentRow
<1>2. /\ marked.stop = row.stop /\ marked.mode = row.mode /\ marked.at = row.at
      /\ marked.key = row.key /\ marked.address = row.address /\ marked.lookup = row.lookup
      /\ [marked EXCEPT !.label = sent.label].label = [row EXCEPT !.label = sent.label].label
  BY <1>1 DEF Row
<1>3. effectiveStopName([marked EXCEPT !.label = sent.label])
      = effectiveStopName([row EXCEPT !.label = sent.label])
  BY <1>1 DEF Row, effectiveStopName
<1>4. isRowResolved(marked)
  BY <1>2 DEF SentAs, isRowResolved, parseCoordinates
<1> HIDE DEF marked
<1>5. SentAs(marked, sent)
  BY <1>2, <1>3, <1>4 DEF SentAs
<1> QED
  BY <1>5 DEF marked

LEMMA CheckedIsSent ==
  ASSUME NEW row \in CoherentRow, NEW sent, SentAs(row, sent)
  PROVE  SentAs(Checked(row), sent)
<1> DEFINE entered == [row EXCEPT !.error = FALSE]
<1>1. row \in Row /\ row.mode = "coordinates" /\ row.stop = parseCoordinates(row)
  BY DEF CoherentRow, Coherent, SentAs, isRowResolved
<1>2. syncCoordinateStop(entered) = entered
  BY <1>1 DEF Row, syncCoordinateStop, parseCoordinates
<1>3. Checked(row) = [row EXCEPT !.error = parseCoordinates(row) = None]
  BY <1>1, <1>2 DEF Checked, Row
<1> HIDE DEF entered, Checked
<1> QED
  BY <1>3, MarkedIsSent

LEMMA FrontendStep == FInv /\ [Next]_vars => FInv'
<1> SUFFICES ASSUME FInv, [Next]_vars PROVE FInv'
  OBVIOUS
<1>0. /\ rows \in Seq(CoherentRow) /\ Len(rows) \in Nat
      /\ \A i \in 1..Len(rows) : rows[i] \in CoherentRow
  BY DEF FInv
<1>1. ASSUME NEW i \in 1..Len(rows), NEW a \in Addresses, TypeAddress(i, a) PROVE FInv'
  <2> DEFINE other == AddressKey[a] # AddressKey[rows[i].address] \/ rows[i].key # AddressKey[a]
  <2>1. /\ rows[i].mode = "address" /\ Touch(i) /\ UNCHANGED <<busy, limits, config>>
        /\ rows' = [rows EXCEPT ![i] = IF other THEN NewRow(a, rows[i].label) ELSE [rows[i] EXCEPT !.address = a]]
        /\ routes' = None \/ routes' = routes
    BY <1>1 DEF TypeAddress, invalidateRoutes
  <2>2. routes = None \/ i \in routes.touched
    BY <2>1, NoRoutesYet
  <2>3. NewRow(a, rows[i].label) \in CoherentRow
    BY <1>0, NewRowIsCoherent DEF CoherentRow, Row
  <2>4. ~other => [rows[i] EXCEPT !.address = a] \in CoherentRow
    BY <1>0, <2>1, TypedAddressIsCoherent
  <2>5. PICK row \in CoherentRow : rows' = [rows EXCEPT ![i] = row]
    BY <2>1, <2>3, <2>4
  <2> QED
    BY <2>1, <2>2, <2>5, EditKeeps
<1>2. ASSUME NEW i \in 1..Len(rows), NEW l \in Labels, TypeLabel(i, l) PROVE FInv'
  <2> DEFINE row == [rows[i] EXCEPT !.label = l]
  <2>1. UNCHANGED <<busy, request, routes, limits, config>>
    BY <1>2 DEF TypeLabel
  <2>2. rows' = [rows EXCEPT ![i] = IF row.mode = "coordinates" /\ row.source = "entered"
                                   THEN syncCoordinateStop(row) ELSE row]
    BY <1>2 DEF TypeLabel
  <2>3. row \in CoherentRow
    BY <1>0, LabeledIsCoherent
  <2>4. row.mode = "coordinates" => syncCoordinateStop(row) = row
    BY <2>3 DEF CoherentRow, Coherent, Row, syncCoordinateStop
  <2>5. rows' = [rows EXCEPT ![i] = row]
    BY <2>2, <2>4
  <2> QED
    BY <2>1, <2>3, <2>5, LabelKeeps
<1>3. ASSUME NEW i \in 1..Len(rows), NEW c \in Coordinates, TypeCoordinates(i, c) PROVE FInv'
  <2>1. /\ rows[i].mode = "coordinates" /\ Touch(i) /\ UNCHANGED <<busy, limits, config>>
        /\ rows' = [rows EXCEPT ![i] = syncCoordinateStop(
                      [rows[i] EXCEPT !.at = c, !.source = "entered", !.error = FALSE])]
        /\ routes' = None
    BY <1>3 DEF TypeCoordinates, invalidateRoutes
  <2>2. PICK row \in CoherentRow : rows' = [rows EXCEPT ![i] = row]
    BY <1>0, <2>1, TypedCoordinatesAreCoherent
  <2> QED
    BY <2>1, <2>2, EditKeeps
<1>4. ASSUME NEW i \in 1..Len(rows), ChangeMode(i) PROVE FInv'
  <2>1. /\ Touch(i) /\ UNCHANGED <<busy, limits, config>> /\ routes' = None
        /\ rows' = [rows EXCEPT ![i] = IF rows[i].mode = "address" THEN AsCoordinates(rows[i])
                                                                  ELSE AsAddress(rows[i])]
    BY <1>4 DEF ChangeMode, invalidateRoutes
  <2>2. AsCoordinates(rows[i]) \in CoherentRow /\ AsAddress(rows[i]) \in CoherentRow
    BY <1>0, OtherModeIsCoherent
  <2>3. PICK row \in CoherentRow : rows' = [rows EXCEPT ![i] = row]
    BY <2>1, <2>2
  <2> QED
    BY <2>1, <2>3, EditKeeps
<1>5. ASSUME NEW i \in 1..Len(rows), RemoveRow(i) PROVE FInv'
  <2>1. rows' \in Seq(CoherentRow)
    BY <1>0, <1>5, RemovedIsSeq DEF RemoveRow
  <2> QED
    BY <1>5, <2>1, IdleKeeps DEF RemoveRow, invalidateRoutes, RoutesInv
<1>6. CASE addStop
  <2>1. NewRow(Blank, NoLabel) \in CoherentRow
    BY PageAssumption, NewRowIsCoherent
  <2>2. rows' \in Seq(CoherentRow)
    <3>1. rows' = Append(rows, NewRow(Blank, NoLabel))
      BY <1>6 DEF addStop
    <3> HIDE DEF NewRow
    <3> QED
      BY <1>0, <2>1, <3>1
  <2> QED
    BY <1>6, <2>2, IdleKeeps DEF addStop, invalidateRoutes, RoutesInv
<1>7. CASE loadDemo
  <2>1. PICK n \in Nat : n <= Len(Demo) /\ availableDemoStops = 1..n
    <3>1. Len(Demo) \in Nat /\ limits.maxStops \in Nat
      BY PageAssumption DEF FInv, LimitsInv, Limits
    <3>2. CASE Len(Demo) <= limits.maxStops
      BY <3>1, <3>2 DEF availableDemoStops
    <3>3. CASE limits.maxStops < Len(Demo)
      BY <3>1, <3>3 DEF availableDemoStops
    <3> QED
      BY <3>1, <3>2, <3>3
  <2>2. \A i \in 1..n : NewRow(Demo[i].address, Demo[i].label) \in CoherentRow
    <3>1. \A i \in 1..n : Demo[i] \in [address : Addresses, label : Labels]
      <4>1. Demo \in Seq([address : Addresses, label : Labels]) /\ Len(Demo) \in Nat
        BY PageAssumption
      <4>2. \A i \in 1..n : i \in 1..Len(Demo)
        BY <2>1, <4>1
      <4> DEFINE DemoStop == [address : Addresses, label : Labels]
      <4>3. Demo \in Seq(DemoStop)
        BY <4>1
      <4> HIDE DEF DemoStop
      <4>4. \A i \in 1..Len(Demo) : Demo[i] \in DemoStop
        BY <4>3
      <4> QED
        BY <4>2, <4>4 DEF DemoStop
    <3>2. \A i \in 1..n : Demo[i].address \in Addresses /\ Demo[i].label \in Labels
      BY <3>1
    <3> QED
      BY <3>2, NewRowIsCoherent
  <2>3. rows' = [i \in 1..n |-> NewRow(Demo[i].address, Demo[i].label)]
    BY <1>7, <2>1 DEF loadDemo
  <2> HIDE DEF NewRow
  <2>4. rows' \in Seq(CoherentRow)
    BY <2>1, <2>2, <2>3
  <2> QED
    BY <1>7, <2>4, IdleKeeps DEF loadDemo, invalidateRoutes, RoutesInv
<1>8. ASSUME NEW k \in Counts, TypeTopK(k) PROVE FInv'
  BY <1>0, <1>8, IdleKeeps DEF TypeTopK, invalidateRoutes, RoutesInv
<1>9. CASE ResolveRefused
  <2>1. PICK i \in 1..Len(rows) : rows[i].mode = "address"
    BY <1>9 DEF ResolveRefused, BlankRows
  <2>2. RoutesInv'
    <3>1. ASSUME NEW j \in 1..Len(rows), NEW sent, SentAs(rows[j], sent)
          PROVE  SentAs([rows[j] EXCEPT !.error = j \in BlankRows], sent)
      <4>1. rows[j] \in CoherentRow /\ (j \in BlankRows) \in BOOLEAN
        BY <1>0
      <4> HIDE DEF BlankRows
      <4> QED
        BY <3>1, <4>1, MarkedIsSent
    <3>2. rows' = [j \in 1..Len(rows) |-> [rows[j] EXCEPT !.error = j \in BlankRows]]
      BY <1>9 DEF ResolveRefused
    <3>3. Len(rows') = Len(rows) /\ \A j \in 1..Len(rows) : rows'[j] = [rows[j] EXCEPT !.error = j \in BlankRows]
      BY <1>0, <3>2
    <3> QED
      BY <1>9, <3>1, <3>3 DEF ResolveRefused, FInv, RoutesInv, OfRows
  <2>3. \A j \in 1..Len(rows) : [rows[j] EXCEPT !.error = j \in BlankRows] \in CoherentRow
    <3> SUFFICES ASSUME NEW j \in 1..Len(rows)
                 PROVE  [rows[j] EXCEPT !.error = j \in BlankRows] \in CoherentRow
      OBVIOUS
    <3>1. rows[j] \in CoherentRow /\ (j \in BlankRows) \in BOOLEAN
      BY <1>0
    <3>2. j \in BlankRows => rows[j].mode = "address"
      BY DEF BlankRows
    <3> HIDE DEF BlankRows
    <3> QED
      BY <3>1, <3>2, MarkedIsCoherent
  <2>4. rows' \in Seq(CoherentRow)
    <3>1. rows' = [j \in 1..Len(rows) |-> [rows[j] EXCEPT !.error = j \in BlankRows]]
      BY <1>9 DEF ResolveRefused
    <3> HIDE DEF BlankRows
    <3> QED
      BY <1>0, <2>3, <3>1
  <2> QED
    BY <1>9, <2>2, <2>4, IdleKeeps DEF ResolveRefused
<1>10. CASE ResolveLocally
  <2>1. rows' \in Seq(CoherentRow)
    BY <1>0, <1>10, CheckedRows DEF ResolveLocally
  <2> QED
    BY <1>10, <2>1, IdleKeeps DEF ResolveLocally, invalidateRoutes, RoutesInv
<1>11. CASE ResolveStart
  <2>1. /\ rows' = [j \in 1..Len(rows) |-> Checked(rows[j])] /\ routes' = routes
    BY <1>11 DEF ResolveStart
  <2>2. RoutesInv'
    <3>1. Len(rows') = Len(rows) /\ \A j \in 1..Len(rows) : rows'[j] = Checked(rows[j])
      BY <1>0, <2>1
    <3>2. ASSUME NEW j \in 1..Len(rows), NEW sent, SentAs(rows[j], sent)
          PROVE  SentAs(Checked(rows[j]), sent)
      BY <1>0, <3>2, CheckedIsSent
    <3> QED
      BY <2>1, <3>1, <3>2 DEF FInv, RoutesInv, OfRows
  <2>3. rows' \in Seq(CoherentRow)
    BY <1>0, <1>11, CheckedRows DEF ResolveStart
  <2>4. LimitsInv'
    BY <1>11 DEF ResolveStart, FInv, LimitsInv
  <2>5. config = "loaded" => Cardinality(LookupRows) <= ServerLimits.maxStops
    <3>1. LookupRows \in SUBSET (1..Len(rows))
      BY DEF LookupRows
    <3>2. IsFiniteSet(1..Len(rows)) /\ Cardinality(1..Len(rows)) = Len(rows)
      BY <1>0, FS_Interval
    <3>3. /\ IsFiniteSet(LookupRows) /\ Cardinality(LookupRows) \in Nat
          /\ Cardinality(LookupRows) <= Len(rows)
      BY <3>1, <3>2, FS_Subset, FS_CardinalityType
    <3>4. Len(rows) <= limits.maxStops /\ limits.maxStops \in Nat
      BY <1>11 DEF ResolveStart, StopCountValid, FInv, LimitsInv, Limits
    <3>5. config = "loaded" => limits = ServerLimits
      BY DEF FInv, LimitsInv
    <3> QED
      BY <1>0, <3>3, <3>4, <3>5
  <2>6. RequestInv'
    BY <1>11, <2>5 DEF ResolveStart, RequestInv
  <2> QED
    BY <2>2, <2>3, <2>4, <2>6 DEF FInv
<1>12. CASE ResolveReply
  <2>1. PICK place \in [request.lookups -> Points \cup {None}] :
          rows' = [i \in 1..Len(rows) |->
            IF i \in request.lookups THEN applyGeocodeResult(rows[i], place[i]) ELSE rows[i]]
    BY <1>12 DEF ResolveReply
  <2>2. \A i \in 1..Len(rows) :
          i \in request.lookups => applyGeocodeResult(rows[i], place[i]) \in CoherentRow
    BY <1>0, GeocodedIsCoherent
  <2>3. rows' \in Seq(CoherentRow)
    BY <1>0, <2>1, <2>2
  <2> QED
    BY <1>12, <2>3, IdleKeeps DEF ResolveReply, invalidateRoutes, RoutesInv
<1>13. CASE ResolveFails
  BY <1>0, <1>13, IdleKeeps DEF ResolveFails, FInv, RoutesInv, OfRows
<1>14. CASE OptimizeStart
  <2>1. /\ rows' = rows /\ busy' = "optimize" /\ UNCHANGED <<limits, config, routes>>
        /\ request' = [stops |-> [i \in 1..Len(rows) |-> StopOf(rows[i])],
                       topK |-> topK, configured |-> config = "loaded", touched |-> {}]
        /\ Len(rows) <= limits.maxStops /\ topK \in 1..limits.maxTopK
        /\ \A i \in 1..Len(rows) : isRowResolved(rows[i])
    BY <1>14 DEF OptimizeStart, StopCountValid, StopOf
  <2>2. /\ Len(request'.stops) = Len(rows) /\ request'.topK = topK
        /\ \A i \in 1..Len(rows) : request'.stops[i] = StopOf(rows[i])
    BY <1>0, <2>1
  <2>3. OfRows(request.stops, request.touched)'
    <3>1. \A i \in 1..Len(rows) : SentAs(rows[i], StopOf(rows[i]))
      <4> SUFFICES ASSUME NEW i \in 1..Len(rows) PROVE SentAs(rows[i], StopOf(rows[i]))
        OBVIOUS
      <4>1. [rows[i] EXCEPT !.label = rows[i].label] = rows[i]
        BY <1>0 DEF CoherentRow, Row
      <4> QED
        BY <2>1, <4>1 DEF SentAs, StopOf
    <3> QED
      BY <2>1, <2>2, <3>1 DEF OfRows
  <2>4. config = "loaded" => Accepted'
    BY <1>0, <2>1, <2>2 DEF FInv, LimitsInv, Limits, Accepted
  <2>5. RequestInv'
    BY <2>1, <2>3, <2>4 DEF RequestInv
  <2> QED
    BY <2>1, <2>5 DEF FInv, LimitsInv, RoutesInv, OfRows
<1>15. CASE OptimizeReply
  <2>1. /\ rows' = rows /\ busy' = "" /\ UNCHANGED <<limits, config>>
        /\ routes' = [stops |-> request.stops, touched |-> request.touched]
        /\ OfRows(request.stops, request.touched)
    BY <1>15 DEF OptimizeReply, FInv, RequestInv
  <2>2. RoutesInv'
    BY <2>1 DEF RoutesInv, OfRows
  <2> QED
    BY <1>0, <2>1, <2>2, IdleKeeps
<1>16. CASE OptimizeFails
  BY <1>0, <1>16, IdleKeeps DEF OptimizeFails, invalidateRoutes, RoutesInv
<1>17. CASE LimitsLoaded
  BY <1>17, PageAssumption DEF LimitsLoaded, FInv, LimitsInv, RequestInv, Accepted, OfRows, RoutesInv
<1>18. CASE LimitsUnavailable
  BY <1>18 DEF LimitsUnavailable, FInv, LimitsInv, RequestInv, Accepted, OfRows, RoutesInv
<1>19. CASE UNCHANGED vars
  BY <1>19 DEF vars, FInv, LimitsInv, RequestInv, Accepted, OfRows, RoutesInv
<1> QED
  BY <1>1, <1>3, <1>4, <1>5, <1>6, <1>7, <1>8, <1>9, <1>10, <1>11, <1>12, <1>13, <1>14, <1>15,
     <1>16, <1>17, <1>18, <1>19, <1>2 DEF Next, Settle

LEMMA FrontendInvariant == Spec => []FInv
<1>1. Init => FInv
  <2> SUFFICES ASSUME Init PROVE FInv
    OBVIOUS
  <2>1. NewRow(Blank, NoLabel) \in CoherentRow
    BY PageAssumption, NewRowIsCoherent
  <2>2. rows \in Seq(CoherentRow)
    <3>1. rows = <<NewRow(Blank, NoLabel), NewRow(Blank, NoLabel)>>
      BY DEF Init
    <3> HIDE DEF NewRow
    <3> QED
      BY <2>1, <3>1
  <2>3. LimitsInv
    BY PageAssumption DEF Init, LimitsInv
  <2> QED
    BY <2>2, <2>3 DEF Init, FInv, RequestInv, RoutesInv
<1> QED
  BY <1>1, FrontendStep, PTL DEF Spec

(* Whatever is typed, looked up and switched, in which order and however   *)
(* late the replies, the parts of a row agree.                             *)
THEOREM RowsStayCoherent == Spec => []RowsCoherent
<1>1. FInv => RowsCoherent
  <2> SUFFICES ASSUME FInv, NEW i \in 1..Len(rows)
               PROVE  /\ rows[i].source = "geocoded" =>
                           /\ rows[i].at = rows[i].lookup /\ rows[i].lookup # None
                           /\ rows[i].key = AddressKey[rows[i].address]
                      /\ rows[i].stop # None => rows[i].mode = "coordinates" /\ rows[i].stop = rows[i].at
                      /\ rows[i].error => ~isRowResolved(rows[i])
    BY DEF RowsCoherent
  <2>1. rows[i] \in CoherentRow
    BY DEF FInv
  <2> QED
    BY <2>1 DEF CoherentRow, Coherent
<1> QED
  BY <1>1, FrontendInvariant, PTL

(* Routes on the page belong to its stops, for lists of any length and     *)
(* replies however late: place for place and name for name, except in rows *)
(* that were changed while they were calculated and for labels typed since *)
(* they were asked for.                                                    *)
THEOREM RoutesAreOfTheRows == Spec => []RoutesMatchRows
<1>1. FInv => RoutesMatchRows
  BY DEF FInv, RoutesInv, OfRows, SentAs, RoutesMatchRows
<1> QED
  BY <1>1, FrontendInvariant, PTL

(* With the server's limits loaded, whatever they are, the page asks for   *)
(* nothing they exclude.                                                   *)
THEOREM RequestsFitTheServer == Spec => []RequestsWithinLimits
<1>1. FInv => RequestsWithinLimits
  BY DEF FInv, RequestInv, RequestsWithinLimits
<1> QED
  BY <1>1, FrontendInvariant, PTL
=============================================================================
