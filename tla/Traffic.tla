------------------------------ MODULE Traffic ------------------------------
(***************************************************************************)
(* internal/deprecated/traffic, the preserved experiment of the README     *)
(* there: the directed edges between the stops are fetched from OSRM, NYC  *)
(* DOT links are matched to their geometry by the points their newest      *)
(* records give, the links' recent speeds are fetched chunk by chunk from  *)
(* an append-only feed that keeps growing, and every edge gets a           *)
(* multiplier, smoothed with the one of the round before and applied to    *)
(* the durations.  The edge file may also name links put in by hand.       *)
(*                                                                         *)
(* Geometry is abstracted to places, the points a record may give, and how *)
(* near each is to an edge: 0 beyond the match distances, else the rank of *)
(* its distance.  A duration is known by the factor applied to it, in      *)
(* hundredths.                                                             *)
(***************************************************************************)
EXTENDS Integers, Sequences, FiniteSets, FiniteSetsExt

CONSTANTS Stops,       \* stop indexes
          Links,       \* NYC DOT link ids, in their order
          Places,      \* usable points of a record
          NoPoints,    \* points that cannot be used
          Roads,       \* what OSRM may say of an edge: [near, mph]
          Readings,    \* what a link may publish: [speed, dated, points]
          OptionSets,  \* MatchOptions, DOTClient and TrafficOptions together
          MatchLimit,  \* records of the matching window
          MaxRecords,  \* bound: records published
          MaxByHand,   \* bound: links put in by hand
          MaxRounds    \* bound: matrices built from one edge file

(* Distances, speeds and lengths are not negative, a speed of 0 stands for *)
(* one that is not usable; sizes and limits are positive by their defaults *)
(* and zero means no limit of links.                                       *)
ASSUME LinksAssumption == Links \subseteq Nat /\ IsFiniteSet(Links)
ASSUME PlacesAssumption == NoPoints \notin Places
ASSUME RoadsAssumption == Roads \subseteq [near : [Places -> Nat], mph : Nat]
ASSUME ReadingsAssumption ==
  Readings \subseteq [speed : Nat, dated : BOOLEAN, points : Places \cup {NoPoints}]
ASSUME OptionsAssumption ==
  /\ MatchLimit \in Nat \ {0}
  /\ OptionSets \subseteq [preserveExisting : BOOLEAN, chunkSize : Nat \ {0}, limitPerLink : Nat \ {0},
                          maxLinksPerEdge : Nat, default : Int, alpha : Int, min : Int, max : Int]

VARIABLES
  options,
  stage,       \* the step of the flow that comes next
  edges,       \* edge metadata so far: from and to -> road, matched links,
               \* and history: links put in by hand
  feed,        \* all records published
  todo,        \* links whose speeds are still to be fetched
  records,     \* records fetched in this round
  asked,       \* history: the chunk a link was fetched with, the length
               \* of the feed then
  multipliers, \* TrafficSnapshot.EdgeMultipliers, previous in the next round
  adjusted,    \* factor applied to each duration
  round

vars == <<options, stage, edges, feed, todo, records, asked, multipliers, adjusted, round>>

Edges == {e \in Stops \X Stops : e[1] # e[2]}
NoneKnown == [x \in {} |-> 0]
With(f, x, v) == [y \in DOMAIN f \cup {x} |-> IF y = x THEN v ELSE f[y]]
Before(d, e) == d[1] < e[1] \/ (d[1] = e[1] /\ d[2] < e[2])

Init ==
  /\ options \in OptionSets
  /\ stage = IF Edges = {} THEN "match" ELSE "edges"
  /\ round = 1
  /\ edges = NoneKnown /\ feed = <<>> /\ todo = {} /\ records = <<>>
  /\ asked = NoneKnown /\ multipliers = NoneKnown /\ adjusted = NoneKnown

Goto(next) == stage' = next

(* A failing call of OSRM or NYC DOT ends the build with its error. *)
Failing(stages) ==
  /\ stage \in stages
  /\ Goto("failed")
  /\ UNCHANGED <<options, edges, feed, todo, records, asked, multipliers, adjusted, round>>

FetchEdgeFails == Failing({"edges"})
QueryFails == Failing({"match"}) \/ (todo # {} /\ Failing({"speeds"}))

(* Another record of a link appears in the feed; what was published before *)
(* the first query may as well have been published just then.              *)
Publish(l) ==
  /\ Len(feed) < MaxRecords /\ stage \in {"match", "speeds"}
  /\ \E reading \in Readings :
       feed' = Append(feed, [link |-> l, at |-> IF reading.dated THEN Len(feed) + 1 ELSE 0,
                             speed |-> reading.speed, points |-> reading.points])
  /\ UNCHANGED <<options, stage, edges, todo, records, asked, multipliers, adjusted, round>>

parseEdge(road) == [near |-> road.near, mph |-> road.mph, links |-> {}, byHand |-> {}]

(* BuildEdgeMetadata asks OSRM for one pair after the other. *)
FetchEdge ==
  LET left == Edges \ DOMAIN edges IN
  /\ stage = "edges"
  /\ \E e \in left, road \in Roads :
       /\ \A d \in left \ {e} : Before(e, d)
       /\ edges' = With(edges, e, parseEdge(road))
       /\ Goto(IF left = {e} THEN "match" ELSE "edges")
  /\ UNCHANGED <<options, feed, todo, records, asked, multipliers, adjusted, round>>

(* The edge file is written and read back; meanwhile somebody may add a    *)
(* link to the matches of an edge, wherever that link lies.                *)
MatchByHand(e, l) ==
  /\ stage = "match" /\ l \notin edges[e].byHand
  /\ MapThenSumSet(LAMBDA d : Cardinality(edges[d].byHand), DOMAIN edges) < MaxByHand
  /\ edges' = [edges EXCEPT ![e].links = @ \cup {l}, ![e].byHand = @ \cup {l}]
  /\ UNCHANGED <<options, stage, feed, todo, records, asked, multipliers, adjusted, round>>

(* parseDOTTime knows the layout of the date. *)
Dated(r) == r.at # 0

(* A query orders by data_as_of DESC; where records with an unusable date  *)
(* come is up to the service.                                              *)
MayPrecede(r, s) == Dated(r) /\ Dated(s) => r.at > s.at

(* The replies to a query for records of some links: positions in the feed. *)
Replies(ids, limit) ==
  LET found == {i \in DOMAIN feed : feed[i].link \in ids}
      size == IF Cardinality(found) < limit THEN Cardinality(found) ELSE limit
  IN {reply \in [1..size -> found] :
        /\ \A p, q \in 1..size : p < q => reply[p] # reply[q] /\ MayPrecede(feed[reply[p]], feed[reply[q]])
        /\ \A i \in found : \/ \E p \in 1..size : reply[p] = i
                            \/ \A p \in 1..size : MayPrecede(feed[reply[p]], feed[i])}

Read(reply) == [p \in DOMAIN reply |-> feed[reply[p]]]

(* Wrong: whatever comes later in the reply replaces what came before. *)
isNewerAlways(candidate, existing) == TRUE

isNewerDOTRecord(candidate, existing) ==
  Dated(candidate) /\ (Dated(existing) => candidate.at > existing.at)

(* Of each link the record that was newer than all before it, and than     *)
(* which none after it was newer.                                          *)
latestDOTRecordsByLinkID(recs) ==
  LET Of(l) == {p \in DOMAIN recs : recs[p].link = l}
  IN [l \in {recs[p].link : p \in DOMAIN recs} |->
        recs[CHOOSE p \in Of(l) :
               \A q \in Of(l) : /\ q < p => isNewerDOTRecord(recs[p], recs[q])
                                /\ q > p => ~isNewerDOTRecord(recs[q], recs[p])]]

(* buildDOTLinkGeometries: where the latest record of each link puts it, if *)
(* its points are usable.                                                  *)
LinkGeometries(recs) ==
  LET latest == latestDOTRecordsByLinkID(recs)
  IN [l \in {k \in DOMAIN latest : latest[k].points # NoPoints} |-> latest[l].points]

(* linkDistanceToEdgeM keeps within both match distances. *)
Near(edge, points) == points \in Places /\ edge.near[points] > 0

(* The nearest links, at most MaxLinksPerEdge unless that is zero. *)
matchEdgeToDOTLinks(edge, points) ==
  LET near == {l \in DOMAIN points : Near(edge, points[l])}
      Distance(l) == edge.near[points[l]]
      Nearer(k, l) == Distance(k) < Distance(l) \/ (Distance(k) = Distance(l) /\ k < l)
      max == options.maxLinksPerEdge
  IN {l \in near : max > 0 => Cardinality({k \in near : Nearer(k, l)}) < max}

MatchedIDs(edge, points) ==
  matchEdgeToDOTLinks(edge, points) \cup IF options.preserveExisting THEN edge.links ELSE {}

uniqueMatchedDOTLinkIDs(es) == UNION {es[e].links : e \in DOMAIN es}

(* Links in one window of recent records (FetchRecentTrafficRecords) are   *)
(* matched to edges; then the speeds of all matched links are wanted.      *)
MatchDOTLinks ==
  /\ stage = "match"
  /\ \E window \in Replies(Links, MatchLimit) :
       LET points == LinkGeometries(Read(window)) IN
       edges' = [e \in DOMAIN edges |-> [edges[e] EXCEPT !.links = MatchedIDs(edges[e], points)]]
  /\ todo' = uniqueMatchedDOTLinkIDs(edges')
  /\ records' = <<>> /\ asked' = NoneKnown
  /\ Goto("speeds")
  /\ UNCHANGED <<options, feed, multipliers, adjusted, round>>

(* Chunks are cut from the sorted ids. *)
Smaller(l) == Cardinality({k \in todo : k < l})

Chunk == {l \in todo : Smaller(l) < options.chunkSize}

(* Wrong: the next chunk starts one too far. *)
RestSkipping == {l \in todo : Smaller(l) > options.chunkSize}

Rest == todo \ Chunk

(* fetchTrafficRecordChunk: one limit for the records of all its links. *)
FetchChunk ==
  /\ stage = "speeds" /\ todo # {}
  /\ \E reply \in Replies(Chunk, Cardinality(Chunk) * options.limitPerLink) :
       records' = records \o Read(reply)
  /\ asked' = [l \in DOMAIN asked \cup Chunk |->
                IF l \in Chunk THEN [chunk |-> Chunk, at |-> Len(feed)] ELSE asked[l]]
  /\ todo' = Rest
  /\ UNCHANGED <<options, stage, edges, feed, multipliers, adjusted, round>>

(* Matched links with a positive speed: what FetchEdgeState averages. *)
Speeding(edge, latest) == {l \in edge.links : l \in DOMAIN latest /\ latest[l].speed > 0}

currentMultiplier(edge, latest) ==
  LET heard == Speeding(edge, latest)
  IN (100 * edge.mph * Cardinality(heard)) \div MapThenSumSet(LAMBDA l : latest[l].speed, heard)

(* Wrong: the previous multiplier is that of the way back. *)
PreviousReversed(e) == <<e[2], e[1]>>

PreviousKey(e) == e

(* smoothedMultiplier *)
Smoothed(e, latest) ==
  LET current == currentMultiplier(edges[e], latest)
      key == PreviousKey(e)
  IN IF key \notin DOMAIN multipliers THEN current
     ELSE (options.alpha * current + (100 - options.alpha) * multipliers[key]) \div 100

(* BuildTrafficSnapshot: the edges FetchEdgeState has data for. *)
Snapshot(latest) ==
  [e \in {d \in DOMAIN edges : Speeding(edges[d], latest) # {}} |-> Smoothed(e, latest)]

clampMultiplier(m) ==
  IF m < options.min THEN options.min ELSE IF m > options.max THEN options.max ELSE m

applyTraffic(snapshot) ==
  [e \in Edges |-> clampMultiplier(IF e \in DOMAIN snapshot THEN snapshot[e] ELSE options.default)]

validateApplyOptions(o) ==
  o.default > 0 /\ o.alpha \in 1..100 /\ o.min > 0 /\ o.max >= o.min

(* An edge with matches but without a length or duration fails the build.  *)
Usable == \A e \in DOMAIN edges : edges[e].links # {} => edges[e].mph > 0

ApplyEdgeTraffic ==
  LET snapshot == Snapshot(latestDOTRecordsByLinkID(records)) IN
  /\ stage = "speeds" /\ todo = {}
  /\ IF validateApplyOptions(options) /\ Usable
     THEN multipliers' = snapshot /\ adjusted' = applyTraffic(snapshot) /\ Goto("done")
     ELSE Goto("failed") /\ UNCHANGED <<multipliers, adjusted>>
  /\ UNCHANGED <<options, edges, feed, todo, records, asked, round>>

(* The edge file is read again and goes through another round; its matches *)
(* and the multipliers of the last snapshot are handed on.                 *)
NextRound ==
  /\ stage \in {"done", "failed"} /\ DOMAIN edges = Edges /\ round < MaxRounds
  /\ Goto("match") /\ round' = round + 1
  /\ UNCHANGED <<options, edges, feed, todo, records, asked, multipliers, adjusted>>

Next == \/ FetchEdgeFails \/ QueryFails \/ FetchEdge \/ MatchDOTLinks \/ FetchChunk \/ ApplyEdgeTraffic \/ NextRound
        \/ \E l \in Links : Publish(l) \/ \E e \in DOMAIN edges : MatchByHand(e, l)

Spec == Init /\ [][Next]_vars

----------------------------------------------------------------------------
(* The records of a link's chunk are as many as its common query may give. *)
ReplyFull(l) ==
  Cardinality({p \in DOMAIN records : records[p].link \in asked[l].chunk})
    >= Cardinality(asked[l].chunk) * options.limitPerLink

(* match_test.go:121 and dot_test.go:98: whatever order replies have and   *)
(* whatever was published meanwhile, a link speaks with the newest dated   *)
(* record it had when its chunk was fetched, unless the reply was full and *)
(* held only undated ones of that link.                                    *)
NewestReadingUsed ==
  stage = "done" =>
    LET latest == latestDOTRecordsByLinkID(records) IN
    \A l \in DOMAIN latest : \A i \in 1..asked[l].at :
      feed[i].link = l =>
        \/ feed[i].at <= latest[l].at
        \/ ~Dated(latest[l]) /\ ReplyFull(l)

(* fetchTrafficRecordChunk: a matched link that had a record is not heard  *)
(* only when the other links of its own chunk filled the common limit of   *)
(* that chunk; alone in its chunk it always is.                            *)
SilentOnlyWhenCrowdedOut ==
  stage = "done" =>
    \A l \in uniqueMatchedDOTLinkIDs(edges) :
      \/ \E p \in DOMAIN records : records[p].link = l
      \/ l \in DOMAIN asked /\ \A i \in 1..asked[l].at : feed[i].link # l
      \/ l \in DOMAIN asked /\ options.chunkSize > 1 /\ ReplyFull(l)

(* The links that may slow an edge: those put in by hand, near it or not,  *)
(* and those of which some record gave points near it.                     *)
Own(e, l) ==
  \/ l \in edges[e].byHand
  \/ \E i \in DOMAIN feed : feed[i].link = l /\ Near(edges[e], feed[i].points)

(* Speeds that such links have ever published, and their factors. *)
Heard(e) == {feed[i].speed : i \in {j \in DOMAIN feed : Own(e, feed[j].link)}} \ {0}
Factor(e, mph) == (100 * edges[e].mph) \div mph

(* match_test.go:88 and :121: whatever is matched by hand, whatever points *)
(* records give and however matches change, no edge is slowed by a link    *)
(* that is neither its own by hand nor was ever near it: over all rounds   *)
(* of smoothing its factor is the default or lies between the factors of   *)
(* the lowest and the highest speed its own links ever published.          *)
AdjustedByOwnLinks ==
  stage = "done" =>
    \A e \in Edges :
      \/ adjusted[e] = clampMultiplier(options.default)
      \/ \E low, high \in Heard(e) :
           adjusted[e] \in clampMultiplier(Factor(e, high))..clampMultiplier(Factor(e, low))
============================================================================
