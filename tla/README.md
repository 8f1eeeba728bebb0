# Verification of route-optimizer-go

TLA+ modules of the route optimizer, the TLC runs that check them on small
instances, and TLAPS proofs of what should hold for every instance. The
reference is the code; where a document says something else, a run that is
expected to fail shows the difference. `PROJECT.json` lists components, runs,
the source lines behind every definition, hazards and theorems.

Run TLC with `tlc -config <run>.cfg MC<module>.tla`, and the proofs with
`tlapm <module>Proofs.tla`.

## The system

One Go program in two guises (HTTP server, command line) plus a page served by
the server. A request names addresses or places and gets the *k* shortest round
trips.

```
 app.js  --/v1/geocode-->  v1.geocode --+
   |                                    |      +-> file store (JSON, rename)
   +-----/v1/optimize-->  v1.optimize   |      |
                            |           v      |
 route-cli ---------->  planner.Service -> geocode.Cached -> RateLimited -> Nominatim
                            |        \---> matrix.Cached  -> RateLimited -> OSRM
                            +-> optimizer.Solver -> maps.Google
```

| Part (source) | State | Operations | Hard because of | What makes it correct |
|---|---|---|---|---|
| Geocode cache (`geocode/cached.go`) | map of flights under a mutex, one entry file per key | `Geocode`, `beginCall`, `loadOrFetch`, `finishCall` | leaders and followers interleave, contexts end at any step, provider and disk fail, entries expire, other processes save and delete | one provider call per key, no stranded follower, cancellation stays private, expired entries cover outages |
| Matrix cache (`matrix/cached.go`) | the same | `Durations`, ... | the same, without the follower's retry | one outcome per flight, outages covered while the leader stays |
| Rate limiters (`*/rate_limited.go`) | `requestMu`, `next` | `Wait`, `Geocode`/`Durations` | queueing under an uninterruptible lock, abandoned slots, late goroutines | serialized calls, spaced slots, bounded sleep |
| Solver (`optimizer/solver.go`) | a permutation changed in place, a heap of at most *k* routes | `Solve` | undoing swaps, heap at its limit, ties | the result is the ranking of all tours |
| Atomic files (`storage/json.go`) | temporary file, file at path | `WriteJSON`, `ReadJSON` | failing calls, kills, power loss, two processes | readers see a whole file or none |
| Planner and checks (`planner/service.go`, `v1/optimize.go`, `config/config.go`) | none between requests | `Optimize`, five places that compare sizes with limits | the checks must fit each other | nothing is fetched for a request that is refused |
| Web page (`frontend/app.js`) | rows, routes, busy, limits, disabled inputs | edits, resolve, calculate, limits | replies arrive after further events | parts of a row agree, routes belong to the rows |
| Server process (`cmd/route-server/main.go`) | channels of errors and signals | `runHTTPServer` | signal, failing listener, deadline | exit status is truthful, a signal ends the process |
| Geocode endpoint (`v1/geocode.go`) | the results so far | a batch of lookups under one client's context | the client leaves, the batch goes on, others take turns at the provider, the connection has a deadline | one result per row, at its place; a batch is late only behind others or when its own turns do not fit |
| Clients (`nominatim.go`, `osrm.go`) | none | one HTTP request each | timeouts, odd replies | a reply is valid or an error |
| Command line (`cli/cli.go`) | files of stops, matrix and plan | `all`, `geocode`, `matrix`, `optimize`, `itinerary` | three files written one by one by commands that fail or are killed | files of one run belong together |
| Links, routing, replies, wiring (`maps`, `httpapi`, `app`) | none | formatting and tables | nothing | |
| Traffic experiment (`deprecated/traffic`) | edge file, multipliers of the round before | match links to edges, fetch recent speeds in chunks, adjust a matrix | an append-only feed that grows between queries and may move a link, matches made by hand, limits on replies, smoothing over rounds | the newest record of a link counts, an edge is slowed by its own links only |

Shared state: the flight maps and limiters are shared by all requests of a
process; the cache directory by all processes. Everything else belongs to one
request or one page.

## Modules

**GeocodeCached** follows `Cached.Geocode` of the geocoder. `pc[r]` says where
call `r` is: `begin` (at `beginCall`), `load`, `fetch`, `save` (in
`loadOrFetch`), `finish` (before `finishCall`), `wait` (in a follower's
select), `done`. One action is one critical section, one file operation or one
provider call, because between these other goroutines can run. `inFlight` is
the map, `flight` holds the fields `finishCall` publishes; a flight is named by
its leader, as a call leads at most once. A location is the number of the
provider's answer for its key, so that old and new answers can be told apart.
`Cancel` ends a caller's context, `Expire` lets an entry grow old; both may
happen at any step. The cache directory belongs to several processes
(`cache/geocode.go:36`): at any step another one may be answered
(`AnsweredElsewhere`) and later, whatever happened in between, save that answer
(`SavedElsewhere`), and an entry may be deleted (`Deleted`). `elsewhere` remembers
which answers were given to others, so that what this process did can be told apart.
The last part of the module holds the inductive invariant
`IInv` and the mapping to **CachedLookup**, the service callers rely on: the
provider is asked for a key at most once at a time, and each request is answered
once, with an answer the provider gave for its own key or with a failure it may be
given. Its constant `Shared` says whether a request may also be told that the
cancellation of another one for its key was its own.

**MatrixCached** is the same for `matrix.Cached`, whose followers take over
whatever the leader ended with: it is CachedLookup with `Shared`. A matrix the store
refuses is a failed write.

**RateLimited** covers both limiters. The matrix limiter consults the context
before it reserves and answers single stops without the provider: `checksFirst`
holds for it from the start, and never for the geocode limiter. Time is a counter that any goroutine may sleep through.

**TopK** is the heap alone: routes under a strict order are offered in any
order and the best `limit` are kept. **Solver** is `Solve` with its recursion as
`position` and `index`, the swaps on `order`, the heap and the extraction of the
result; it implements `TopK` and may offer only the tour it has just reached.

**FileStore** is `WriteJSON`, one action per system call. `versions` are the
files the path has named since the last power loss: the directory is never
flushed, so any of them may come back.

**Planner** is one request from its entry point to its reply. Stops and limits
are counts; a matrix is known by its rows, or unusable; a link can be built for a
path or not. **Commands** extends it with `route-cli`: a command is a process
that reads the configuration and the files the commands before it left, may go
through the planner, and then has `pending` files to write. It may be refused,
fail at any write (`WriteFails`) or be killed (`Kill`); by what FileStore shows, a
file is then either the old or the new one. Files carry the number of the run that
looked their stops up, which is how a mixture is recognised. `Unusable` matrices and
hand-made files of any size are among what `optimize` may find.

**Frontend** is the page. A handler is one action, because scripts run to
completion; a handler with a `fetch` is two, start and reply or failure. The two
coordinate fields of a row are one value. A stop is sent under the name of
`effectiveStopName`, whose first choice is the row's label; typing a label changes the
name and leaves the routes on the page. While a calculation is under way rows may be
edited too: `touched` remembers which. `frozen` is whether the row inputs were last
drawn disabled, which is not the same as `state.busy`. Messages, focus and drawing
are left out.

**ServerLifecycle** is `runHTTPServer` with its goroutine; `net/http` is
modelled by what it documents of `ListenAndServe`, `Shutdown` and `Close`.
**Server** composes it with the handlers of `/v1/geocode`: batches arrive while the
process serves, look their rows up one after the other while their clients may
leave, and write a reply if the deadline of the connection has not passed. A
lookup is what CachedLookup promises. `elapsed` is the time since a batch's header was
read: what its body took, up to `ReadTimeout`, and the turns at the provider, which
the limiter gives to one call at a time, so that a turn of one batch is waiting time of
all. Nothing relates `MaxStops` or `TurnTime` (interval plus `geocode_timeout_sec`) to
`WriteTimeout`: `config.Validate` accepts any of the first two and the last is a
constant of 90 seconds, so a batch can be late all by itself, and the property says when.

**Traffic** is `deprecated/traffic`, which nothing calls but which is kept with its
tests: edge metadata, matching, chunked queries of a feed that grows meanwhile,
snapshot, smoothing and the adjusted matrix, over several rounds from one edge file.
A record puts its link at a place, and how near a place lies to an edge is an input (0
for beyond the match distances); the next record may put the link elsewhere. Somebody may
add a link to an edge of the file (`MatchByHand`), which `PreserveExisting` keeps. The
feed's order is the order of publication, and factors are hundredths.

Operators whose comment begins with "Wrong" are not part of a model. Each is a
plausible mistake in the definition below it; put in its place, it must break
the property named beside it in `PROJECT.json`.

## Runs

| Run | Instance | Shows |
|---|---|---|
| `geocode_cached` | 3 calls, one of them cancelable, 1 key, 1 answer to another process | types, one provider call at a time, no stranded follower, private cancellation, outages covered, nothing fetched that this process saved and is fresh; what is saved is the newest answer of this process; calls return; implements CachedLookup |
| `matrix_cached` | the same | nothing fetched that this process saved and is fresh, one outcome per flight, outages covered while the leader stays; calls return; implements CachedLookup with shared cancellation, so one provider call at a time |
| `matrix_cached_inherit` | 2 calls, 1 key | expected to fail: see findings |
| `rate_limited` | 3 calls, interval 2, either limiter | serialized calls, spaced slots, bounded rate in any stretch of time, bounded sleep; calls get out of the limiter |
| `rate_limited_bunched` | 2 calls | expected to fail: see findings |
| `solver` | 4 stops, legs 1 or 2, k of 1, 2, 4, 7; bad requests | the result is the ranking of all tours; implements TopK |
| `file_store` | 2 processes, 2 saves each, 1 power loss | never torn, never vanishing, truthful results |
| `commands` | limits and counts up to 3; any HTTP request, or any 3 commands on files of any size | no fetch in vain, files of different runs meet only after an interruption, a successful `all` leaves one run |
| `frontend` | up to 3 rows, an address and a blank, a label, 2 places, tighter server | rows coherent, routes are for the places and names of the rows they were asked for, requests fit the server's limits |
| `frontend_frozen` | as `frontend` | expected to fail: see findings |
| `server` | 2 batches of up to 3 rows, at most 2 allowed | types, success means answered, one result per row at its place, late only behind others or beyond its own time; a signal stops |
| `traffic` | 2 stops, 2 links, 2 places, 3 records, 1 match by hand, 2 rounds | the newest record counts, a link is silent only when its chunk's reply is full, an edge is adjusted by its own links |

### Why the bounds are enough

- *Caches.* Three calls give a leader, a follower and a third that comes before,
  between or after them (a retry after a canceled leader, a new leader while a
  follower still reads the old flight). All three ask for one key, the case in
  which they meet at all: calls of different keys share only the map, and that
  their entries in it do not mix is what the proofs cover for any set of keys. A
  call asks once, so its counts are finite without a bound. `Cancelable` lets one
  context end, of a leader or of a follower as the order of the calls has it; one answer
  to another process (`MaxElsewhere`) can be saved again and again, before or after any
  save or deletion. The safety proofs have neither bound: they hold for any
  `Cancelable`, all calls included, and any number of answers elsewhere.
- *Limiter.* Three calls are one provider call, one sleeper and one in the queue
  behind it, which may leave in a row. `MaxTime` (4, two intervals) stops an idle
  clock; it does not stop anybody's sleep. `RateBounded` and `SleepBounded`
  are counted in the calls and departures, so they scale with the instance.
- *Solver.* Four stops have six tours through three depths of swapping; legs of
  one or two give every pattern of ties that symmetric and asymmetric
  matrices of that size can. *k* below, at and above six.
- *Files.* Two saves of one process show a failed one after a good one; two
  processes show replacement in between. A second power loss meets only states
  of the first.
- *Planner and commands.* Every check compares two numbers; up to three, each of
  them lies below, at and above each other. A mixture of files takes a run that
  succeeds, one that is interrupted and one that reads: three commands.
- *Server.* Two batches are one that waits and one it waits for; a batch of three
  rows exceeds the limit of two. One row after a slow body just fits in the deadline of
  two turns, two rows do not: both kinds of lateness happen.
- *Traffic.* Three records are two of one link, in either order or undated, and one
  of another link; two of one link can move it from one place to the other. The second
  round is the first that smooths, and the first in which a match by hand (`MaxByHand`, 1)
  meets matches of the round before. Chunks of one and two links and reply limits of one
  and two per link let a link be crowded out.
- *Page.* Two rows are the least the page allows; handlers work on one row or
  on all alike. The third, which the page allows until it knows the server's
  limits, is the one too many. One label typed (`MaxLabeled`) and one row edited during
  a calculation (`MaxTouched`) are enough to make a row differ from what was sent;
  `Counts` is what may be typed as the number of routes.

Symmetry reduces the places of the page. `CHECK_DEADLOCK` is off where a finite set of calls has all been answered, a
solver or request is done, or a process has exited. It is on for files and page,
which never stop.

### Fairness

- *Caches*: weak fairness of each call's own steps. Goroutines that can run are
  scheduled; a provider call ends because its `http.Client` has a timeout; a
  follower's wait is enabled only when its flight or context is done. Nothing is
  assumed of callers, of expiry or of the provider succeeding.
- *Limiter*: the same, plus a clock that advances. The order in which waiters
  get `requestMu` is left open; every call leaves the lock for good, so weak
  fairness suffices.
- *Server*: the two goroutines of the process run, and the context of `Shutdown`
  has a deadline. Handlers need not return.

## Proofs

Thirty-eight theorems, for every value of the constants; those that state a
property of a run are `Spec => []Property` (or `Spec => Property` for action
properties and the refinements). Each follows from one inductive invariant per
module, which TLC has evaluated on the instances above before it was proved. Its
step lemma has one case per action.

**GeocodeCachedProofs**, from `NoneAssumption` (`None` is no call and no key).
`IInv` adds to `TypeOK` what connects the calls: a call at work holds its key in
the map and a key in the map has its leader at work, so two calls of one key
cannot both fetch; a waiter's flight has its key and is published or in the map; a
published flight's leader has returned, and its outcome says "canceled" only with
`leaderCanceled` set; a leader answers "failed" only without a readable entry or
with its own context ended. From it: `TypeOK`, `SingleProviderCall`,
`NoStrandedFollower`, `CancellationIsPrivate`, `ExpiredEntryCoversOutage`.
`GivenInv` extends it by where answers come from: nothing is on disk or in a call's
hands that the provider has not given for its key, to this process or another, and a
leader about to save holds the latest answer given to this one. From it:
`NoRedundantFetch`, `SavesNewestAnswer`, and `ImplementsLookup`. That a fresh entry
under a fetch comes from another process is all that can be said of a shared directory:
between processes fetches may be doubled and entries go back to an older answer,
README.md:247 speaks of one process only. In that refinement entering and leaving the provider are
`CallProvider` and `ProviderReturns`, a return from `Geocode` is `Reply` or
`Refuse`, arrivals and ends of contexts are `Ask` and `End`, and every other step is
invisible. The work is to show that what a call returns is permitted: given for its
own key, which `GivenInv` says of a flight from the moment it is published.

**MatrixCachedProofs**, same assumption. `MInv` has the leaders and joined flights
of the geocode cache, and `Outcomes`: a published flight has its leader's answer,
and whoever stayed returns that. From it: `SingleProviderCall`,
`FlightHasOneOutcome`, `OutageCoveredUnlessLeaderGone`, `NoRedundantFetch`.
`GivenInv` adds what a flight may end with (`Outcome`): a matrix given for its key, a
failure, or "canceled" if its key is `Deserted`, which is to say that somebody who
asked for it is gone. A leader hears "canceled" only when it is gone itself, nobody
who is gone comes back (`DesertedLasts`), and a follower waits for its own key; so
what it takes over is permitted, and `ImplementsLookup` follows. That `Shared` is
needed is finding 1.

**RateLimitedProofs**, for any positive interval and both limiters. `RInv` says
that a call between `Lock` and `Unlock` is the holder and that every slot ends
before `next`: `TypeOK`, `CallsSerialized`, `SlotsSpaced`. `QueueInv` relates
`next` to the clock: it is one interval ahead at most, and one more for every slot
that was reserved and left; the waiter's slot is the last one; nobody begins before
its slot. `SleepBounded` is part of it. `OrderInv` says that nobody reserves while a
request is on its way to its call, so a slot reserved after a call began does not lie
before it. `RateBounded` follows: of the calls begun since *t*, those with slots since
*t* fall in different intervals of the clock (an injection into
`0..(now - t) \div Interval`), and only the last one with an earlier slot can be as late.

**SolverProofs**, from `SolverLimits` and `InputsAssumption`, which says what
`validate` checks of a matrix it accepts: its size, and no leg is negative.
`routeBetter` is shown to be a strict total order on the tours of an input
(`PathsCompare` takes the first position at which two paths differ), so the heap
always has one root. `SolverInv` has three parts. `PhaseInv` says what each phase
leaves behind. `RecursionInv` is about the swapping in place: there is one order for
every active call of `visit`, each the exchange of its caller's, and the tours
offered so far are exactly those below a turn some active loop has finished. From it follow
that a tour is reached once (`ToursAreFresh`), that `Back` restores what `Descend`
exchanged, and that a loop that has ended has offered every tour with its prefix
(`LoopIsComplete`, because the exchanges bring every remaining stop to the front).
`HeapInv` says that the routes held, in the heap or already popped, are the best of
those offered, and that the popped ones are in order and worse than those still in
the heap. From it: `ResultIsRanking`, `ImplementsTopK` (`Visit` is `Offer`, all
other steps are invisible), and with it `KeepsTheBest` and TopK's specification. That
a duration is a natural number is shown of the recursive function `Travelled` by the
least number at which it would fail (`LeastNumber`), since the induction theorems of the library
cannot be instantiated.

**CommandsProofs**, from `MostAssumption` and `MaxCommandsAssumption`.
`PlannerInv` carries what the request check has established (stops and `top_k`
within the limits of a configuration the server accepted) up to the solver: the
matrix has as many rows as there are stops or is unusable, so the solver can find
fault with nothing else, and a tour it returns always has directions
(`ToursHaveDirections`). From it: `NothingFetchedInVain`.
`CommandsInv` adds which files a command has written and which are pending, and
that stops and matrix of two runs lie together only with loose stops or in the
middle of a run of `all`; `ToursCounted` (finitely many tours, at least one) is why
a successful plan is not empty. From it: `MixOnlyAfterInterruption`,
`AllLeavesOneRun`. The module also proves FileStore, on which the atomic writes of
Commands rest, from `AbsentAssumption` (`Absent` is no file). `FInv`: every version
the path has named is whole and flushed; so is the temporary file of a process at
`rename`; versions come from saves that were begun and are not under way, by which a
returned result can be compared with `versions`. From it: `NeverTorn`,
`ResultIsTruthful`, and the action property `NeverVanishes`.

**ServerProofs**, from `BodiesAssumption` (what a body is) and
`LimitsAssumption` (limits and times are natural numbers, in no relation to each
other). `SInv`: `ShutdownInv` follows `main` through the shutdown, so that a result
`nil` is returned only where no handler was at work, and none begins after it;
`RowsInv` compares a batch's results with its rows so far; `TimeInv` says that a batch
that is alone has waited for its body and one turn for each of its rows at most. From
it: `ServerTypeOK`, `SuccessMeansAnswered`, `EveryRowReported`, `LateOnlyBehindOthers`.

**FrontendProofs**, from `PageAssumption` (the limits are natural numbers of a
server that accepts its own configuration, the demo has two stops, the markers of
empty fields are no places). `FInv` strengthens `RowsCoherent` by a place being
remembered only for the address that gave it, and says what an outstanding
request will mean for the page: the reply to an optimization is for the rows in the
list, one for one, except those touched since, and under the labels they had
(`OfRows`). From it: `RowsCoherent`,
`RoutesMatchRows`, `RequestsWithinLimits`. The proof found `loadDemo` ill-defined
for limits above the length of the demo, where `slice` of the code takes what
there is; the module now says that.

**TrafficProofs**, from `LinksAssumption`, `PlacesAssumption`, `RoadsAssumption`,
`ReadingsAssumption` and `OptionsAssumption` (what links, points, edges, feed and options
are). `TrafficInv` has three parts besides the property it ends in. `FlowInv`: the feed
holds records of the links, and edges are matched to their own links only, those put in
by hand and those some record put near them (`Own`, which only grows). `FetchInv`, for
every link already asked for, with the chunk it was asked with: a dated record is
represented by one at least as new, or the reply to that chunk was full (`Covered`); the
link is heard, had no record, or others of its chunk filled the reply (`HeardOf`).
`MultipliersInv`: a multiplier lies between two factors of speeds which the edge's own
links have published. Averaging keeps it there (`AverageBetween`, by
`SpeedsAddUp`), so does smoothing (`MixBetween`), and a feed that grows only widens
the range. From it: `NewestReadingUsed`, `SilentOnlyWhenCrowdedOut`,
`AdjustedByOwnLinks`. The proof found `NewestReadingUsed` as first stated false beyond
the run's bounds: it excused a lost record by the undated ones of its link, where
what crowds it out is a reply that is full.

*Model-checked only.* Liveness (calls return, a signal ends the process), which is
out of the prover's reach.

## Findings

1. *Matrix followers inherit cancellation* (`matrix/cached.go:54`,
   `matrix_cached_inherit`). A live request that joined a flight gets the
   leader's "context canceled". The geocoder retries in this case, and README.md
   gives both the same cache behavior.
2. *Calls closer than an interval* (`geocode/rate_limited.go:80`,
   `rate_limited_bunched`). Reserved starts are spaced, calls are not: a late
   goroutine calls just before a punctual one. `RateBounded` is what holds.
3. *Rows stay disabled* (`frontend/app.js:646`, `frontend_frozen`). Changing a
   row's mode while routes are calculated draws all rows disabled, and the end of
   the calculation does not draw them again.

Met while modelling, without a run: a stop whose looked-up coordinates were edited
keeps the provider's name (`frontend/app.js:126`), although README.md:238 names such
stops by label or number; a label typed after the calculation (`app.js:259`) leaves routes
under the old name on the page; a full batch of a server configured with more stops or
longer lookups than the fixed 90 seconds allow is cut off without a reply
(`main.go:27`); a `null` in OSRM's table becomes a leg of zero seconds
(`matrix/osrm.go:101`), about which no document says anything.

## Plan

1. *Done*: the two caches, limiters, solver, files, page, planner checks, command
   line, server process with the geocode endpoint, traffic experiment; proofs of all
   safety properties, of both caches as implementations of CachedLookup, and of the
   solver as an implementation of TopK.
2. *Abstract specifications that could follow*: a register with saved versions that
   FileStore implements; turns at a provider, which Server takes from RateLimited as
   facts about time and not as a refinement.

## Not modelled

- *HTTP routing, health and limits replies, wiring of providers* (`httpapi`,
  `app/providers.go`): fixed tables, constant replies and constructor calls without
  state. That the cache is asked before the limiter and the limiter before the client
  is what GeocodeCached and RateLimited take their provider to be.
- *Clients* (`nominatim.go`, `osrm.go`) beyond their outcomes: the exchange is I/O.
- *Content of cache entries*: how keys are made, schema number and value checks. A
  refused entry is one that cannot be read, a refused value a save that fails.
- *Two route-cli commands at once on the same files*: each file is covered by
  FileStore, their combination is not.
- *Flags, help, printing, links' text, markup, styles, and geometry of the traffic
  experiment*: formatting and arithmetic without a property that needs them.
