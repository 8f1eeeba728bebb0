--------------------------- MODULE CommandsProofs ---------------------------
(***************************************************************************)
(* Proofs about Planner and Commands for any bounds, and about FileStore,  *)
(* the replacing of each file the commands write.                          *)
(*                                                                         *)
(* HttpInv says what is known of an HTTP request at each stage on its way, *)
(* up to the solver, which can find fault with nothing but the values of   *)
(* the matrix.  Commands of the CLI leave it alone: they keep the          *)
(* planner's state or make it one of another entry.                        *)
(*                                                                         *)
(* CommandsInv says what each command knows of the files while it plans    *)
(* and writes: MixOnlyAfterInterruption and AllLeavesOneRun need the files *)
(* that are not the plan (FilesInv), and those what the command has        *)
(* replaced so far (CommandAt).                                            *)
(***************************************************************************)
EXTENDS Commands, FileStore, FiniteSetTheorems, TLAPS

Accepted ==
  /\ LimitsValidate(config)
  /\ input.count \in 2..config.maxStops /\ input.topK \in 0..config.maxTopK

HttpInv ==
  entry = "http" =>
    /\ LimitsValidate(config)
    /\ stage # "done" => outcome = "none"
    /\ stage \in {"handle", "resolve"} => ~fetched
    /\ stage \in {"resolve", "matrix", "solve", "directions"} => Accepted
    /\ stage \in {"matrix", "solve", "directions"} => stops = input.count
    /\ stage \in {"solve", "directions"} => matrix \in {stops, Unusable}
    /\ NothingFetchedInVain

PlannerInv ==
  /\ config \in Configs /\ input.topK \in Int
  /\ HttpInv

(* Google.DirectionsURL does not refuse a tour of the solver. *)
LEMMA ToursHaveDirections ==
  ASSUME NEW n \in Nat \ {0}, NEW path \in Tours(n) PROVE HasDirections(n, path)
<1>1. path \in [1..(n + 1) -> 0..(n - 1)]
  BY DEF Tours
<1>2. path \in Seq(0..(n - 1)) /\ Len(path) = n + 1
  BY <1>1
<1> QED
  BY <1>1, <1>2 DEF HasDirections

(* A step of the planner keeps what is known of the request. *)
LEMMA StepsKeepPlannerInv == PlannerInv /\ Steps => PlannerInv'
<1> SUFFICES ASSUME PlannerInv, Steps PROVE PlannerInv'
  OBVIOUS
<1> USE MostAssumption DEF PlannerInv, HttpInv, Accepted, LimitsValidate, Validate,
        NothingFetchedInVain, Return, Continue, Configs, Counts, Unusable
<1>1. CASE Handle
  BY <1>1 DEF Handle, validateOptimizeRequest
<1>2. CASE TakeStops
  BY <1>2 DEF TakeStops
<1>3. CASE Geocode
  BY <1>3 DEF Geocode
<1>4. CASE TakeMatrix
  BY <1>4 DEF TakeMatrix
<1>5. CASE Durations
  BY <1>5 DEF Durations
<1>6. CASE Solve
  BY <1>6 DEF Solve, NewSolver, topK
<1>7. CASE Planned
  <2>1. entry = "http" => stops \in Nat \ {0}
    BY <1>7 DEF Planned
  <2>2. entry = "http" => outcome' = "ok"
    BY <1>7, <2>1, ToursHaveDirections DEF Planned
  <2> QED
    BY <1>7, <2>2 DEF Planned
<1> QED
  BY <1>1, <1>2, <1>3, <1>4, <1>5, <1>6, <1>7 DEF Steps

(* A command keeps it too, as it keeps the planner's state or replaces it. *)
LEMMA NextKeepsPlannerInv == PlannerInv /\ [Next]_<<vars, cliVars>> => PlannerInv'
<1> SUFFICES ASSUME PlannerInv, [Next]_<<vars, cliVars>> PROVE PlannerInv'
  OBVIOUS
<1>0. CASE UNCHANGED vars
  BY <1>0 DEF PlannerInv, HttpInv, Accepted, NothingFetchedInVain, vars
<1>1. ASSUME config' = config, entry' # "http", ~fetched', input'.topK \in Int
      PROVE PlannerInv'
  BY <1>1 DEF PlannerInv, HttpInv
<1>2. ASSUME config' = config, NoRequest PROVE PlannerInv'
  BY <1>1, <1>2 DEF NoRequest, Begin, NoInput, OptimizeRequest
<1>3. CASE PostRequest
  <2>1. PICK i \in Inputs : Post(i)
    BY <1>3 DEF PostRequest
  <2>2. i.topK \in Int
    <3>1. i.topK \in -1..Most
      BY ZenonT(30) DEF Inputs
    <3> QED
      BY <3>1, MostAssumption
  <2>3. /\ LimitsValidate(config) /\ config' = config
        /\ entry' = "http" /\ input' = i /\ stage' = "handle"
        /\ fetched' = FALSE /\ outcome' = "none"
    BY <2>1 DEF Post, Request, Begin
  <2> QED
    BY <2>2, <2>3 DEF PlannerInv, HttpInv, NothingFetchedInVain, LimitsValidate, Validate
<1>4. CASE runAll
  <2>1. PICK addresses \in ReadAddresses, k \in -1..Most :
          IF LoadFails \/ addresses < 1 THEN Exit("error")
          ELSE Plan(OptimizeRequest(addresses, k, 0))
    BY <1>4 DEF runAll
  <2>2. config' = config /\ command' = "all"
    BY <1>4 DEF runAll, Start
  <2> QED
    BY <2>1, <2>2, <1>1, <1>2, MostAssumption DEF Exit, Plan, Request, Begin, OptimizeRequest
<1>5. CASE runOptimize
  <2>1. PICK k \in -1..Most :
          IF LoadFails \/ files.stops = NoFile \/ files.matrix = NoFile THEN Exit("error")
          ELSE Plan(OptimizeRequest(files.stops.size, k, files.matrix.size))
    BY <1>5 DEF runOptimize
  <2>2. config' = config /\ command' = "optimize"
    BY <1>5 DEF runOptimize, Start
  <2> QED
    BY <2>1, <2>2, <1>1, <1>2, MostAssumption DEF Exit, Plan, Request, Begin, OptimizeRequest
<1>6. CASE runGeocode \/ runMatrix \/ runItinerary
  BY <1>6, <1>2 DEF runGeocode, runMatrix, runItinerary, Start, Exit
<1>7. CASE PlannerStep
  BY <1>7, StepsKeepPlannerInv DEF PlannerStep
<1>8. CASE Returned
  <2>1. UNCHANGED vars \/ (config' = config /\ NoRequest)
    BY <1>8 DEF Returned, Exit
  <2> QED
    BY <2>1, <1>0, <1>2
<1>9. CASE WriteNext
  BY <1>9, <1>0 DEF WriteNext
<1>10. CASE WriteFails \/ Kill
  BY <1>10, <1>2 DEF WriteFails, Kill, Interrupted, Exit
<1> QED
  BY <1>0, <1>3, <1>4, <1>5, <1>6, <1>7, <1>8, <1>9, <1>10 DEF Next, Run

LEMMA InitPlannerInv == Init => PlannerInv
  BY DEF Init, PlannerInit, NoInput, OptimizeRequest, PlannerInv, HttpInv

(* Whatever the configuration and the request, a server that has accepted  *)
(* its limits calls no provider for a request that is then refused for     *)
(* anything but what the provider answered.                                *)
THEOREM FetchingPaysOff == Spec => []NothingFetchedInVain
<1>1. PlannerInv => NothingFetchedInVain
  BY DEF PlannerInv, HttpInv, NothingFetchedInVain
<1> QED
  BY <1>1, InitPlannerInv, NextKeepsPlannerInv, PTL DEF Spec

----------------------------------------------------------------------------
(* What the solver has accepted, and the plan then made of it. *)
PlanReady ==
  /\ stops \in Nat \ {0} /\ matrix = stops /\ topK \in Nat \ {0}
  /\ entry = "all" => stops = input.count

ReadyInv ==
  /\ entry = "all" /\ stage \in {"matrix", "solve"} => stops = input.count
  /\ stage = "directions" => PlanReady
  /\ outcome = "ok" => stage = "done" /\ PlanReady

(* Where a command that plans or writes is.  A run of all has replaced the *)
(* first of its files, in their order, and none of the others.             *)
StopsOfRun == files.stops = [run |-> runs, size |-> stops]
MatrixOfRun == files.matrix = [run |-> runs, size |-> matrix]
AllOutputs ==
  <<Output("stops", [run |-> runs, size |-> stops]),
    Output("matrix", [run |-> runs, size |-> matrix]), PlanOf(runs, runs)>>
BothFiles == files.stops # NoFile /\ files.matrix # NoFile

AllWrites ==
  \/ pending = AllOutputs
  \/ pending = <<AllOutputs[2], AllOutputs[3]>> /\ StopsOfRun
  \/ pending = <<AllOutputs[3]>> /\ StopsOfRun /\ MatrixOfRun

CommandAt ==
  /\ runs \in Nat /\ (command # "none" => runs # 0)
  /\ files = [stops |-> files.stops, matrix |-> files.matrix, plan |-> files.plan]
  /\ exit = "planning" =>
       /\ command \in {"all", "optimize"} /\ entry = command
       /\ command = "optimize" => BothFiles
  /\ exit = "writing" =>
       \/ command = "all" /\ entry = "all" /\ outcome = "ok" /\ AllWrites
       \/ command = "optimize" /\ BothFiles
          /\ pending = <<PlanOf(files.stops.run, files.matrix.run)>>
       \/ command = "geocode" /\ runs \in loose
          /\ pending = <<Output("stops", [run |-> runs, size |-> pending[1].content.size])>>
       \/ command = "matrix"
          /\ pending = <<Output("matrix", [run |-> files.stops.run, size |-> pending[1].content.size])>>

(* Stops and matrix of two runs lie together only when the stops are       *)
(* loose, or when all is between the two.                                  *)
MixedFiles == BothFiles /\ files.stops.run # files.matrix.run
FilesInv ==
  MixedFiles => \/ files.stops.run \in loose
                \/ exit = "writing" /\ command = "all" /\ StopsOfRun

CommandsInv ==
  ReadyInv /\ CommandAt /\ FilesInv /\ MixOnlyAfterInterruption /\ AllLeavesOneRun

(* There is a tour of any number of stops, and there are finitely many. *)
LEMMA ToursCounted == ASSUME NEW n \in Nat \ {0} PROVE Cardinality(Tours(n)) \in Nat \ {0}
<1> DEFINE steps == (1..(n + 1)) \X (0..(n - 1))
           graph == [p \in Tours(n) |-> {<<i, p[i]>> : i \in 1..(n + 1)}]
           there == [i \in 1..(n + 1) |-> IF i = n + 1 THEN 0 ELSE i - 1]
<1>1. IsFiniteSet(SUBSET steps)
  <2>1. IsFiniteSet(1..(n + 1)) /\ IsFiniteSet(0..(n - 1))
    BY FS_Interval
  <2> QED
    BY <2>1, FS_Product, FS_SUBSET
<1>2. graph \in [Tours(n) -> SUBSET steps]
  BY DEF Tours
<1>3. ASSUME NEW p \in Tours(n), NEW q \in Tours(n), graph[p] = graph[q] PROVE p = q
  <2>1. p \in [1..(n + 1) -> 0..(n - 1)] /\ q \in [1..(n + 1) -> 0..(n - 1)]
    BY DEF Tours
  <2>2. ASSUME NEW i \in 1..(n + 1) PROVE p[i] = q[i]
    <3>1. <<i, p[i]>> \in {<<j, q[j]>> : j \in 1..(n + 1)}
      BY <1>3
    <3> QED
      BY <3>1
  <2> QED
    BY <2>1, <2>2
<1>4. IsFiniteSet(Tours(n))
  <2>1. graph \in Injection(Tours(n), SUBSET steps)
    <3> HIDE DEF steps
    <3>1. \A p, q \in Tours(n) : graph[p] = graph[q] => p = q
      BY <1>3
    <3>2. DOMAIN graph = Tours(n)
      OBVIOUS
    <3> HIDE DEF graph
    <3> QED
      BY <1>2, <3>1, <3>2 DEF Injection, IsInjective
  <2> HIDE DEF graph, steps
  <2> QED
    BY <1>1, <2>1, FS_Injection
<1>5. there \in Tours(n)
  BY DEF Tours
<1> QED
  BY <1>4, <1>5, FS_CardinalityType, FS_EmptySet

(* A step of the planner leads to a plan only through the solver's checks. *)
LEMMA StepsKeepReadyInv == PlannerInv /\ ReadyInv /\ Steps => ReadyInv' /\ UNCHANGED <<config, entry, input>>
<1> SUFFICES ASSUME PlannerInv, ReadyInv, Steps PROVE ReadyInv' /\ UNCHANGED <<config, entry, input>>
  OBVIOUS
<1> USE DEF ReadyInv, PlanReady, Return, Continue, topK
<1>1. CASE Handle
  BY <1>1 DEF Handle
<1>2. CASE TakeStops
  BY <1>2 DEF TakeStops
<1>3. CASE Geocode
  BY <1>3 DEF Geocode
<1>4. CASE TakeMatrix
  BY <1>4 DEF TakeMatrix
<1>5. CASE Durations
  BY <1>5 DEF Durations
<1>6. CASE Solve
  <2>1. config.maxStops \in Nat /\ config.maxTopK \in Nat
    BY MostAssumption DEF PlannerInv, Configs, Counts
  <2> QED
    BY <1>6, <2>1 DEF Solve, NewSolver
<1>7. CASE Planned
  BY <1>7 DEF Planned
<1> QED
  BY <1>1, <1>2, <1>3, <1>4, <1>5, <1>6, <1>7 DEF Steps

(* Nothing is known of what is only beginning. *)
LEMMA BeginKeepsReadyInv ==
  ASSUME NEW e, NEW i, NoRequest \/ Request(e, i) PROVE ReadyInv'
  BY DEF NoRequest, Request, Begin, ReadyInv

LEMMA FileReplaced ==
  ASSUME NEW content, NEW name \in {"stops", "matrix", "plan"},
         files = [stops |-> files.stops, matrix |-> files.matrix, plan |-> files.plan],
         files' = [files EXCEPT ![name] = content]
  PROVE  /\ files' = [stops |-> files'.stops, matrix |-> files'.matrix, plan |-> files'.plan]
         /\ files'.stops = IF name = "stops" THEN content ELSE files.stops
         /\ files'.matrix = IF name = "matrix" THEN content ELSE files.matrix
         /\ files'.plan = IF name = "plan" THEN content ELSE files.plan
<1>1. CASE name = "stops"
  BY <1>1
<1>2. CASE name = "matrix"
  BY <1>2
<1>3. CASE name = "plan"
  BY <1>3
<1> QED
  BY <1>1, <1>2, <1>3

(* The first of the files still to write is replaced.  *)
LEMMA OneWritten ==
  ASSUME CommandAt, WriteNext, NEW content, NEW name \in {"stops", "matrix", "plan"},
         Head(pending) = Output(name, content)
  PROVE  /\ files' = [stops |-> files'.stops, matrix |-> files'.matrix, plan |-> files'.plan]
         /\ files'.stops = IF name = "stops" THEN content ELSE files.stops
         /\ files'.matrix = IF name = "matrix" THEN content ELSE files.matrix
         /\ files'.plan = IF name = "plan" THEN content ELSE files.plan
<1>1. files' = [files EXCEPT ![name] = content]
  <2>1. Head(pending).name = name /\ Head(pending).content = content
    BY DEF Output
  <2>2. files' = [files EXCEPT ![Head(pending).name] = Head(pending).content]
    BY DEF WriteNext
  <2> QED
    BY <2>1, <2>2
<1>2. files = [stops |-> files.stops, matrix |-> files.matrix, plan |-> files.plan]
  BY DEF CommandAt
<1> QED
  BY <1>1, <1>2, FileReplaced

(* A command that begins finds the files settled: whatever is mixed is     *)
(* loose.                                                                  *)
LEMMA StartKeeps ==
  ASSUME CommandsInv, NEW c \in {"all", "optimize", "geocode", "matrix", "itinerary"}, Start(c),
         loose \subseteq loose'
  PROVE  /\ files' = files /\ command' = c /\ runs' \in Nat /\ runs' # 0
         /\ files' = [stops |-> files'.stops, matrix |-> files'.matrix, plan |-> files'.plan]
         /\ FilesInv' /\ MixOnlyAfterInterruption'
<1>1. /\ exit # "writing" /\ files' = files /\ command' = c /\ runs' = runs + 1
  BY DEF Start
<1>2. /\ runs \in Nat
      /\ files = [stops |-> files.stops, matrix |-> files.matrix, plan |-> files.plan]
  BY DEF CommandsInv, CommandAt
<1>3. FilesInv'
  BY <1>1 DEF CommandsInv, FilesInv, MixedFiles, BothFiles
<1>4. MixOnlyAfterInterruption'
  BY <1>1 DEF CommandsInv, MixOnlyAfterInterruption
<1> QED
  BY <1>1, <1>2, <1>3, <1>4

(* Whatever is being written when a command ends for an error or is killed *)
(* is loose from then on.                                                  *)
LEMMA InterruptedKeeps ==
  ASSUME CommandsInv, NEW how \in {"error", "killed"}, Interrupted(how) PROVE CommandsInv'
<1>1. /\ exit' = how /\ NoRequest /\ UNCHANGED <<command, runs, files>>
      /\ loose \subseteq loose' /\ (exit = "writing" => runs \in loose')
  BY DEF Interrupted, Exit
<1>2. ReadyInv'
  BY <1>1, BeginKeepsReadyInv
<1>3. CommandAt'
  BY <1>1 DEF CommandsInv, CommandAt
<1>4. FilesInv'
  BY <1>1 DEF CommandsInv, FilesInv, MixedFiles, BothFiles, StopsOfRun
<1>5. MixOnlyAfterInterruption' /\ AllLeavesOneRun'
  BY <1>1 DEF CommandsInv, MixOnlyAfterInterruption, AllLeavesOneRun
<1> QED
  BY <1>2, <1>3, <1>4, <1>5 DEF CommandsInv

(* The three files of all, one after the other. *)
LEMMA AllWritten ==
  ASSUME CommandsInv, WriteNext, command = "all" PROVE CommandsInv'
<1>1. /\ entry = "all" /\ outcome = "ok" /\ AllWrites /\ runs \in Nat /\ runs # 0
      /\ PlanReady /\ stops = input.count
  BY DEF WriteNext, CommandsInv, CommandAt, ReadyInv, PlanReady
<1>2. /\ UNCHANGED <<vars, command, runs, loose, stops, matrix, input, config, entry, outcome>>
      /\ pending' = Tail(pending) /\ exit' = AfterWrites(files'.plan)
  BY DEF WriteNext, vars
<1>3. ReadyInv'
  BY <1>2 DEF CommandsInv, ReadyInv, PlanReady, topK, vars
<1>4. /\ AllOutputs[1] = Output("stops", [run |-> runs, size |-> stops])
      /\ AllOutputs[2] = Output("matrix", [run |-> runs, size |-> matrix])
      /\ AllOutputs[3] = PlanOf(runs, runs)
      /\ AllOutputs = <<AllOutputs[1], AllOutputs[2], AllOutputs[3]>>
  BY DEF AllOutputs
<1>5. AllOutputs' = AllOutputs
  BY <1>2 DEF AllOutputs, PlanOf, topK, vars
<1>6. CASE pending = AllOutputs
  <2>1. /\ Head(pending) = Output("stops", [run |-> runs, size |-> stops])
        /\ Tail(pending) = <<AllOutputs[2], AllOutputs[3]>>
    <3> DEFINE a == AllOutputs[1]
               b == AllOutputs[2]
               c == AllOutputs[3]
    <3>1. pending = <<a, b, c>> /\ a = Output("stops", [run |-> runs, size |-> stops])
      BY <1>4, <1>6
    <3> HIDE DEF a, b, c
    <3>2. Head(pending) = a /\ Tail(pending) = <<b, c>>
      BY <3>1
    <3> QED
      BY <3>1, <3>2 DEF b, c
  <2>2. /\ files'.stops = [run |-> runs, size |-> stops]
        /\ files'.matrix = files.matrix /\ files'.plan = files.plan
        /\ files' = [stops |-> files'.stops, matrix |-> files'.matrix, plan |-> files'.plan]
    BY <2>1, OneWritten DEF CommandsInv
  <2>3. exit' = "writing"
    <3>1. Tail(pending) # <<>>
      BY <2>1
    <3> QED
      BY <1>2, <3>1 DEF AfterWrites
  <2>4. CommandAt'
    BY <1>1, <1>2, <1>5, <2>1, <2>2, <2>3 DEF CommandAt, AllWrites, StopsOfRun, vars
  <2>5. FilesInv' /\ MixOnlyAfterInterruption' /\ AllLeavesOneRun'
    BY <1>2, <2>2, <2>3 DEF CommandsInv, FilesInv, StopsOfRun, MixOnlyAfterInterruption, AllLeavesOneRun
  <2> QED
    BY <1>3, <2>4, <2>5 DEF CommandsInv
<1>7. CASE pending = <<AllOutputs[2], AllOutputs[3]>> /\ StopsOfRun
  <2>1. /\ Head(pending) = Output("matrix", [run |-> runs, size |-> matrix])
        /\ Tail(pending) = <<AllOutputs[3]>>
    BY <1>4, <1>7
  <2>2. /\ files'.stops = files.stops /\ files'.plan = files.plan
        /\ files'.matrix = [run |-> runs, size |-> matrix]
        /\ files' = [stops |-> files'.stops, matrix |-> files'.matrix, plan |-> files'.plan]
    BY <2>1, OneWritten DEF CommandsInv
  <2>3. exit' = "writing"
    BY <1>2, <2>1 DEF AfterWrites
  <2>4. StopsOfRun' /\ MatrixOfRun'
    BY <1>2, <1>7, <2>2 DEF StopsOfRun, MatrixOfRun
  <2>5. CommandAt'
    BY <1>1, <1>2, <1>5, <2>1, <2>2, <2>3, <2>4 DEF CommandAt, AllWrites, vars
  <2>6. FilesInv' /\ MixOnlyAfterInterruption' /\ AllLeavesOneRun'
    BY <1>2, <2>2, <2>3, <2>4
       DEF CommandsInv, FilesInv, MixOnlyAfterInterruption, AllLeavesOneRun
  <2> QED
    BY <1>3, <2>5, <2>6 DEF CommandsInv
<1>8. CASE pending = <<AllOutputs[3]>> /\ StopsOfRun /\ MatrixOfRun
  <2> DEFINE plan == [stops |-> runs, matrix |-> runs, size |-> stops,
                      routes |-> Smaller(topK, Cardinality(Tours(stops)))]
  <2>1. Head(pending) = Output("plan", plan) /\ Tail(pending) = <<>>
    BY <1>4, <1>8 DEF PlanOf
  <2>2. /\ files'.stops = [run |-> runs, size |-> stops]
        /\ files'.matrix = [run |-> runs, size |-> matrix] /\ files'.plan = plan
        /\ files' = [stops |-> files'.stops, matrix |-> files'.matrix, plan |-> files'.plan]
    <3> HIDE DEF plan
    <3> QED
      BY <1>8, <2>1, OneWritten DEF CommandsInv, StopsOfRun, MatrixOfRun
  <2>3. exit' \in {"error", "ok"}
    BY <1>2, <2>1 DEF AfterWrites
  <2>4. CommandAt'
    BY <1>1, <1>2, <2>2, <2>3 DEF CommandAt
  <2>5. FilesInv' /\ MixOnlyAfterInterruption'
    BY <2>2 DEF FilesInv, MixedFiles, MixOnlyAfterInterruption
  <2>6. plan.routes >= 1
    <3>1. topK \in Nat \ {0} /\ Cardinality(Tours(stops)) \in Nat \ {0}
      BY <1>1, ToursCounted DEF PlanReady
    <3> QED
      BY <3>1 DEF Smaller
  <2>7. AllLeavesOneRun'
    <3>1. plan.stops = runs /\ plan.matrix = runs /\ plan.size = stops
      OBVIOUS
    <3> HIDE DEF plan
    <3> QED
      BY <1>1, <1>2, <2>2, <2>6, <3>1 DEF AllLeavesOneRun, PlanReady
  <2> QED
    BY <1>3, <2>4, <2>5, <2>7 DEF CommandsInv
<1> QED
  BY <1>1, <1>6, <1>7, <1>8 DEF AllWrites

(* The one file of another command. *)
LEMMA OtherWritten ==
  ASSUME CommandsInv, WriteNext, command # "all" PROVE CommandsInv'
<1>1. /\ UNCHANGED <<vars, command, runs, loose>> /\ runs \in Nat /\ (command # "none" => runs # 0)
      /\ exit = "writing" /\ pending' = Tail(pending) /\ exit' = AfterWrites(files'.plan)
  BY DEF WriteNext, CommandsInv, CommandAt
<1>2. ReadyInv'
  BY <1>1 DEF CommandsInv, ReadyInv, PlanReady, topK, vars
<1>3. AllLeavesOneRun'
  BY <1>1 DEF AllLeavesOneRun
<1>4. ASSUME Tail(pending) = <<>>,
             files' = [stops |-> files'.stops, matrix |-> files'.matrix, plan |-> files'.plan]
      PROVE  CommandAt'
  <2>1. exit' = "ok"
    BY <1>1, <1>4 DEF AfterWrites
  <2> QED
    BY <1>1, <1>4, <2>1 DEF CommandAt
<1>5. MixedFiles => files.stops.run \in loose
  BY DEF CommandsInv, FilesInv
<1>6. files.plan.stops # files.plan.matrix => files.plan.stops \in loose
  BY DEF CommandsInv, MixOnlyAfterInterruption
<1>7. CASE command = "optimize"
  <2> DEFINE content == PlanOf(files.stops.run, files.matrix.run).content
  <2>1. /\ BothFiles /\ pending = <<PlanOf(files.stops.run, files.matrix.run)>>
    BY <1>1, <1>7 DEF CommandsInv, CommandAt
  <2>2. /\ Head(pending) = Output("plan", content) /\ Tail(pending) = <<>>
        /\ content.stops = files.stops.run /\ content.matrix = files.matrix.run
    BY <2>1 DEF PlanOf, Output
  <2> HIDE DEF content
  <2>3. /\ files'.stops = files.stops /\ files'.matrix = files.matrix /\ files'.plan = content
        /\ files' = [stops |-> files'.stops, matrix |-> files'.matrix, plan |-> files'.plan]
    BY <2>2, OneWritten DEF CommandsInv
  <2>4. CommandAt'
    BY <1>4, <2>2, <2>3
  <2>5. FilesInv'
    BY <1>1, <1>5, <2>3 DEF FilesInv, MixedFiles, BothFiles
  <2>6. MixOnlyAfterInterruption'
    BY <1>1, <1>5, <2>1, <2>2, <2>3 DEF MixedFiles, MixOnlyAfterInterruption
  <2> QED
    BY <1>2, <1>3, <2>4, <2>5, <2>6 DEF CommandsInv
<1>8. CASE command = "geocode"
  <2> DEFINE content == [run |-> runs, size |-> pending[1].content.size]
  <2>1. runs \in loose /\ pending = <<Output("stops", content)>>
    BY <1>1, <1>8 DEF CommandsInv, CommandAt
  <2>2. content.run = runs
    OBVIOUS
  <2> HIDE DEF content
  <2>3. Head(pending) = Output("stops", content) /\ Tail(pending) = <<>>
    BY <2>1
  <2>4. /\ files'.stops = content /\ files'.plan = files.plan
        /\ files' = [stops |-> files'.stops, matrix |-> files'.matrix, plan |-> files'.plan]
    BY <2>3, OneWritten DEF CommandsInv
  <2>5. CommandAt'
    BY <1>4, <2>3, <2>4
  <2>6. FilesInv' /\ MixOnlyAfterInterruption'
    BY <1>1, <1>6, <2>1, <2>2, <2>4 DEF FilesInv, MixOnlyAfterInterruption
  <2> QED
    BY <1>2, <1>3, <2>5, <2>6 DEF CommandsInv
<1>9. CASE command = "matrix"
  <2> DEFINE content == [run |-> files.stops.run, size |-> pending[1].content.size]
  <2>1. pending = <<Output("matrix", content)>>
    BY <1>1, <1>9 DEF CommandsInv, CommandAt
  <2>2. content.run = files.stops.run
    OBVIOUS
  <2> HIDE DEF content
  <2>3. Head(pending) = Output("matrix", content) /\ Tail(pending) = <<>>
    BY <2>1
  <2>4. /\ files'.stops = files.stops /\ files'.matrix = content /\ files'.plan = files.plan
        /\ files' = [stops |-> files'.stops, matrix |-> files'.matrix, plan |-> files'.plan]
    BY <2>3, OneWritten DEF CommandsInv
  <2>5. CommandAt'
    BY <1>4, <2>3, <2>4
  <2>6. FilesInv' /\ MixOnlyAfterInterruption'
    BY <1>1, <1>6, <2>2, <2>4 DEF FilesInv, MixedFiles, MixOnlyAfterInterruption
  <2> QED
    BY <1>2, <1>3, <2>5, <2>6 DEF CommandsInv
<1> QED
  BY <1>1, <1>7, <1>8, <1>9 DEF CommandsInv, CommandAt

LEMMA NextKeepsCommandsInv ==
  PlannerInv /\ CommandsInv /\ [Next]_<<vars, cliVars>> => CommandsInv'
<1> SUFFICES ASSUME PlannerInv, CommandsInv, [Next]_<<vars, cliVars>> PROVE CommandsInv'
  OBVIOUS
<1>1. CASE runAll
  <2>1. Start("all") /\ loose' = loose
    BY <1>1 DEF runAll
  <2>2. PICK addresses \in ReadAddresses, k \in -1..Most :
          IF LoadFails \/ addresses < 1 THEN Exit("error")
          ELSE Plan(OptimizeRequest(addresses, k, 0))
    BY <1>1 DEF runAll
  <2>3. /\ command' = "all" /\ runs' \in Nat /\ runs' # 0 /\ FilesInv' /\ MixOnlyAfterInterruption'
        /\ files' = [stops |-> files'.stops, matrix |-> files'.matrix, plan |-> files'.plan]
    BY <2>1, StartKeeps
  <2>4. \/ exit' = "error" /\ NoRequest
        \/ exit' = "planning" /\ Request("all", OptimizeRequest(addresses, k, 0))
    BY <2>2, <2>3 DEF Exit, Plan
  <2>5. ReadyInv'
    BY <2>4, BeginKeepsReadyInv
  <2>6. CommandAt'
    BY <2>3, <2>4 DEF CommandAt, Request, Begin
  <2>7. AllLeavesOneRun'
    BY <2>4 DEF AllLeavesOneRun
  <2> QED
    BY <2>3, <2>5, <2>6, <2>7 DEF CommandsInv
<1>2. CASE runOptimize
  <2>1. Start("optimize") /\ loose' = loose
    BY <1>2 DEF runOptimize
  <2>2. PICK k \in -1..Most :
          IF LoadFails \/ files.stops = NoFile \/ files.matrix = NoFile THEN Exit("error")
          ELSE Plan(OptimizeRequest(files.stops.size, k, files.matrix.size))
    BY <1>2 DEF runOptimize
  <2>3. /\ files' = files
        /\ command' = "optimize" /\ runs' \in Nat /\ runs' # 0 /\ FilesInv' /\ MixOnlyAfterInterruption'
        /\ files' = [stops |-> files'.stops, matrix |-> files'.matrix, plan |-> files'.plan]
    BY <2>1, StartKeeps
  <2>4. \/ exit' = "error" /\ NoRequest
        \/ /\ exit' = "planning" /\ BothFiles'
           /\ Request("optimize", OptimizeRequest(files.stops.size, k, files.matrix.size))
    BY <2>2, <2>3 DEF Exit, Plan, BothFiles
  <2>5. ReadyInv'
    BY <2>4, BeginKeepsReadyInv
  <2>6. CommandAt'
    BY <2>3, <2>4 DEF CommandAt, Request, Begin
  <2>7. AllLeavesOneRun'
    BY <2>3 DEF AllLeavesOneRun
  <2> QED
    BY <2>3, <2>5, <2>6, <2>7 DEF CommandsInv
<1>3. CASE runGeocode
  <2>1. /\ Start("geocode") /\ loose \subseteq loose' /\ NoRequest
        /\ \/ exit' = "error"
           \/ exit' = "writing" /\ runs' \in loose' /\
              \E n : pending' = <<Output("stops", [run |-> runs', size |-> n])>>
    BY <1>3 DEF runGeocode, Exit, Write
  <2>2. /\ command' = "geocode" /\ runs' \in Nat /\ runs' # 0 /\ FilesInv' /\ MixOnlyAfterInterruption'
        /\ files' = [stops |-> files'.stops, matrix |-> files'.matrix, plan |-> files'.plan]
    BY <2>1, StartKeeps
  <2>3. ReadyInv'
    BY <2>1, BeginKeepsReadyInv
  <2>4. CommandAt'
    BY <2>1, <2>2 DEF CommandAt, Output
  <2>5. AllLeavesOneRun'
    BY <2>2 DEF AllLeavesOneRun
  <2> QED
    BY <2>2, <2>3, <2>4, <2>5 DEF CommandsInv
<1>4. CASE runMatrix
  <2>1. /\ Start("matrix") /\ loose' = loose /\ NoRequest
        /\ \/ exit' = "error"
           \/ exit' = "writing" /\
              \E n : pending' = <<Output("matrix", [run |-> files.stops.run, size |-> n])>>
    BY <1>4 DEF runMatrix, Exit, Write
  <2>2. /\ files' = files
        /\ command' = "matrix" /\ runs' \in Nat /\ runs' # 0 /\ FilesInv' /\ MixOnlyAfterInterruption'
        /\ files' = [stops |-> files'.stops, matrix |-> files'.matrix, plan |-> files'.plan]
    BY <2>1, StartKeeps
  <2>3. ReadyInv'
    BY <2>1, BeginKeepsReadyInv
  <2>4. CommandAt'
    BY <2>1, <2>2 DEF CommandAt, Output
  <2>5. AllLeavesOneRun'
    BY <2>2 DEF AllLeavesOneRun
  <2> QED
    BY <2>2, <2>3, <2>4, <2>5 DEF CommandsInv
<1>5. CASE runItinerary
  <2>1. Start("itinerary") /\ loose' = loose /\ NoRequest /\ exit' \in {"ok", "error"}
    BY <1>5 DEF runItinerary, Exit
  <2>2. /\ command' = "itinerary" /\ runs' \in Nat /\ runs' # 0 /\ FilesInv' /\ MixOnlyAfterInterruption'
        /\ files' = [stops |-> files'.stops, matrix |-> files'.matrix, plan |-> files'.plan]
    BY <2>1, StartKeeps
  <2>3. ReadyInv'
    BY <2>1, BeginKeepsReadyInv
  <2>4. CommandAt' /\ AllLeavesOneRun'
    BY <2>1, <2>2 DEF CommandAt, AllLeavesOneRun
  <2> QED
    BY <2>2, <2>3, <2>4 DEF CommandsInv
<1>6. CASE PostRequest
  <2>1. PICK i \in Inputs : Post(i)
    BY <1>6 DEF PostRequest
  <2>2. Request("http", i) /\ UNCHANGED cliVars /\ runs = 0
    BY <1>6, <2>1 DEF PostRequest, Post
  <2>3. command = "none" /\ exit \notin {"planning", "writing"}
    BY <2>2 DEF CommandsInv, CommandAt
  <2>4. ReadyInv'
    BY <2>2, BeginKeepsReadyInv
  <2>5. CommandAt'
    BY <2>2, <2>3 DEF CommandsInv, CommandAt, cliVars
  <2>6. FilesInv' /\ MixOnlyAfterInterruption' /\ AllLeavesOneRun'
    BY <2>2, <2>3 DEF CommandsInv, FilesInv, MixedFiles, BothFiles, MixOnlyAfterInterruption,
                      AllLeavesOneRun, cliVars
  <2> QED
    BY <2>4, <2>5, <2>6 DEF CommandsInv
<1>7. CASE PlannerStep
  <2>1. /\ exit \in {"none", "planning"} /\ UNCHANGED <<command, exit, runs, files, pending, loose>>
        /\ ReadyInv' /\ entry' = entry
    BY <1>7, StepsKeepReadyInv DEF PlannerStep, CommandsInv, cliVars
  <2>2. CommandAt' /\ FilesInv' /\ MixOnlyAfterInterruption' /\ AllLeavesOneRun'
    BY <2>1 DEF CommandsInv, CommandAt, FilesInv, MixedFiles, BothFiles, MixOnlyAfterInterruption,
                AllLeavesOneRun
  <2> QED
    BY <2>1, <2>2 DEF CommandsInv
<1>8. CASE Returned
  <2>1. /\ exit = "planning" /\ UNCHANGED <<command, runs, files, loose>>
        /\ \/ outcome = "ok" /\ exit' = "writing" /\ pending' = Outputs /\ UNCHANGED vars
           \/ exit' = "error" /\ NoRequest
    BY <1>8 DEF Returned, Write, Exit
  <2>2. ReadyInv'
    BY <2>1, BeginKeepsReadyInv DEF CommandsInv, ReadyInv, PlanReady, topK, vars
  <2>3. CommandAt'
    <3>1. CASE exit' = "error"
      BY <2>1, <3>1 DEF CommandsInv, CommandAt
    <3>2. CASE exit' = "writing" /\ command = "all"
      <4>1. pending' = AllOutputs /\ UNCHANGED vars /\ entry = "all" /\ outcome = "ok"
        BY <2>1, <3>2 DEF Outputs, AllOutputs, CommandsInv, CommandAt
      <4>2. AllOutputs' = AllOutputs
        BY <2>1, <4>1 DEF AllOutputs, PlanOf, topK, vars
      <4> QED
        BY <2>1, <3>2, <4>1, <4>2 DEF CommandsInv, CommandAt, AllWrites, vars
    <3>3. CASE exit' = "writing" /\ command = "optimize"
      <4>1. BothFiles /\ pending' = <<PlanOf(files.stops.run, files.matrix.run)>> /\ UNCHANGED vars
        BY <2>1, <3>3 DEF Outputs, CommandsInv, CommandAt
      <4>2. PlanOf(files.stops.run, files.matrix.run)' = PlanOf(files.stops.run, files.matrix.run)
        BY <2>1, <4>1 DEF PlanOf, topK, vars
      <4> QED
        BY <2>1, <3>3, <4>1, <4>2 DEF CommandsInv, CommandAt, BothFiles
    <3> QED
      BY <2>1, <3>1, <3>2, <3>3 DEF CommandsInv, CommandAt
  <2>4. FilesInv' /\ MixOnlyAfterInterruption' /\ AllLeavesOneRun'
    BY <2>1 DEF CommandsInv, FilesInv, MixedFiles, BothFiles, MixOnlyAfterInterruption, AllLeavesOneRun
  <2> QED
    BY <2>2, <2>3, <2>4 DEF CommandsInv
<1>9. CASE WriteNext
  BY <1>9, AllWritten, OtherWritten
<1>10. CASE WriteFails \/ Kill
  BY <1>10, InterruptedKeeps DEF WriteFails, Kill
<1>11. CASE UNCHANGED <<vars, cliVars>>
  <2>1. AllOutputs' = AllOutputs /\ ReadyInv'
    BY <1>11 DEF CommandsInv, ReadyInv, PlanReady, AllOutputs, PlanOf, topK, vars, cliVars
  <2>2. PlanOf(files.stops.run, files.matrix.run)' = PlanOf(files.stops.run, files.matrix.run)
    BY <1>11 DEF PlanOf, topK, vars, cliVars
  <2>3. CommandAt'
    BY <1>11, <2>1, <2>2 DEF CommandsInv, CommandAt, BothFiles, AllWrites, StopsOfRun, MatrixOfRun,
                             vars, cliVars
  <2>4. FilesInv' /\ MixOnlyAfterInterruption' /\ AllLeavesOneRun'
    BY <1>11 DEF CommandsInv, FilesInv, MixedFiles, BothFiles, StopsOfRun, MixOnlyAfterInterruption,
                 AllLeavesOneRun, vars, cliVars
  <2> QED
    BY <2>1, <2>3, <2>4 DEF CommandsInv
<1> QED
  BY <1>1, <1>2, <1>3, <1>4, <1>5, <1>6, <1>7, <1>8, <1>9, <1>10, <1>11 DEF Next, Run

LEMMA InitCommandsInv == Init => CommandsInv
<1> SUFFICES ASSUME Init PROVE CommandsInv
  OBVIOUS
<1>1. PICK s \in {NoFile} \cup {Written(n) : n \in Counts}, m \in {NoFile} \cup {Written(n) : n \in Counts} :
        files = [stops |-> s, matrix |-> m, plan |-> NoPlan]
  BY DEF Init
<1>2. /\ command = "none" /\ exit = "none" /\ runs = 0
      /\ entry = "none" /\ stage = "idle" /\ outcome = "none"
  BY DEF Init, PlannerInit
<1>3. s # NoFile /\ m # NoFile => s.run = m.run
  BY DEF Written
<1>4. ReadyInv /\ CommandAt /\ AllLeavesOneRun
  BY <1>1, <1>2 DEF ReadyInv, CommandAt, AllLeavesOneRun
<1>5. FilesInv /\ MixOnlyAfterInterruption
  BY <1>1, <1>3 DEF FilesInv, MixedFiles, BothFiles, MixOnlyAfterInterruption, NoPlan
<1> QED
  BY <1>4, <1>5 DEF CommandsInv

LEMMA CommandsInvariant == Spec => [](PlannerInv /\ CommandsInv)
  BY InitPlannerInv, InitCommandsInv, NextKeepsPlannerInv, NextKeepsCommandsInv, PTL DEF Spec

(* Whatever the sizes, and however many commands follow each other, are    *)
(* refused, fail or are killed: a plan that mixes two runs has loose stops. *)
THEOREM MixturesAreExplained == Spec => []MixOnlyAfterInterruption
<1>1. CommandsInv => MixOnlyAfterInterruption
  BY DEF CommandsInv
<1> QED
  BY <1>1, CommandsInvariant, PTL

(* A run of all that reports success leaves three files of one run, for    *)
(* any number of addresses within the limits.                              *)
THEOREM AllIsOneRun == Spec => []AllLeavesOneRun
<1>1. CommandsInv => AllLeavesOneRun
  BY DEF CommandsInv
<1> QED
  BY <1>1, CommandsInvariant, PTL

----------------------------------------------------------------------------
(* One file being replaced, for any number of processes, saves and losses  *)
(* of power.  FInv follows a save through its temporary file: what is      *)
(* about to be renamed is whole and flushed, so that every file the path   *)
(* has named is; and a save under way has not been at the path yet.        *)
UnderWay == Writing \cup {"create", "cleanup"}

FTypes ==
  /\ pc       \in [Processes -> UnderWay \cup {"idle", "down"}]
  /\ saves    \in [Processes -> Nat]
  /\ returned \in [Processes -> {"none", "ok", "error"}]
  /\ temp     \in [Processes -> File \cup {Absent}]
  /\ versions \subseteq File \cup {Absent}
  /\ target \in versions
  /\ losses \in Nat

(* Every file the path has named is whole and flushed. *)
VersionsSafe == \A f \in versions \ {Absent} : f.data = "whole" /\ f.synced

(* The temporary file of a save on its way to the rename. *)
TempsReady ==
  \A p \in Processes :
    /\ pc[p] \in Writing => temp[p] \in File /\ temp[p].save = <<p, saves[p]>>
    /\ pc[p] \in {"sync", "close", "rename"} => temp[p].data = "whole"
    /\ pc[p] \in {"close", "rename"} => temp[p].synced

(* A version comes from a save that was begun, and not from one that is    *)
(* still under way.                                                        *)
FromSaves ==
  \A f \in versions \ {Absent} : LET p == f.save[1]  n == f.save[2] IN
    n <= saves[p] /\ (pc[p] \in UnderWay => n # saves[p])

(* What is returned, in the terms of FromSaves. *)
Installed(p) == \E f \in versions \ {Absent} : f.save = <<p, saves[p]>>

Outcomes ==
  \A p \in Processes :
    /\ returned[p] # "none" => pc[p] = "idle"
    /\ returned[p] = "ok" => Installed(p)
    /\ returned[p] = "error" => ~Installed(p)

FInv == FTypes /\ VersionsSafe /\ TempsReady /\ FromSaves /\ Outcomes

(* FInv holds through every call of the operating system and its failure,  *)
(* through kills and through losses of power.                              *)
LEMMA FInvStep == FInv /\ [FNext]_fvars => FInv'
<1> SUFFICES ASSUME FInv, [FNext]_fvars PROVE FInv'
  OBVIOUS
<1> USE AbsentAssumption
    DEF FInv, FTypes, VersionsSafe, TempsReady, FromSaves, Outcomes, Installed, UnderWay, Writing,
        File, Goto
<1>1. ASSUME NEW p \in Processes, Marshal(p) PROVE FInv'
  BY <1>1 DEF Marshal
<1>2. ASSUME NEW p \in Processes, Create(p) PROVE FInv'
  BY <1>2 DEF Create
<1>3. ASSUME NEW p \in Processes, CreateFails(p) PROVE FInv'
  BY <1>3 DEF CreateFails
<1>4. ASSUME NEW p \in Processes, Chmod(p) PROVE FInv'
  BY <1>4 DEF Chmod
<1>5. ASSUME NEW p \in Processes, WritePart(p) PROVE FInv'
  BY <1>5 DEF WritePart
<1>6. ASSUME NEW p \in Processes, WriteRest(p) PROVE FInv'
  BY <1>6 DEF WriteRest
<1>7. ASSUME NEW p \in Processes, Sync(p) PROVE FInv'
  <2> DEFINE f == [temp[p] EXCEPT !.synced = TRUE]
  <2>1. /\ pc[p] = "sync" /\ pc' = [pc EXCEPT ![p] = "close"]
        /\ temp' = [temp EXCEPT ![p] = f]
        /\ UNCHANGED <<saves, returned, target, versions, losses>>
    BY <1>7 DEF Sync
  <2>2. temp[p] \in File /\ temp[p].save = <<p, saves[p]>> /\ temp[p].data = "whole"
    BY <2>1
  <2>3. f \in File /\ f.save = <<p, saves[p]>> /\ f.data = "whole" /\ f.synced
    BY <2>2
  <2>4. FTypes' /\ TempsReady'
    <3> HIDE DEF f, File
    <3> QED
      BY <2>1, <2>3
  <2>5. VersionsSafe' /\ FromSaves' /\ Outcomes'
    BY <2>1
  <2> QED
    BY <2>4, <2>5
<1>8. ASSUME NEW p \in Processes, Close(p) PROVE FInv'
  BY <1>8 DEF Close
<1>9. ASSUME NEW p \in Processes, Rename(p) PROVE FInv'
  BY <1>9 DEF Rename
<1>10. ASSUME NEW p \in Processes, Fails(p) PROVE FInv'
  BY <1>10 DEF Fails
<1>11. ASSUME NEW p \in Processes, Cleanup(p) PROVE FInv'
  BY <1>11 DEF Cleanup
<1>12. ASSUME NEW p \in Processes, Crash(p) PROVE FInv'
  BY <1>12 DEF Crash
<1>13. ASSUME NEW p \in Processes, Restart(p) PROVE FInv'
  BY <1>13 DEF Restart
<1>14. CASE PowerLoss
  BY <1>14 DEF PowerLoss
<1>15. CASE UNCHANGED fvars
  BY <1>15 DEF fvars
<1> QED
  BY <1>1, <1>2, <1>3, <1>4, <1>5, <1>6, <1>7, <1>8,
     <1>9, <1>10, <1>11, <1>12, <1>13, <1>14, <1>15 DEF FNext

LEMMA FInvariant == FSpec => []FInv
<1>1. FInit => FInv
  <2> SUFFICES ASSUME FInit PROVE FInv
    OBVIOUS
  <2>1. versions \subseteq {Absent} \cup {OldFile(p) : p \in Processes} /\ target \in versions
    BY DEF FInit
  <2>2. \A p \in Processes : /\ OldFile(p) \in File /\ OldFile(p).save = <<p, 0>>
                             /\ OldFile(p).data = "whole" /\ OldFile(p).synced
    BY DEF OldFile, File
  <2>3. FTypes
    BY <2>1, <2>2 DEF FInit, FTypes
  <2>4. VersionsSafe /\ FromSaves
    BY <2>1, <2>2 DEF FInit, VersionsSafe, FromSaves, UnderWay, Writing
  <2>5. TempsReady /\ Outcomes
    BY DEF FInit, TempsReady, Outcomes, Writing
  <2> QED
    BY <2>3, <2>4, <2>5 DEF FInv
<1>2. QED
  BY <1>1, FInvStep, PTL DEF FSpec

(* A reader finds no file or a whole one, whatever is killed, fails or     *)
(* loses power.                                                            *)
THEOREM FilesAreWhole == FSpec => []NeverTorn
<1>1. FInv => NeverTorn
  BY DEF FInv, FTypes, VersionsSafe, NeverTorn
<1>2. QED
  BY <1>1, FInvariant, PTL

(* nil is returned for a save that has been at the path, an error for one  *)
(* that never was.                                                         *)
THEOREM ResultsAreTrue == FSpec => []ResultIsTruthful
<1>1. FInv => ResultIsTruthful
  BY DEF FInv, Outcomes, Installed, ResultIsTruthful
<1>2. QED
  BY <1>1, FInvariant, PTL

(* Once there is a file, only a loss of power can take it away. *)
THEOREM FilesStay == FSpec => NeverVanishes
<1>1. FInv /\ [FNext]_fvars => [target # Absent /\ losses' = losses => target' # Absent]_fvars
  <2> SUFFICES ASSUME FInv, FNext, target # Absent, losses' = losses PROVE target' # Absent
    OBVIOUS
  <2>1. ASSUME NEW p \in Processes, Rename(p) PROVE target' # Absent
    BY <2>1, AbsentAssumption DEF Rename, FInv, TempsReady, Writing
  <2>2. ~PowerLoss
    BY DEF PowerLoss, FInv, FTypes
  <2> QED
    BY <2>1, <2>2 DEF FNext, Marshal, Create, CreateFails, Chmod, WritePart, WriteRest, Sync, Close,
       Fails, Cleanup, Crash, Restart
<1>2. QED
  BY <1>1, FInvariant, PTL DEF FSpec, NeverVanishes
==============================================================================
