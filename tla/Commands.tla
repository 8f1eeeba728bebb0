------------------------------ MODULE Commands ------------------------------
(***************************************************************************)
(* internal/cli/cli.go: route-cli commands run one after the other on the  *)
(* same three files, each by a process of its own that may be refused, may *)
(* fail to write, or may be killed.  "all" and "optimize" go through       *)
(* module Planner, and so does an HTTP request, which touches no file.     *)
(*                                                                         *)
(* A run is known by its number.  What a file holds is known by the run    *)
(* that looked its stops up and by its size: "matrix" makes a matrix for   *)
(* the stops it reads, and a plan carries the runs of its stops and of its *)
(* matrix.  Replacing one file is atomic (module FileStore).               *)
(***************************************************************************)
EXTENDS Planner, FiniteSets

CONSTANTS MaxCommands   \* bound: commands run after each other

ASSUME MaxCommandsAssumption == MaxCommands \in Nat

VARIABLES
  command,   \* the command that runs or ran last
  exit,      \* "planning", "writing", or how the command ended
  runs,      \* commands run so far, the number of the current one
  files,     \* the files of stops, matrix and plan
  pending,   \* files the command has still to write, in order
  loose      \* history: runs of geocode, and runs of all that ended while writing

cliVars == <<command, exit, runs, files, pending, loose>>

Missing == -1
NoPlan == [stops |-> Missing, matrix |-> Missing, size |-> 0, routes |-> 0]
NoFile == [run |-> Missing, size |-> 0]
Written(n) == [run |-> 0, size |-> n]   \* by hand, before the first command

Init ==
  /\ config \in Configs /\ PlannerInit
  /\ command = "none" /\ exit = "none" /\ runs = 0 /\ pending = <<>> /\ loose = {}
  /\ \E s, m \in {NoFile} \cup {Written(n) : n \in Counts} :
       files = [stops |-> s, matrix |-> m, plan |-> NoPlan]

Start(c) ==
  /\ exit \notin {"planning", "writing"} /\ entry # "http"
  /\ runs < MaxCommands
  /\ command' = c /\ runs' = runs + 1
  /\ UNCHANGED <<config, files>>

(* The planner's state belongs to the process and goes with it. *)
Exit(how)  == exit' = how /\ pending' = <<>> /\ NoRequest
Plan(i)    == exit' = "planning" /\ pending' = <<>> /\ Request(command', i)
Write(seq) == exit' = "writing" /\ pending' = seq

Output(name, content) == [name |-> name, content |-> content]

(* config.Load *)
LoadFails == ~Validate(config)

(* The lines of the file of addresses that are not blank; Missing when the *)
(* file cannot be read.                                                    *)
ReadAddresses == {Missing} \cup Counts

(* An unreadable configuration or input is an error before anything is     *)
(* asked or written.                                                       *)
runAll ==
  /\ Start("all")
  /\ \E addresses \in ReadAddresses, k \in -1..Most :
       IF LoadFails \/ addresses < 1 THEN Exit("error")
       ELSE Plan(OptimizeRequest(addresses, k, 0))
  /\ UNCHANGED loose

runOptimize ==
  /\ Start("optimize")
  /\ \E k \in -1..Most :
       IF LoadFails \/ files.stops = NoFile \/ files.matrix = NoFile THEN Exit("error")
       ELSE Plan(OptimizeRequest(files.stops.size, k, files.matrix.size))
  /\ UNCHANGED loose

(* Stops are written when the last address is resolved; of no addresses,   *)
(* an empty list is.                                                       *)
runGeocode ==
  /\ Start("geocode")
  /\ \E addresses \in ReadAddresses :
       \/ /\ LoadFails \/ addresses # 0
          /\ Exit("error") /\ UNCHANGED loose
       \/ /\ ~LoadFails /\ addresses # Missing
          /\ Write(<<Output("stops", [run |-> runs', size |-> addresses])>>) /\ NoRequest
          /\ loose' = loose \cup {runs'}

(* It fails without a configuration, without stops, and when the provider  *)
(* does; what the provider returned is written without a look at it.       *)
runMatrix ==
  /\ Start("matrix")
  /\ LET n == files.stops.size IN
     \/ Exit("error")
     \/ /\ ~LoadFails /\ n > 0
        /\ \E rows \in {n} \cup (IF n > 1 THEN {Unusable} ELSE {}) :
             Write(<<Output("matrix", [run |-> files.stops.run, size |-> rows])>>)
        /\ NoRequest
  /\ UNCHANGED loose

(* buildItinerary for the routes selected: rank 0 stands for all of them. *)
buildItinerary(plan, rank) ==
  \E path \in Tours(plan.size) : rank <= plan.routes /\ HasDirections(plan.size, path)

runItinerary ==
  /\ Start("itinerary")
  /\ \E rank \in -1..Most :
       Exit(IF rank < 0 \/ LoadFails \/ files.plan = NoPlan
               \/ ~buildItinerary(files.plan, rank)
            THEN "error" ELSE "ok")
  /\ UNCHANGED loose

PlannerStep == exit \in {"none", "planning"} /\ Steps /\ UNCHANGED cliVars

Smaller(a, b) == IF a < b THEN a ELSE b
PlanOf(s, m) ==
  Output("plan", [stops |-> s, matrix |-> m, size |-> stops,
                  routes |-> Smaller(topK, Cardinality(Tours(stops)))])

(* What a successful plan leaves to write, in the order of the code. *)
Outputs ==
  IF command = "all"
  THEN <<Output("stops", [run |-> runs, size |-> stops]),
         Output("matrix", [run |-> runs, size |-> matrix]), PlanOf(runs, runs)>>
  ELSE <<PlanOf(files.stops.run, files.matrix.run)>>

(* Wrong: stops that were paid for are kept when the rest is refused. *)
ReturnedSavingStops ==
  /\ exit = "planning" /\ stage = "done"
  /\ Write(IF outcome = "ok" THEN Outputs
           ELSE <<Output("stops", [run |-> runs, size |-> stops])>>)
  /\ UNCHANGED <<vars, command, runs, files, loose>>

(* service.Optimize returns to the command. *)
Returned ==
  /\ exit = "planning" /\ stage = "done"
  /\ IF outcome = "ok"
     THEN Write(Outputs) /\ UNCHANGED vars
     ELSE Exit("error") /\ UNCHANGED config
  /\ UNCHANGED <<command, runs, files, loose>>

AfterWrites(plan) ==
  IF Tail(pending) # <<>> THEN "writing"
  ELSE IF command = "all" /\ ~buildItinerary(plan, 0) THEN "error" ELSE "ok"

WriteNext ==
  /\ exit = "writing"
  /\ files' = [files EXCEPT ![Head(pending).name] = Head(pending).content]
  /\ pending' = Tail(pending) /\ exit' = AfterWrites(files'.plan)
  /\ UNCHANGED <<vars, command, runs, loose>>

(* Wrong: a file that cannot be replaced is passed over. *)
PassedOver ==
  /\ exit = "writing"
  /\ pending' = Tail(pending) /\ exit' = AfterWrites(files.plan)
  /\ UNCHANGED <<vars, command, runs, files, loose>>

Interrupted(how) ==
  /\ Exit(how)
  /\ loose' = IF exit = "writing" THEN loose \cup {runs} ELSE loose
  /\ UNCHANGED <<config, command, runs, files>>

(* storage.WriteJSON returns an error and leaves the file as it was. *)
WriteFails == exit = "writing" /\ Interrupted("error")

Kill == exit \in {"planning", "writing"} /\ Interrupted("killed")

PostRequest ==
  /\ runs = 0 /\ files = [stops |-> NoFile, matrix |-> NoFile, plan |-> NoPlan]
  /\ \E i \in Inputs : Post(i)
  /\ UNCHANGED cliVars

Run == runAll \/ runOptimize \/ runGeocode \/ runMatrix \/ runItinerary

Next ==
  \/ Run \/ PostRequest
  \/ PlannerStep \/ Returned \/ WriteNext \/ WriteFails \/ Kill

Spec == Init /\ [][Next]_<<vars, cliVars>>

----------------------------------------------------------------------------
(* runAll replaces three files one by one.  A plan whose matrix was made   *)
(* for other stops than its own comes about only when geocode replaced the *)
(* stops alone, or a run of all was killed or failed while writing: a run  *)
(* of all that is refused on its way, however late, leaves no mixture.     *)
MixOnlyAfterInterruption ==
  files.plan.stops # files.plan.matrix => files.plan.stops \in loose

(* A run of all that reports success has left the stops, the matrix and    *)
(* the plan of this run, one entry for every address, whatever the files   *)
(* held before.                                                            *)
AllLeavesOneRun ==
  command = "all" /\ exit = "ok" =>
    /\ {files.stops.run, files.matrix.run, files.plan.stops, files.plan.matrix} = {runs}
    /\ {files.stops.size, files.matrix.size, files.plan.size} = {input.count}
    /\ files.plan.routes >= 1
=============================================================================
