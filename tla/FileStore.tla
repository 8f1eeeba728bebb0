----------------------------- MODULE FileStore -----------------------------
(***************************************************************************)
(* internal/storage/json.go, WriteJSON, as the caches and the CLI use it:  *)
(* several processes (the server and route-cli runs share one cache        *)
(* directory) replace one file by way of temporary files, any process may  *)
(* be killed at any step, any system call may fail, and the machine may    *)
(* lose power.                                                             *)
(*                                                                         *)
(* What a file holds is the save that wrote it, whether the data is whole, *)
(* and whether it was flushed.  The directory itself is never flushed, so  *)
(* a power loss may bring back any version the path named before.          *)
(***************************************************************************)
EXTENDS Naturals

CONSTANTS Processes,
          Absent,
          MaxSaves,    \* bound: saves begun by one process
          MaxLosses    \* bound: power losses

ASSUME FileBounds == MaxSaves \in Nat /\ MaxLosses \in Nat

(* A file carries the process and the number of the save that made it. *)
File == [save : Processes \X Nat, data : {"empty", "part", "whole"}, synced : BOOLEAN]

ASSUME AbsentAssumption == Absent \notin File

VARIABLES
  pc,         \* where WriteJSON is in each process
  saves,      \* saves begun by each process
  returned,    \* what the last save of each process returned
  temp,       \* the temporary file of a save under way
  target,     \* the file at path
  versions,   \* all files path has named, which a power loss may bring back
  losses

fvars == <<pc, saves, returned, temp, target, versions, losses>>

Writing == {"chmod", "write", "sync", "close", "rename"}

(* At first the path may not exist, or hold what an earlier run wrote. *)
OldFile(p) == [save |-> <<p, 0>>, data |-> "whole", synced |-> TRUE]

FInit ==
  /\ pc       = [p \in Processes |-> "idle"]
  /\ saves    = [p \in Processes |-> 0]
  /\ returned = [p \in Processes |-> "none"]
  /\ temp     = [p \in Processes |-> Absent]
  /\ target \in {Absent} \cup {OldFile(p) : p \in Processes}
  /\ versions = {target}
  /\ losses = 0

Goto(p, label) == pc' = [pc EXCEPT ![p] = label]

(* A value that cannot be encoded (MarshalIndent) ends the save at once. *)
Marshal(p) ==
  /\ pc[p] = "idle" /\ saves[p] < MaxSaves
  /\ saves' = [saves EXCEPT ![p] = @ + 1]
  /\ \/ Goto(p, "create") /\ returned' = [returned EXCEPT ![p] = "none"]
     \/ UNCHANGED pc /\ returned' = [returned EXCEPT ![p] = "error"]
  /\ UNCHANGED <<temp, target, versions, losses>>

(* Wrong: the old file makes room for the new one first. *)
CreateRemovingOld(p) ==
  /\ pc[p] = "create"
  /\ temp' = [temp EXCEPT ![p] =
               [save |-> <<p, saves[p]>>, data |-> "empty", synced |-> FALSE]]
  /\ target' = Absent
  /\ Goto(p, "chmod")
  /\ UNCHANGED <<saves, returned, versions, losses>>

(* MkdirAll and CreateTemp: a new empty file under a name of its own. *)
Create(p) ==
  /\ pc[p] = "create"
  /\ temp' = [temp EXCEPT ![p] =
               [save |-> <<p, saves[p]>>, data |-> "empty", synced |-> FALSE]]
  /\ Goto(p, "chmod")
  /\ UNCHANGED <<saves, returned, target, versions, losses>>

CreateFails(p) ==
  /\ pc[p] = "create"
  /\ returned' = [returned EXCEPT ![p] = "error"]
  /\ Goto(p, "idle")
  /\ UNCHANGED <<saves, temp, target, versions, losses>>

Chmod(p) ==
  /\ pc[p] = "chmod"
  /\ Goto(p, "write")
  /\ UNCHANGED <<saves, returned, temp, target, versions, losses>>

(* Write stores the data piece by piece; it returns when all is stored. *)
WritePart(p) ==
  /\ pc[p] = "write" /\ temp[p].data = "empty"
  /\ temp' = [temp EXCEPT ![p].data = "part"]
  /\ UNCHANGED <<pc, saves, returned, target, versions, losses>>

WriteRest(p) ==
  /\ pc[p] = "write" /\ temp[p].data = "part"
  /\ temp' = [temp EXCEPT ![p].data = "whole"]
  /\ Goto(p, "sync")
  /\ UNCHANGED <<saves, returned, target, versions, losses>>

(* Wrong: no Sync before Close and Rename. *)
SyncSkipped(p) ==
  /\ pc[p] = "sync"
  /\ Goto(p, "close")
  /\ UNCHANGED <<saves, returned, temp, target, versions, losses>>

Sync(p) ==
  /\ pc[p] = "sync"
  /\ temp' = [temp EXCEPT ![p].synced = TRUE]
  /\ Goto(p, "close")
  /\ UNCHANGED <<saves, returned, target, versions, losses>>

Close(p) ==
  /\ pc[p] = "close"
  /\ Goto(p, "rename")
  /\ UNCHANGED <<saves, returned, temp, target, versions, losses>>

(* Rename replaces the path in one step; nil is returned. *)
Rename(p) ==
  /\ pc[p] = "rename"
  /\ target' = temp[p]
  /\ versions' = versions \cup {temp[p]}
  /\ temp' = [temp EXCEPT ![p] = Absent]
  /\ returned' = [returned EXCEPT ![p] = "ok"]
  /\ Goto(p, "idle")
  /\ UNCHANGED <<saves, losses>>

(* Any of the calls returns an error: the deferred function takes over. *)
Fails(p) ==
  /\ pc[p] \in Writing
  /\ Goto(p, "cleanup")
  /\ UNCHANGED <<saves, returned, temp, target, versions, losses>>

(* Wrong: the deferred function hides the error. *)
CleanupSilent(p) ==
  /\ pc[p] = "cleanup"
  /\ temp' = [temp EXCEPT ![p] = Absent]
  /\ returned' = [returned EXCEPT ![p] = "ok"]
  /\ Goto(p, "idle")
  /\ UNCHANGED <<saves, target, versions, losses>>

(* The temporary file is closed and removed (or left behind when that      *)
(* fails, under a name nobody reads) and the error is returned.            *)
Cleanup(p) ==
  /\ pc[p] = "cleanup"
  /\ temp' = [temp EXCEPT ![p] = Absent]
  /\ returned' = [returned EXCEPT ![p] = "error"]
  /\ Goto(p, "idle")
  /\ UNCHANGED <<saves, target, versions, losses>>

(* The process is killed; what it had written stays in its temporary file, *)
(* which nobody reads or removes afterwards.                               *)
Crash(p) ==
  /\ pc[p] # "down"
  /\ Goto(p, "down")
  /\ temp' = [temp EXCEPT ![p] = Absent]
  /\ returned' = [returned EXCEPT ![p] = "none"]
  /\ UNCHANGED <<saves, target, versions, losses>>

Restart(p) ==
  /\ pc[p] = "down"
  /\ Goto(p, "idle")
  /\ UNCHANGED <<saves, returned, temp, target, versions, losses>>

(* Power is lost: the path names one of its versions, and of a file that   *)
(* was not flushed any part may be missing.                                *)
PowerLoss ==
  /\ losses < MaxLosses
  /\ losses' = losses + 1
  /\ \E f \in versions :
       IF f = Absent \/ f.synced THEN target' = f
       ELSE \E d \in {"empty", "part", f.data} : target' = [f EXCEPT !.data = d]
  /\ versions' = {target'}
  /\ pc' = [p \in Processes |-> "down"]
  /\ temp' = [p \in Processes |-> Absent]
  /\ returned' = [p \in Processes |-> "none"]
  /\ UNCHANGED saves

FNext ==
  \/ \E p \in Processes :
       \/ Marshal(p) \/ Create(p) \/ CreateFails(p) \/ Chmod(p) \/ WritePart(p)
       \/ WriteRest(p) \/ Sync(p) \/ Close(p) \/ Rename(p) \/ Fails(p)
       \/ Cleanup(p) \/ Crash(p) \/ Restart(p)
  \/ PowerLoss

FSpec == FInit /\ [][FNext]_fvars

----------------------------------------------------------------------------
(* README.md:228, "every entry is an atomic, versioned JSON file": whatever *)
(* is killed, fails or loses power, a reader finds no file or a whole one.  *)
NeverTorn == target # Absent => target.data = "whole"

(* WriteJSON replaces, it never removes: once there is a file, readers     *)
(* keep finding one (a power loss may take back the very first).           *)
NeverVanishes ==
  [][target # Absent /\ losses' = losses => target' # Absent]_fvars

(* The caller can believe the result: nil means that the path has named    *)
(* this save's file, an error that it never has.                           *)
ResultIsTruthful ==
  \A p \in Processes :
    LET installed == \E f \in versions \ {Absent} : f.save = <<p, saves[p]>> IN
    /\ returned[p] = "ok" => installed
    /\ returned[p] = "error" => ~installed
============================================================================
