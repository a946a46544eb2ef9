---------------------------- MODULE StagedInstall -----------------------------
(***************************************************************************)
(* How both builders replace a directory of code objects: a staging        *)
(* directory of a fresh name is filled, the target is renamed to .old and  *)
(* the staging directory to the target.  Builders are processes; they may  *)
(* be killed between any two file operations, and nothing keeps two of     *)
(* them from running at once.                                              *)
(***************************************************************************)
CONSTANTS
    Builders,   \* builder processes
    Artifacts,  \* code objects of one build
    Absent,     \* a file or directory that is not there
    Broken      \* a directory some files of which are removed

VARIABLES
    pc,       \* where a builder is
    staging,  \* its staging directory
    target,   \* the directory consumers read
    old,      \* the .old directory beside it
    quiet     \* nothing has disturbed the builder since it started

installVars == <<pc, staging, target, old, quiet>>

Ended == {"idle", "current", "failed", "stuck", "crashed", "installed"}
Installing == {"clear", "clearing", "look", "move", "publish", "sweep", "sweeping", "swept"}
Live(b) == pc[b] \notin Ended

Unbuilt == [a \in Artifacts |-> Absent]
Complete(dir) == dir \notin {Absent, Broken} /\ \A a \in Artifacts : dir.files[a] # Absent

Goto(b, place) == pc' = [pc EXCEPT ![b] = place]

(* A builder that starts disturbs, and is disturbed by, every other one    *)
(* that has not ended; what an ended one left is disturbed too.            *)
Begin(b, place) ==
    /\ ~ Live(b)
    /\ Goto(b, place)
    /\ quiet' = [x \in Builders |-> x = b /\ \A y \in Builders \ {b} : ~ Live(y)]

Disturb == quiet' = [b \in Builders |-> FALSE]

(* Fault: .old is only cleared behind the renames. *)
StartClearLate(b) ==
    /\ pc[b] \in {"clear", "sweep"}
    /\ old' = IF pc[b] = "clear" \/ old = Absent THEN old ELSE Broken
    /\ Goto(b, IF pc[b] = "clear" THEN "clearing" ELSE "sweeping")
    /\ UNCHANGED <<staging, target, quiet>>

(* shutil.rmtree(old, ignore_errors=True), before and after the renames.   *)
StartClear(b) ==
    /\ pc[b] \in {"clear", "sweep"}
    /\ old' = IF old = Absent THEN Absent ELSE Broken
    /\ Goto(b, IF pc[b] = "clear" THEN "clearing" ELSE "sweeping")
    /\ UNCHANGED <<staging, target, quiet>>

EndClear(b) ==
    /\ pc[b] \in {"clearing", "sweeping"}
    /\ old' = IF old = Broken THEN Absent ELSE old
    /\ Goto(b, IF pc[b] = "clearing" THEN "look" ELSE "swept")
    /\ UNCHANGED <<staging, target, quiet>>

(* target.exists() *)
Look(b) ==
    /\ pc[b] = "look"
    /\ Goto(b, IF target = Absent THEN "publish" ELSE "move")
    /\ UNCHANGED <<staging, target, old, quiet>>

(* target.rename(old) *)
MoveAway(b) ==
    /\ pc[b] = "move"
    /\ target # Absent /\ old = Absent
    /\ old' = target
    /\ target' = Absent
    /\ Goto(b, "publish")
    /\ UNCHANGED <<staging, quiet>>

(* staging.rename(target) *)
Publish(b) ==
    /\ pc[b] = "publish"
    /\ target = Absent
    /\ target' = staging[b]
    /\ staging' = [staging EXCEPT ![b] = Absent]
    /\ Goto(b, "sweep")
    /\ UNCHANGED <<old, quiet>>

(* A rename raises when its source is gone or its destination is in use;   *)
(* nobody removes the staging directory any more.                          *)
RenameRaises(b) ==
    /\ \/ pc[b] = "move" /\ (target = Absent \/ old # Absent)
       \/ pc[b] = "publish" /\ target # Absent
    /\ Goto(b, "stuck")
    /\ UNCHANGED <<staging, target, old, quiet>>

(* The process is killed; what it has on disk stays. *)
Crash(b) ==
    /\ Live(b)
    /\ Goto(b, "crashed")
    /\ UNCHANGED <<staging, target, old, quiet>>

InstallStep(b) ==
    \/ StartClear(b) \/ EndClear(b) \/ Look(b)
    \/ MoveAway(b) \/ Publish(b) \/ RenameRaises(b) \/ Crash(b)
=============================================================================
