--------------------------- MODULE HipControlsBuild ---------------------------
(***************************************************************************)
(* The builder of the HIP controls with its freshness stamp.  The digest   *)
(* of the build inputs is taken before the build and written after it, the *)
(* compiler reads the headers in between, and the Python sources are read  *)
(* twice: by the import that started the process, and by the digest.       *)
(* Whoever works on the repository may edit either at any time.  Staging   *)
(* directories are private; the wrapper sources are written to one         *)
(* directory that all builders share.                                      *)
(***************************************************************************)
EXTENDS StagedInstall, Naturals

CONSTANTS
    MaxRecipe,  \* bound: versions of tools/*.py and the catalogs
    MaxHeader,  \* bound: versions of the csrc headers
    MaxEdits,   \* bound: edits of either in one behaviour
    Modes       \* command lines in use, of "plain", "force" and "verify"

VARIABLES
    recipe,  \* version of the Python sources and catalogs on disk
    header,  \* version of the headers on disk
    loaded,  \* recipe a builder has imported
    mode,    \* its command line
    digest,  \* its digest of the build inputs
    second,  \* artifacts of the second build of --verify-reproducible
    wrapper, \* wrapper sources in SOURCE_DIR, by the recipe that rendered them
    wrote,   \* wrappers a builder has written in its present build
    mixed    \* builders of different recipes have been at work at once

sources == <<recipe, header>>
rendering == <<wrapper, wrote, mixed>>
vars == <<installVars, sources, loaded, mode, digest, second, rendering>>

Recipes == 1..MaxRecipe
Headers == 1..MaxHeader
Images == [recipe : Recipes, header : Headers]
Digests == [recipe : Recipes, header : Headers, rendered : Recipes]
Directories == [files : [Artifacts -> Images \cup {Absent}], stamp : Digests \cup {Absent}]

ASSUME ControlsAssumption ==
    /\ MaxRecipe \in Nat /\ MaxRecipe > 0
    /\ MaxHeader \in Nat /\ MaxHeader > 0
    /\ Modes \subseteq {"plain", "force", "verify"}
    /\ Absent \notin Images /\ Absent \notin Digests /\ Absent \notin Directories
    /\ Broken \notin Directories

Init ==
    /\ pc = [b \in Builders |-> "idle"]
    /\ staging = [b \in Builders |-> Absent]
    /\ target = Absent /\ old = Absent
    /\ quiet = [b \in Builders |-> FALSE]
    /\ recipe = 1 /\ header = 1
    /\ loaded = [b \in Builders |-> 1]
    /\ mode \in [Builders -> Modes]
    /\ digest = [b \in Builders |-> Absent]
    /\ second = [b \in Builders |-> Unbuilt]
    /\ wrapper = Unbuilt
    /\ wrote = [b \in Builders |-> {}]
    /\ mixed = FALSE

(* Fault: the digest is of the files only, not of what is rendered. *)
DigestOfFiles(imported) == [recipe |-> recipe, header |-> header, rendered |-> recipe]

(* The bytes of every input file, and the wrappers as the imported code    *)
(* renders them.                                                           *)
DigestNow(imported) == [recipe |-> recipe, header |-> header, rendered |-> imported]

IsCurrent(d) == Complete(target) /\ target.stamp = d

Main(b) ==
    /\ Begin(b, "digest")
    /\ loaded' = [loaded EXCEPT ![b] = recipe]
    /\ \E m \in Modes : mode' = [mode EXCEPT ![b] = m]
    /\ staging' = [staging EXCEPT ![b] = Absent]
    /\ second' = [second EXCEPT ![b] = Unbuilt]
    /\ wrote' = [wrote EXCEPT ![b] = {}]
    /\ mixed' = (mixed \/ \E c \in Builders : Live(c) /\ loaded[c] # recipe)
    /\ UNCHANGED <<target, old, sources, digest, wrapper>>

TakeDigest(b) ==
    /\ pc[b] = "digest"
    /\ digest' = [digest EXCEPT ![b] = DigestNow(loaded[b])]
    /\ Goto(b, "decide")
    /\ UNCHANGED <<staging, target, old, quiet, sources, loaded, mode, second, rendering>>

SkipCurrent(b) ==
    /\ pc[b] = "decide"
    /\ mode[b] = "plain" /\ IsCurrent(digest[b])
    /\ Goto(b, "current")
    /\ UNCHANGED <<staging, target, old, quiet, sources, loaded, mode, digest, second, rendering>>

MakeStaging(b) ==
    /\ pc[b] = "decide"
    /\ mode[b] # "plain" \/ ~ IsCurrent(digest[b])
    /\ staging' = [staging EXCEPT ![b] = [files |-> Unbuilt, stamp |-> Absent]]
    /\ Goto(b, "building")
    /\ UNCHANGED <<target, old, quiet, sources, loaded, mode, digest, second, rendering>>

(* render_control goes through a file other builders write, too.           *)
WriteWrapper(b, a) ==
    /\ pc[b] \in {"building", "rebuilding"}
    /\ a \notin wrote[b]
    /\ wrapper' = [wrapper EXCEPT ![a] = loaded[b]]
    /\ wrote' = [wrote EXCEPT ![b] = @ \cup {a}]
    /\ UNCHANGED <<installVars, sources, loaded, mode, digest, second, mixed>>

Image(a) == [recipe |-> wrapper[a], header |-> header]

WithFile(dir, a, image) ==
    [files |-> [dir.files EXCEPT ![a] = image], stamp |-> dir.stamp]

(* Fault: a wrapper that is there is not written again. *)
CompileOldWrapper(b, a) ==
    /\ pc[b] = "building" /\ wrapper[a] # Absent
    /\ staging[b].files[a] = Absent
    /\ staging' = [staging EXCEPT ![b] = WithFile(@, a, Image(a))]
    /\ UNCHANGED <<pc, target, old, quiet, sources, loaded, mode, digest, second, rendering>>

(* The pool compiles and verifies the controls in any order. *)
Compile(b, a) ==
    /\ pc[b] = "building" /\ a \in wrote[b]
    /\ staging[b].files[a] = Absent
    /\ staging' = [staging EXCEPT ![b] = WithFile(@, a, Image(a))]
    /\ UNCHANGED <<pc, target, old, quiet, sources, loaded, mode, digest, second, rendering>>

CompileFails(b) ==
    /\ pc[b] = "building" /\ ~ Complete(staging[b])
    /\ staging' = [staging EXCEPT ![b] = Absent]
    /\ Goto(b, "failed")
    /\ UNCHANGED <<target, old, quiet, sources, loaded, mode, digest, second, rendering>>

(* Fault: the install does not wait for the pool. *)
FinishEarly(b) ==
    /\ pc[b] = "building" /\ \E a \in Artifacts : staging[b].files[a] # Absent
    /\ Goto(b, IF mode[b] = "verify" THEN "rebuilding" ELSE "stamp")
    /\ wrote' = [wrote EXCEPT ![b] = {}]
    /\ UNCHANGED <<staging, target, old, quiet, sources, loaded, mode, digest, second, wrapper, mixed>>

FinishBuild(b) ==
    /\ pc[b] = "building" /\ Complete(staging[b])
    /\ Goto(b, IF mode[b] = "verify" THEN "rebuilding" ELSE "stamp")
    /\ wrote' = [wrote EXCEPT ![b] = {}]
    /\ UNCHANGED <<staging, target, old, quiet, sources, loaded, mode, digest, second, wrapper, mixed>>

Recompile(b, a) ==
    /\ pc[b] = "rebuilding" /\ a \in wrote[b]
    /\ second[b][a] = Absent
    /\ second' = [second EXCEPT ![b][a] = Image(a)]
    /\ UNCHANGED <<pc, staging, target, old, quiet, sources, loaded, mode, digest, rendering>>

RecompileFails(b) ==
    /\ pc[b] = "rebuilding" /\ \E a \in Artifacts : second[b][a] = Absent
    /\ Goto(b, "failed")
    /\ UNCHANGED <<staging, target, old, quiet, sources, loaded, mode, digest, second, rendering>>

(* Fault: the two builds are not compared. *)
CompareNothing(b) ==
    /\ pc[b] = "rebuilding" /\ \A a \in Artifacts : second[b][a] # Absent
    /\ Goto(b, "stamp")
    /\ UNCHANGED <<staging, target, old, quiet, sources, loaded, mode, digest, second, rendering>>

Compare(b) ==
    /\ pc[b] = "rebuilding" /\ \A a \in Artifacts : second[b][a] # Absent
    /\ IF second[b] = staging[b].files
       THEN Goto(b, "stamp") /\ UNCHANGED staging
       ELSE Goto(b, "failed") /\ staging' = [staging EXCEPT ![b] = Absent]
    /\ UNCHANGED <<target, old, quiet, sources, loaded, mode, digest, second, rendering>>

WriteStamp(b) ==
    /\ pc[b] = "stamp"
    /\ staging' = [staging EXCEPT ![b].stamp = digest[b]]
    /\ Goto(b, "clear")
    /\ UNCHANGED <<target, old, quiet, sources, loaded, mode, digest, second, rendering>>

(* The stamp may not get written: the disk is full. *)
StampRaises(b) ==
    /\ pc[b] = "stamp"
    /\ Goto(b, "failed")
    /\ UNCHANGED <<staging, target, old, quiet, sources, loaded, mode, digest, second, rendering>>

Finish(b) ==
    /\ pc[b] = "swept"
    /\ Goto(b, "installed")
    /\ UNCHANGED <<staging, target, old, quiet, sources, loaded, mode, digest, second, rendering>>

BuilderStep(b) ==
    \/ Main(b) \/ TakeDigest(b) \/ SkipCurrent(b) \/ MakeStaging(b)
    \/ (\E a \in Artifacts : WriteWrapper(b, a) \/ Compile(b, a) \/ Recompile(b, a))
    \/ CompileFails(b) \/ FinishBuild(b) \/ RecompileFails(b) \/ Compare(b)
    \/ WriteStamp(b) \/ StampRaises(b) \/ Finish(b)
    \/ InstallStep(b) /\ UNCHANGED <<sources, loaded, mode, digest, second, rendering>>

EditTo(r, h) ==
    /\ recipe' = r /\ header' = h
    /\ Disturb
    /\ UNCHANGED <<pc, staging, target, old, loaded, mode, digest, second, rendering>>

Edit ==
    /\ recipe + header < MaxEdits + 2
    /\ \/ recipe < MaxRecipe /\ EditTo(recipe + 1, header)
       \/ header < MaxHeader /\ EditTo(recipe, header + 1)

Next == (\E b \in Builders : BuilderStep(b)) \/ Edit

Spec == Init /\ [][Next]_vars

-----------------------------------------------------------------------------
(* Type invariant: what a builder has in staging follows its place.        *)
TypeOK ==
    /\ recipe \in Recipes /\ header \in Headers
    /\ quiet \in [Builders -> BOOLEAN] /\ mode \in [Builders -> Modes]
    /\ \A b \in Builders :
         /\ pc[b] \in Ended \cup Installing
                \cup {"digest", "decide", "building", "rebuilding", "stamp"}
         /\ pc[b] \in {"rebuilding", "stamp"} => Complete(staging[b])
         /\ pc[b] \in {"clear", "clearing", "look", "move", "publish"} =>
                Complete(staging[b]) /\ staging[b].stamp # Absent
         /\ pc[b] \in {"sweep", "sweeping", "swept", "installed", "current"} => staging[b] = Absent

(* Wherever builders are killed, and whoever else installs, the target is  *)
(* absent or complete; unless builders of different recipes have met in    *)
(* SOURCE_DIR it is one rendering of every wrapper, the one its stamp is   *)
(* of.                                                                     *)
TargetIsOneBuild ==
    target # Absent =>
        /\ Complete(target)
        /\ ~ mixed => \A a \in Artifacts : target.files[a].recipe = target.stamp.rendered

(* --check accepts only artifacts compiled from the sources as they are,   *)
(* although sources change while they are hashed and compiled, and         *)
(* builders of one recipe run side by side.                                *)
CheckIsSound ==
    ~ mixed /\ IsCurrent(DigestNow(recipe)) =>
        \A a \in Artifacts : target.files[a] = [recipe |-> recipe, header |-> header]

(* A build that has passed --verify-reproducible is of one version of the  *)
(* headers, whenever they were edited.                                     *)
VerifiedIsUniform ==
    \A b \in Builders :
        mode[b] = "verify" /\ pc[b] = "stamp" =>
            \A a, c \in Artifacts : staging[b].files[a].header = staging[b].files[c].header

(* A build nobody disturbs gets past whatever wreck earlier ones left      *)
(* behind, and what it installs is of the sources on disk and accepted.    *)
QuietBuildRepairs ==
    \A b \in Builders :
        quiet[b] => /\ pc[b] # "stuck"
                    /\ pc[b] = "installed" =>
                           /\ IsCurrent(DigestNow(recipe))
                           /\ \A a \in Artifacts : target.files[a] = [recipe |-> recipe, header |-> header]
=============================================================================
