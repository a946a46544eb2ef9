------------------------------ MODULE BundleBuild ------------------------------
(***************************************************************************)
(* The public bundle: its builder, setup.py around it, and processes that  *)
(* import the package.  A build leaves five things: the host table and the *)
(* Python records in the source tree, the directory of code objects, the   *)
(* shared sources of the code objects, and, under build_ext, the extension *)
(* compiled from the table.  A process reads extension and records when it *)
(* imports the package, and each code object when it first launches it.    *)
(***************************************************************************)
EXTENDS StagedInstall, Naturals

CONSTANTS
    Assembly,   \* the artifacts that are assembled, the others are HIP
    Processes,  \* processes that use the package
    MaxEdits    \* bound: edits of the generators and of the csrc headers

Versions == 1 .. MaxEdits + 1
Images == [recipe : Versions, header : Versions \cup {Absent}]
Directories == [files : [Artifacts -> Images \cup {Absent}]]

ASSUME BundleAssumption ==
    /\ Assembly \subseteq Artifacts /\ MaxEdits \in Nat
    /\ Absent \notin Versions /\ Absent \notin Images /\ Absent \notin Directories
    /\ Broken \notin Directories

VARIABLES
    recipe,    \* version of the generators on disk
    header,    \* version of the csrc headers on disk
    loaded,    \* recipe a builder has imported
    kind,      \* "bundle", or "build_ext" around it
    written,   \* sources of code objects a builder has written
    source,    \* what is in SOURCE_DIR, by the recipe it was emitted with
    table,     \* csrc/generated/mmq_bundle_table.cuh
    contract,  \* torch_ggml_ops/_deployment_records.py
    extension, \* _C.abi3.so, by the table it is compiled from
    whole,     \* the tree is what one undisturbed build_ext has left
    process    \* what each process has read

buildVars == <<recipe, header, loaded, kind, written, source>>
tree == <<table, contract, extension, whole>>
vars == <<installVars, buildVars, tree, process>>

NotStarted == [native |-> Absent, records |-> Absent, images |-> Unbuilt, clean |-> FALSE]

Init ==
    /\ pc = [b \in Builders |-> "idle"]
    /\ staging = [b \in Builders |-> Absent]
    /\ target = Absent /\ old = Absent
    /\ quiet = [b \in Builders |-> FALSE]
    /\ recipe = 1 /\ header = 1
    /\ loaded = [b \in Builders |-> 1]
    /\ kind = [b \in Builders |-> "bundle"]
    /\ written = [b \in Builders |-> {}]
    /\ source = Unbuilt
    /\ table = 1 /\ contract = 1 /\ extension = Absent /\ whole = FALSE
    /\ process = [p \in Processes |-> NotStarted]

(* A build that starts spoils the processes under way, too. *)
Main(b) ==
    /\ Begin(b, "write")
    /\ loaded' = [loaded EXCEPT ![b] = recipe]
    /\ \E k \in {"bundle", "build_ext"} : kind' = [kind EXCEPT ![b] = k]
    /\ written' = [written EXCEPT ![b] = {}]
    /\ staging' = [staging EXCEPT ![b] = [files |-> Unbuilt]]
    /\ process' = [p \in Processes |-> [process[p] EXCEPT !.clean = FALSE]]
    /\ whole' = FALSE
    /\ UNCHANGED <<target, old, recipe, header, source, table, contract, extension>>

(* The assembly writers run one after the other before anything is         *)
(* compiled; the wrapper of a HIP artifact is written by the pool.         *)
WriteSource(b, a) ==
    /\ a \notin written[b]
    /\ pc[b] = IF a \in Assembly THEN "write" ELSE "building"
    /\ source' = [source EXCEPT ![a] = loaded[b]]
    /\ written' = [written EXCEPT ![b] = @ \cup {a}]
    /\ UNCHANGED <<installVars, recipe, header, loaded, kind, tree, process>>

StartPool(b) ==
    /\ pc[b] = "write" /\ Assembly \subseteq written[b]
    /\ Goto(b, "building")
    /\ UNCHANGED <<staging, target, old, quiet, buildVars, tree, process>>

(* An assembled artifact reads its source only, a HIP artifact the headers *)
(* as they are, too.                                                       *)
Image(a) == [recipe |-> source[a], header |-> IF a \in Assembly THEN Absent ELSE header]

(* Fault: a source that is there is not written again. *)
CompileOldSource(b, a) ==
    /\ pc[b] = "building" /\ source[a] # Absent
    /\ staging[b].files[a] = Absent
    /\ staging' = [staging EXCEPT ![b].files[a] = Image(a)]
    /\ UNCHANGED <<pc, target, old, quiet, buildVars, tree, process>>

Compile(b, a) ==
    /\ pc[b] = "building" /\ a \in written[b]
    /\ staging[b].files[a] = Absent
    /\ staging' = [staging EXCEPT ![b].files[a] = Image(a)]
    /\ UNCHANGED <<pc, target, old, quiet, buildVars, tree, process>>

BuildFails(b) ==
    /\ \/ pc[b] = "write"
       \/ pc[b] = "building" /\ ~ Complete(staging[b])
    /\ staging' = [staging EXCEPT ![b] = Absent]
    /\ Goto(b, "failed")
    /\ UNCHANGED <<target, old, quiet, buildVars, tree, process>>

(* Fault: the install does not wait for the pool. *)
FinishEarly(b) ==
    /\ pc[b] = "building" /\ \E a \in Artifacts : staging[b].files[a] # Absent
    /\ Goto(b, "table")
    /\ UNCHANGED <<staging, target, old, quiet, buildVars, tree, process>>

FinishBuild(b) ==
    /\ pc[b] = "building" /\ Complete(staging[b])
    /\ Goto(b, "table")
    /\ UNCHANGED <<staging, target, old, quiet, buildVars, tree, process>>

WriteTable(b) ==
    /\ pc[b] = "table"
    /\ table' = loaded[b]
    /\ Goto(b, "contract")
    /\ UNCHANGED <<staging, target, old, quiet, buildVars, contract, extension, whole, process>>

(* Fault: the records of an earlier build are kept. *)
KeepContract(b) ==
    /\ pc[b] = "contract"
    /\ contract' = IF contract = Absent THEN loaded[b] ELSE contract
    /\ Goto(b, "clear")
    /\ UNCHANGED <<staging, target, old, quiet, buildVars, table, extension, whole, process>>

WriteContract(b) ==
    /\ pc[b] = "contract"
    /\ contract' = loaded[b]
    /\ Goto(b, "clear")
    /\ UNCHANGED <<staging, target, old, quiet, buildVars, table, extension, whole, process>>

(* A write may raise: the disk is full. *)
WriteRaises(b) ==
    /\ pc[b] \in {"table", "contract"}
    /\ Goto(b, "failed")
    /\ UNCHANGED <<staging, target, old, quiet, buildVars, tree, process>>

(* Under build_ext setup.py goes on when the builder is done.              *)
Finish(b) ==
    /\ pc[b] = "swept"
    /\ Goto(b, IF kind[b] = "build_ext" THEN "extension" ELSE "installed")
    /\ UNCHANGED <<staging, target, old, quiet, buildVars, tree, process>>

(* Fault: the extension does not depend on the table. *)
CompileIfMissing(b) ==
    /\ pc[b] = "extension"
    /\ extension' = IF extension = Absent THEN table ELSE extension
    /\ whole' = quiet[b]
    /\ Goto(b, "installed")
    /\ UNCHANGED <<staging, target, old, quiet, buildVars, table, contract, process>>

(* It compiles the extension from the table as it is now.                  *)
CompileExtension(b) ==
    /\ pc[b] = "extension"
    /\ extension' = table
    /\ whole' = quiet[b]
    /\ Goto(b, "installed")
    /\ UNCHANGED <<staging, target, old, quiet, buildVars, table, contract, process>>

ExtensionFails(b) ==
    /\ pc[b] = "extension"
    /\ Goto(b, "failed")
    /\ UNCHANGED <<staging, target, old, quiet, buildVars, tree, process>>

BuilderStep(b) ==
    \/ Main(b) \/ (\E a \in Artifacts : WriteSource(b, a) \/ Compile(b, a))
    \/ StartPool(b) \/ BuildFails(b) \/ FinishBuild(b)
    \/ WriteTable(b) \/ WriteContract(b) \/ WriteRaises(b)
    \/ Finish(b) \/ CompileExtension(b) \/ ExtensionFails(b)
    \/ InstallStep(b) /\ UNCHANGED <<buildVars, tree, process>>

(* Importing the package loads the extension first, the records after it.  *)
ImportExtension(p) ==
    /\ process[p].native = Absent /\ extension # Absent
    /\ process' = [process EXCEPT ![p].native = extension, ![p].clean = whole]
    /\ UNCHANGED <<installVars, buildVars, tree>>

ImportRecords(p) ==
    /\ process[p].native # Absent /\ process[p].records = Absent
    /\ process' = [process EXCEPT ![p].records = contract]
    /\ UNCHANGED <<installVars, buildVars, tree>>

(* The loader reads a code object once, at its first launch.               *)
LoadKernel(p, a) ==
    /\ process[p].records # Absent /\ process[p].images[a] = Absent
    /\ target # Absent
    /\ process' = [process EXCEPT ![p].images[a] = target.files[a]]
    /\ UNCHANGED <<installVars, buildVars, tree>>

Exit(p) ==
    /\ process[p].native # Absent
    /\ process' = [process EXCEPT ![p] = NotStarted]
    /\ UNCHANGED <<installVars, buildVars, tree>>

ProcessStep(p) ==
    \/ ImportExtension(p) \/ ImportRecords(p) \/ Exit(p)
    \/ \E a \in Artifacts : LoadKernel(p, a)

EditTo(r, h) ==
    /\ recipe' = r /\ header' = h
    /\ Disturb
    /\ UNCHANGED <<pc, staging, target, old, loaded, kind, written, source, tree, process>>

Edit ==
    /\ recipe + header < MaxEdits + 2
    /\ EditTo(recipe + 1, header) \/ EditTo(recipe, header + 1)

Next ==
    \/ \E b \in Builders : BuilderStep(b)
    \/ \E p \in Processes : ProcessStep(p)
    \/ Edit

Spec == Init /\ [][Next]_vars

-----------------------------------------------------------------------------
(* Type invariant: a builder installs complete staging directories only,   *)
(* and the target is absent or complete, whoever else installs.            *)
TypeOK ==
    /\ recipe \in Versions /\ header \in Versions
    /\ kind \in [Builders -> {"bundle", "build_ext"}]
    /\ written \in [Builders -> SUBSET Artifacts]
    /\ target # Absent => Complete(target)
    /\ \A b \in Builders :
         /\ pc[b] \in Ended \cup Installing
                \cup {"write", "building", "table", "contract", "extension"}
         /\ pc[b] \in {"table", "contract"} \cup {"clear", "clearing", "look", "move", "publish"}
                => Complete(staging[b])

(* A builder that nobody disturbs repairs whatever crashed, failed and     *)
(* concurrent ones left: table, records and code objects are then all of   *)
(* the sources on disk.                                                    *)
QuietBuildRepairs ==
    \A b \in Builders :
        quiet[b] =>
            /\ pc[b] # "stuck"
            /\ pc[b] = "installed" =>
                 /\ table = recipe /\ contract = recipe
                 /\ \A a \in Artifacts : target.files[a] = Image(a)
                 /\ \A a \in Artifacts : target.files[a].recipe = recipe
                 /\ kind[b] = "build_ext" => extension = table

(* A process that imports the package after an undisturbed build_ext, and  *)
(* before the next build starts, has an extension, records and code        *)
(* objects of one build, however late it loads them.                       *)
CleanProcessAgrees ==
    \A p \in Processes :
        process[p].clean /\ process[p].records # Absent =>
            /\ process[p].records = process[p].native
            /\ \A a \in Artifacts : process[p].images[a] # Absent =>
                   process[p].images[a].recipe = process[p].native
=============================================================================
