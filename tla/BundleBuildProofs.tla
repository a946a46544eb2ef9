---------------------------- MODULE BundleBuildProofs ----------------------------
(***************************************************************************)
(* Safety of the bundle build and of the processes that import what it     *)
(* leaves, for any number of builders, processes, artifacts and edits.     *)
(* Builders may overwrite each other's sources, table and records, so the  *)
(* properties are about builds nobody disturbs; the invariant says where   *)
(* such a build stands, and what a process has seen of its result.         *)
(***************************************************************************)
EXTENDS BundleBuild, TLAPS

-----------------------------------------------------------------------------
(* The renames of an undisturbed builder: it is the only one at work, so    *)
(* what it has looked at is still so when it renames, and none of its       *)
(* renames raises.                                                          *)

(* Places where what is known of target or .old matters.                   *)
Renaming == {"clearing", "look", "move", "publish", "stuck"}

Undisturbed(b) ==
    /\ \A y \in Builders \ {b} : ~ Live(y)
    /\ pc[b] # "stuck"
    /\ pc[b] = "clearing" => old \in {Absent, Broken}
    /\ pc[b] \in {"look", "move"} => old = Absent
    /\ pc[b] = "move" => target # Absent
    /\ pc[b] = "publish" => target = Absent

QuietRenames == \A b \in Builders : quiet[b] => Undisturbed(b)

Functional == pc = [b \in Builders |-> pc[b]] /\ quiet = [b \in Builders |-> quiet[b]]

(* A step of a builder at work leaves no other builder quiet, and what it  *)
(* does to the place of the only one at work.                              *)
LEMMA LiveStep ==
    ASSUME Functional, QuietRenames, NEW b \in Builders, Live(b), UNCHANGED quiet,
           \A y \in Builders \ {b} : pc'[y] = pc[y],
           Undisturbed(b) =>
               /\ pc'[b] # "stuck"
               /\ pc'[b] = "clearing" => old' \in {Absent, Broken}
               /\ pc'[b] \in {"look", "move"} => old' = Absent
               /\ pc'[b] = "move" => target' # Absent
               /\ pc'[b] = "publish" => target' = Absent
    PROVE  QuietRenames'
  <1> SUFFICES ASSUME NEW x \in Builders, quiet[x] PROVE Undisturbed(x)'
    BY DEF QuietRenames
  <1>1. Undisturbed(x)
    BY DEF QuietRenames
  <1>2. x = b
    BY <1>1 DEF Undisturbed
  <1> QED
    BY <1>1, <1>2 DEF Undisturbed, Live

(* A builder that moves outside the renames. *)
LEMMA QuietElsewhere ==
    ASSUME Functional, QuietRenames, NEW b \in Builders, Live(b), UNCHANGED quiet,
           NEW place, place \notin Renaming, Goto(b, place)
    PROVE  QuietRenames'
  <1>1. pc'[b] = place /\ \A y \in Builders \ {b} : pc'[y] = pc[y]
    BY DEF Goto, Functional
  <1> QED
    BY <1>1, LiveStep DEF Renaming

(* A builder that starts is quiet if it is alone, and no other one is.     *)
LEMMA QuietBegins ==
    ASSUME Functional, QuietRenames, NEW b \in Builders,
           NEW place, place \notin Renaming, Begin(b, place)
    PROVE  QuietRenames'
  <1>1. pc'[b] = place /\ \A y \in Builders \ {b} : pc'[y] = pc[y]
    BY DEF Begin, Goto, Functional
  <1>2. ASSUME NEW x \in Builders, quiet'[x] PROVE x = b /\ \A y \in Builders \ {b} : ~ Live(y)
    BY <1>2 DEF Begin
  <1> QED
    BY <1>1, <1>2 DEF QuietRenames, Undisturbed, Live, Renaming

LEMMA QuietInstalls ==
    ASSUME Functional, QuietRenames, NEW b \in Builders, InstallStep(b)
    PROVE  QuietRenames'
  <1>1. Live(b) /\ UNCHANGED quiet
    BY DEF InstallStep, StartClear, EndClear, Look, MoveAway, Publish, RenameRaises, Crash,
           Live, Ended
  <1>2. ASSUME NEW place, Goto(b, place)
        PROVE  pc'[b] = place /\ \A y \in Builders \ {b} : pc'[y] = pc[y]
    BY <1>2 DEF Goto, Functional
  <1>3. CASE StartClear(b)
    BY <1>1, <1>2, <1>3, LiveStep DEF StartClear
  <1>4. CASE EndClear(b)
    BY <1>1, <1>2, <1>4, LiveStep DEF EndClear, Undisturbed
  <1>5. CASE Look(b)
    BY <1>1, <1>2, <1>5, LiveStep DEF Look, Undisturbed
  <1>6. CASE MoveAway(b)
    BY <1>1, <1>2, <1>6, LiveStep DEF MoveAway
  <1>7. CASE Publish(b)
    BY <1>1, <1>2, <1>7, LiveStep DEF Publish
  <1>8. CASE RenameRaises(b)
    BY <1>1, <1>2, <1>8, LiveStep DEF RenameRaises, Undisturbed
  <1>9. CASE Crash(b)
    BY <1>1, <1>2, <1>9, LiveStep DEF Crash
  <1> QED
    BY <1>3, <1>4, <1>5, <1>6, <1>7, <1>8, <1>9 DEF InstallStep

(* An undisturbed builder is never stuck at a rename.                      *)
LEMMA QuietNotStuck ==
    ASSUME QuietRenames, NEW b \in Builders, quiet[b]
    PROVE  pc[b] # "stuck"
  BY DEF QuietRenames, Undisturbed

-----------------------------------------------------------------------------
Compiling == {"write", "building"}
Filled == {"table", "contract", "clear", "clearing", "look", "move", "publish"}
Places == Ended \cup Installing \cup Compiling \cup {"table", "contract", "extension"}

BuilderInv(p, s) ==
    /\ p \in Compiling => s \in Directories
    /\ p \in Filled => s \in Directories /\ \A a \in Artifacts : s.files[a] # Absent

Installed(t) == t \in Directories /\ \A a \in Artifacts : t.files[a] # Absent

Shape ==
    /\ pc \in [Builders -> Places] /\ quiet \in [Builders -> BOOLEAN]
    /\ staging = [b \in Builders |-> staging[b]]
    /\ recipe \in Nat \ {0} /\ header \in Nat \ {0} /\ recipe + header <= MaxEdits + 2
    /\ loaded \in [Builders -> Versions]
    /\ kind \in [Builders -> {"bundle", "build_ext"}]
    /\ written \in [Builders -> SUBSET Artifacts]
    /\ source \in [Artifacts -> Versions \cup {Absent}]
    /\ table \in Versions /\ contract \in Versions /\ extension \in Versions \cup {Absent}
    /\ whole \in BOOLEAN

(* Whoever is at work, a builder compiles sources that are there and       *)
(* installs a complete directory.                                          *)
Core ==
    /\ Shape
    /\ \A b \in Builders : BuilderInv(pc[b], staging[b])
    /\ \A b \in Builders : \A a \in written[b] : source[a] # Absent
    /\ target # Absent => Installed(target)

Record == [native : Versions \cup {Absent}, records : Versions \cup {Absent},
           images : [Artifacts -> Images \cup {Absent}], clean : BOOLEAN]

(* A process reads extension, records and code objects in this order.      *)
Reads ==
    /\ process \in [Processes -> Record]
    /\ \A p \in Processes :
         /\ process[p].native = Absent => process[p].records = Absent
         /\ process[p].records = Absent => process[p].images = Unbuilt

LEMMA VersionsBound ==
    ASSUME Shape
    PROVE  recipe \in Versions /\ header \in Versions
  BY BundleAssumption DEF Shape, Versions

LEMMA InitCore == Init => Core /\ Reads
  <1> SUFFICES ASSUME Init PROVE Core /\ Reads
    OBVIOUS
  <1>1. 1 \in Versions
    BY BundleAssumption DEF Versions
  <1>2. Shape
    <2>1. recipe \in Nat \ {0} /\ header \in Nat \ {0} /\ recipe + header <= MaxEdits + 2
      BY BundleAssumption DEF Init
    <2>2. loaded \in [Builders -> Versions] /\ table \in Versions /\ contract \in Versions
      BY <1>1 DEF Init
    <2>3. source \in [Artifacts -> Versions \cup {Absent}]
      BY DEF Init, Unbuilt
    <2>4. pc \in [Builders -> Places] /\ staging = [b \in Builders |-> staging[b]]
      BY DEF Init, Places, Ended
    <2> QED
      BY <2>1, <2>2, <2>3, <2>4 DEF Init, Shape
  <1>3. Unbuilt \in [Artifacts -> Images \cup {Absent}]
    BY DEF Unbuilt
  <1>4. NotStarted \in Record
    BY <1>3 DEF NotStarted, Record
  <1>5. Reads
    BY <1>4 DEF Init, Reads, NotStarted
  <1> QED
    BY <1>2, <1>5 DEF Init, Core, BuilderInv, Compiling, Filled

(* The staging directory and the target in a step of a builder.            *)
LEMMA BuilderMoves ==
    ASSUME Core, NEW b \in Builders, BuilderStep(b)
    PROVE  /\ BuilderInv(pc'[b], staging'[b])
           /\ \A x \in Builders \ {b} : pc'[x] = pc[x] /\ staging'[x] = staging[x]
           /\ pc' \in [Builders -> Places] /\ staging' = [x \in Builders |-> staging'[x]]
           /\ target' # Absent => Installed(target')
  <1> USE DEF Core, Shape, Goto
  <1>1. BuilderInv(pc[b], staging[b]) /\ (target # Absent => Installed(target))
    OBVIOUS
  <1>2. CASE Main(b)
    <2>1. /\ pc' = [pc EXCEPT ![b] = "write"] /\ UNCHANGED target
          /\ staging' = [staging EXCEPT ![b] = [files |-> Unbuilt]]
      BY <1>2 DEF Main, Begin
    <2>2. [files |-> Unbuilt] \in Directories
      BY DEF Directories, Unbuilt
    <2> QED
      BY <2>1, <2>2 DEF BuilderInv, Compiling, Filled, Places
  <1>3. ASSUME NEW a \in Artifacts, Compile(b, a)
        PROVE  /\ UNCHANGED <<pc, target>>
               /\ BuilderInv(pc'[b], staging'[b])
               /\ \A x \in Builders \ {b} : staging'[x] = staging[x]
               /\ staging' = [x \in Builders |-> staging'[x]]
    <2>1. /\ pc[b] = "building" /\ a \in written[b] /\ UNCHANGED <<pc, target>>
          /\ staging' = [staging EXCEPT ![b].files[a] = Image(a)]
      BY <1>3 DEF Compile
    <2>2. staging[b] \in Directories
      BY <2>1 DEF BuilderInv, Compiling
    <2>3. Image(a) \in Images
      <3>1. source[a] \in Versions
        BY <2>1
      <3> QED
        BY <3>1, VersionsBound DEF Image, Images
    <2>4. staging'[b] = [staging[b] EXCEPT !.files[a] = Image(a)]
      BY <2>1
    <2>5. staging'[b] \in Directories
      BY <2>2, <2>3, <2>4 DEF Directories
    <2> QED
      BY <2>1, <2>5 DEF BuilderInv, Filled
  <1>4. CASE \E a \in Artifacts : WriteSource(b, a)
    BY <1>4 DEF WriteSource, installVars
  <1>5. CASE BuildFails(b)
    <2>1. pc' = [pc EXCEPT ![b] = "failed"] /\ UNCHANGED target
          /\ staging' = [staging EXCEPT ![b] = Absent]
      BY <1>5 DEF BuildFails
    <2> QED
      BY <2>1 DEF BuilderInv, Compiling, Filled, Places, Ended
  <1>6. CASE Publish(b)
    <2>1. /\ pc[b] = "publish" /\ pc' = [pc EXCEPT ![b] = "sweep"]
          /\ target' = staging[b] /\ staging' = [staging EXCEPT ![b] = Absent]
      BY <1>6 DEF Publish
    <2>2. Installed(staging[b])
      BY <2>1 DEF BuilderInv, Filled, Installed
    <2> QED
      BY <2>1, <2>2 DEF BuilderInv, Compiling, Filled, Places, Installing
  <1>7. CASE FinishBuild(b)
    <2>1. /\ pc[b] = "building" /\ pc' = [pc EXCEPT ![b] = "table"] /\ UNCHANGED <<staging, target>>
          /\ \A a \in Artifacts : staging[b].files[a] # Absent
      BY <1>7 DEF FinishBuild, Complete
    <2> QED
      BY <2>1 DEF BuilderInv, Compiling, Places
  <1>8. CASE \/ StartPool(b) \/ WriteTable(b) \/ WriteContract(b) \/ WriteRaises(b) \/ Finish(b)
             \/ CompileExtension(b) \/ ExtensionFails(b)
    <2>1. /\ UNCHANGED <<staging, target>>
          /\ \E place : /\ pc' = [pc EXCEPT ![b] = place]
                        /\ \/ pc[b] = "write" /\ place = "building"
                           \/ pc[b] \in Filled /\ place \in {"contract", "clear"}
                           \/ place \in {"failed", "extension", "installed"}
      BY <1>8 DEF StartPool, WriteTable, WriteContract, WriteRaises, Finish, CompileExtension,
                  ExtensionFails, Filled
    <2> QED
      BY <2>1 DEF BuilderInv, Compiling, Filled, Places, Ended, Installing
  <1>9. CASE StartClear(b) \/ EndClear(b) \/ Look(b) \/ RenameRaises(b) \/ Crash(b)
    <2>1. /\ UNCHANGED <<staging, target>>
          /\ \E place : /\ pc' = [pc EXCEPT ![b] = place]
                        /\ \/ pc[b] \in Filled /\ place \in {"clearing", "look", "move", "publish"}
                           \/ place \in {"sweeping", "swept", "stuck", "crashed"}
      BY <1>9 DEF StartClear, EndClear, Look, RenameRaises, Crash, Filled
    <2> QED
      BY <2>1 DEF BuilderInv, Compiling, Filled, Places, Ended, Installing
  <1>10. CASE MoveAway(b)
    <2>1. /\ pc[b] = "move" /\ pc' = [pc EXCEPT ![b] = "publish"] /\ UNCHANGED staging
          /\ target' = Absent
      BY <1>10 DEF MoveAway
    <2> QED
      BY <2>1 DEF BuilderInv, Compiling, Filled, Places, Installing
  <1> QED
    BY <1>1, <1>2, <1>3, <1>4, <1>5, <1>6, <1>7, <1>8, <1>9, <1>10 DEF BuilderStep, InstallStep

(* The rest of the tree in a step of a builder. *)
LEMMA BuilderWrites ==
    ASSUME Core, NEW b \in Builders, BuilderStep(b)
    PROVE  Shape' /\ \A x \in Builders : \A a \in written'[x] : source'[a] # Absent
  <1> USE DEF Core, Shape
  <1>1. pc' \in [Builders -> Places] /\ staging' = [x \in Builders |-> staging'[x]]
    BY BuilderMoves
  <1>2. CASE Main(b)
    <2>1. /\ \E k \in {"bundle", "build_ext"} : kind' = [kind EXCEPT ![b] = k]
          /\ loaded' = [loaded EXCEPT ![b] = recipe] /\ written' = [written EXCEPT ![b] = {}]
          /\ quiet' \in [Builders -> BOOLEAN]
          /\ whole' = FALSE
          /\ UNCHANGED <<recipe, header, source, table, contract, extension>>
      BY <1>2 DEF Main, Begin
    <2> QED
      BY <1>1, <2>1, VersionsBound
  <1>3. ASSUME NEW a \in Artifacts, WriteSource(b, a)
        PROVE  Shape' /\ \A x \in Builders : \A c \in written'[x] : source'[c] # Absent
    <2>1. /\ source' = [source EXCEPT ![a] = loaded[b]]
          /\ written' = [written EXCEPT ![b] = @ \cup {a}]
          /\ UNCHANGED <<installVars, recipe, header, loaded, kind, tree>>
      BY <1>3 DEF WriteSource
    <2>2. loaded[b] \in Versions /\ loaded[b] # Absent
      BY BundleAssumption
    <2> QED
      BY <1>1, <2>1, <2>2 DEF installVars, tree
  <1>4. CASE WriteTable(b) \/ WriteContract(b)
    <2>1. /\ table' \in Versions /\ contract' \in Versions
          /\ UNCHANGED <<quiet, buildVars, extension, whole>>
      BY <1>4 DEF WriteTable, WriteContract
    <2> QED
      BY <1>1, <2>1 DEF buildVars
  <1>5. CASE CompileExtension(b)
    BY <1>1, <1>5 DEF CompileExtension, buildVars
  <1>6. CASE \/ StartPool(b) \/ BuildFails(b) \/ FinishBuild(b) \/ WriteRaises(b) \/ Finish(b)
             \/ ExtensionFails(b) \/ (\E a \in Artifacts : Compile(b, a))
             \/ InstallStep(b) /\ UNCHANGED <<buildVars, tree, process>>
    <2>1. UNCHANGED <<quiet, buildVars, tree>>
      BY <1>6 DEF StartPool, BuildFails, FinishBuild, WriteRaises, Finish, ExtensionFails, Compile,
          InstallStep, StartClear, EndClear, Look, MoveAway, Publish, RenameRaises, Crash
    <2> QED
      BY <1>1, <2>1 DEF buildVars, tree
  <1> QED
    BY <1>2, <1>3, <1>4, <1>5, <1>6 DEF BuilderStep

LEMMA NextCore == Core /\ [Next]_vars => Core'
  <1> SUFFICES ASSUME Core, [Next]_vars PROVE Core'
    OBVIOUS
  <1>1. ASSUME NEW b \in Builders, BuilderStep(b) PROVE Core'
    <2>1. \A x \in Builders : BuilderInv(pc[x], staging[x])
      BY DEF Core
    <2>2. /\ BuilderInv(pc'[b], staging'[b])
          /\ \A x \in Builders \ {b} : pc'[x] = pc[x] /\ staging'[x] = staging[x]
          /\ target' # Absent => Installed(target')
      BY <1>1, BuilderMoves
    <2>3. \A x \in Builders : BuilderInv(pc'[x], staging'[x])
      BY <2>1, <2>2
    <2> QED
      BY <1>1, <2>2, <2>3, BuilderWrites DEF Core
  <1>2. CASE \E p \in Processes : ProcessStep(p)
    <2>1. UNCHANGED <<installVars, buildVars, tree>>
      BY <1>2 DEF ProcessStep, ImportExtension, ImportRecords, LoadKernel, Exit
    <2> QED
      BY <2>1 DEF Core, Shape, installVars, buildVars, tree
  <1>3. CASE Edit
    <2>1. /\ UNCHANGED <<pc, staging, target, old, loaded, kind, written, source, tree>>
          /\ quiet' \in [Builders -> BOOLEAN]
      BY <1>3 DEF Edit, EditTo, Disturb
    <2>2. recipe' \in Nat \ {0} /\ header' \in Nat \ {0} /\ recipe' + header' <= MaxEdits + 2
      BY <1>3, BundleAssumption DEF Edit, EditTo, Core, Shape
    <2> QED
      BY <2>1, <2>2 DEF Core, Shape, tree
  <1>4. CASE UNCHANGED vars
    BY <1>4 DEF Core, Shape, vars, installVars, buildVars, tree
  <1> QED
    BY <1>1, <1>2, <1>3, <1>4 DEF Next

(* The builders may run, crash and overwrite each other's sources, table   *)
(* and records in any order, for any number of builders, artifacts and     *)
(* edits: what is renamed to the target directory is always complete.      *)
THEOREM BundleTypeCorrect == Spec => []TypeOK
  <1>1. Core => TypeOK
    <2> SUFFICES ASSUME Core PROVE TypeOK
      OBVIOUS
    <2>1. ASSUME NEW d, Installed(d) PROVE Complete(d)
      BY <2>1, BundleAssumption DEF Installed, Complete
    <2>2. ASSUME NEW b \in Builders, pc[b] \in Filled PROVE Complete(staging[b])
      BY <2>1, <2>2 DEF Core, BuilderInv, Installed
    <2>3. recipe \in Versions /\ header \in Versions
      BY VersionsBound DEF Core
    <2> QED
      BY <2>1, <2>2, <2>3 DEF TypeOK, Core, Shape, Places, Compiling, Filled
  <1> QED
    BY <1>1, InitCore, NextCore, PTL DEF Spec

-----------------------------------------------------------------------------
(* A quiet build.  The sources on disk are those it has imported and       *)
(* nobody else writes: what it has written is of them, and so is what it   *)
(* compiles.                                                               *)
Now(a) == [recipe |-> recipe, header |-> IF a \in Assembly THEN Absent ELSE header]

Tabled == {"contract", "installed", "extension"} \cup Installing
Contracted == {"installed", "extension"} \cup Installing
Renamed == {"sweep", "sweeping", "swept", "extension", "installed"}

QuietInv(p, l, w, s, src) ==
    /\ l = recipe
    /\ \A a \in w : src[a] = recipe
    /\ p = "write" => \A a \in Artifacts : s.files[a] = Absent
    /\ p \in {"building"} \cup Filled =>
         \A a \in Artifacts : s.files[a] # Absent => s.files[a] = Now(a) /\ a \in w

QuietTree(p, k, src, tb, ct, ex, t) ==
    /\ p \in Tabled => tb = recipe
    /\ p \in Contracted => ct = recipe
    /\ p \in Renamed => t # Absent /\ \A a \in Artifacts : t.files[a] = Now(a) /\ src[a] = recipe
    /\ p = "installed" /\ k = "build_ext" => ex = tb

QuietBuilds ==
    \A b \in Builders :
        quiet[b] =>
            /\ QuietInv(pc[b], loaded[b], written[b], staging[b], source)
            /\ QuietTree(pc[b], kind[b], source, table, contract, extension, target)

QuietAll == QuietRenames /\ QuietBuilds

LEMMA CoreFunctional == Core => Functional
  BY DEF Core, Shape, Functional

(* A step of a builder at work concerns no other quiet one.                *)
LEMMA QuietStep ==
    ASSUME Core, QuietAll, NEW b \in Builders, Live(b), UNCHANGED <<quiet, recipe, header>>,
           quiet[b] => /\ QuietInv(pc'[b], loaded'[b], written'[b], staging'[b], source')
                       /\ QuietTree(pc'[b], kind'[b], source', table', contract', extension', target')
    PROVE  QuietBuilds'
  <1> SUFFICES ASSUME NEW x \in Builders, quiet[x]
               PROVE  /\ QuietInv(pc'[x], loaded'[x], written'[x], staging'[x], source')
                      /\ QuietTree(pc'[x], kind'[x], source', table', contract', extension', target')
    BY DEF QuietBuilds, QuietInv, QuietTree, Now
  <1>1. x = b
    BY DEF QuietAll, QuietRenames, Undisturbed
  <1> QED
    BY <1>1

(* What a quiet builder writes into the staging and source directories.    *)
LEMMA QuietCompiles ==
    ASSUME Core, NEW b \in Builders, NEW a \in Artifacts, Compile(b, a) \/ WriteSource(b, a),
           QuietInv(pc[b], loaded[b], written[b], staging[b], source),
           QuietTree(pc[b], kind[b], source, table, contract, extension, target)
    PROVE  /\ QuietInv(pc'[b], loaded'[b], written'[b], staging'[b], source')
           /\ QuietTree(pc'[b], kind'[b], source', table', contract', extension', target')
  <1> USE DEF Core, Shape
  <1>1. CASE Compile(b, a)
    <2>1. /\ pc[b] = "building" /\ a \in written[b]
          /\ staging' = [staging EXCEPT ![b].files[a] = Image(a)]
          /\ UNCHANGED <<pc, target, buildVars, tree>>
      BY <1>1 DEF Compile
    <2>2. staging[b] \in Directories
      BY <2>1 DEF BuilderInv, Compiling
    <2>3. staging'[b].files = [staging[b].files EXCEPT ![a] = Image(a)]
      BY <2>1, <2>2 DEF Directories
    <2>4. Image(a) = Now(a)
      BY <2>1 DEF QuietInv, Image, Now
    <2>5. ASSUME NEW c \in Artifacts, staging'[b].files[c] # Absent
          PROVE  staging'[b].files[c] = Now(c) /\ c \in written[b]
      BY <2>1, <2>2, <2>3, <2>4, <2>5 DEF QuietInv, Directories
    <2> QED
      BY <2>1, <2>5 DEF QuietInv, QuietTree, buildVars, tree
  <1>2. CASE WriteSource(b, a)
    <2>1. /\ pc[b] \in Compiling
          /\ source' = [source EXCEPT ![a] = loaded[b]]
          /\ written' = [written EXCEPT ![b] = @ \cup {a}]
          /\ UNCHANGED <<installVars, recipe, header, loaded, kind, tree>>
      BY <1>2 DEF WriteSource, Compiling
    <2>2. \A c \in written'[b] : source'[c] = recipe
      BY <2>1 DEF QuietInv
    <2>3. written[b] \subseteq written'[b] /\ pc[b] \notin Tabled \cup Contracted \cup Renamed
      BY <2>1 DEF Compiling, Tabled, Contracted, Renamed, Installing
    <2> QED
      BY <2>1, <2>2, <2>3 DEF QuietInv, QuietTree, installVars, tree
  <1> QED
    BY <1>1, <1>2

(* The rest of the build. *)
LEMMA QuietGoesOn ==
    ASSUME Core, NEW b \in Builders,
           \/ StartPool(b) \/ BuildFails(b) \/ FinishBuild(b) \/ WriteTable(b) \/ WriteContract(b)
           \/ WriteRaises(b) \/ Finish(b) \/ CompileExtension(b) \/ ExtensionFails(b),
           QuietInv(pc[b], loaded[b], written[b], staging[b], source),
           QuietTree(pc[b], kind[b], source, table, contract, extension, target)
    PROVE  /\ QuietInv(pc'[b], loaded'[b], written'[b], staging'[b], source')
           /\ QuietTree(pc'[b], kind'[b], source', table', contract', extension', target')
  <1> USE DEF Core, Shape, Goto, buildVars, tree
  <1>1. CASE StartPool(b) \/ FinishBuild(b)
    <2>1. /\ UNCHANGED <<staging, target, buildVars, tree>>
          /\ \/ pc[b] = "write" /\ pc'[b] = "building"
             \/ pc[b] = "building" /\ pc'[b] = "table"
      BY <1>1 DEF StartPool, FinishBuild
    <2> QED
      BY <2>1 DEF QuietInv, QuietTree, Filled, Tabled, Contracted, Renamed, Installing
  <1>2. CASE BuildFails(b) \/ WriteRaises(b) \/ ExtensionFails(b)
    <2>1. pc'[b] = "failed" /\ UNCHANGED <<buildVars, tree>>
      BY <1>2 DEF BuildFails, WriteRaises, ExtensionFails
    <2> QED
      BY <2>1 DEF QuietInv, QuietTree, Filled, Tabled, Contracted, Renamed, Installing
  <1>3. CASE WriteTable(b)
    <2>1. /\ pc[b] = "table" /\ pc'[b] = "contract" /\ table' = loaded[b]
          /\ UNCHANGED <<staging, buildVars, contract, extension, whole, target>>
      BY <1>3 DEF WriteTable
    <2> QED
      BY <2>1 DEF QuietInv, QuietTree, Filled, Tabled, Contracted, Renamed, Installing
  <1>4. CASE WriteContract(b)
    <2>1. /\ pc[b] = "contract" /\ pc'[b] = "clear" /\ contract' = loaded[b]
          /\ UNCHANGED <<staging, buildVars, table, extension, whole, target>>
      BY <1>4 DEF WriteContract
    <2> QED
      BY <2>1 DEF QuietInv, QuietTree, Filled, Tabled, Contracted, Renamed, Installing
  <1>5. CASE Finish(b)
    <2>1. /\ pc[b] = "swept"
          /\ pc'[b] = IF kind[b] = "build_ext" THEN "extension" ELSE "installed"
          /\ UNCHANGED <<staging, buildVars, tree, target>>
      BY <1>5 DEF Finish
    <2> QED
      BY <2>1 DEF QuietInv, QuietTree, Filled, Tabled, Contracted, Renamed, Installing
  <1>6. CASE CompileExtension(b)
    <2>1. /\ pc[b] = "extension" /\ pc'[b] = "installed" /\ extension' = table
          /\ UNCHANGED <<staging, buildVars, table, contract, target>>
      BY <1>6 DEF CompileExtension
    <2> QED
      BY <2>1 DEF QuietInv, QuietTree, Filled, Tabled, Contracted, Renamed, Installing
  <1> QED
    BY <1>1, <1>2, <1>3, <1>4, <1>5, <1>6

(* A quiet builder installs the directory it has filled.                   *)
LEMMA QuietPublishes ==
    ASSUME Core, NEW b \in Builders, InstallStep(b), UNCHANGED <<buildVars, tree>>,
           QuietInv(pc[b], loaded[b], written[b], staging[b], source),
           QuietTree(pc[b], kind[b], source, table, contract, extension, target)
    PROVE  /\ QuietInv(pc'[b], loaded'[b], written'[b], staging'[b], source')
           /\ QuietTree(pc'[b], kind'[b], source', table', contract', extension', target')
  <1> USE DEF Core, Shape, Goto, buildVars, tree
  <1>1. CASE StartClear(b) \/ EndClear(b) \/ Look(b)
    <2>1. /\ UNCHANGED <<target, staging>>
          /\ \/ pc[b] \in {"clear", "clearing", "look"} /\ pc'[b] \in {"clearing", "look", "move", "publish"}
             \/ pc[b] \in {"sweep", "sweeping"} /\ pc'[b] \in {"sweeping", "swept"}
      BY <1>1 DEF StartClear, EndClear, Look
    <2> QED
      BY <2>1 DEF QuietInv, QuietTree, Filled, Tabled, Contracted, Renamed, Installing
  <1>2. CASE MoveAway(b)
    <2>1. pc[b] = "move" /\ pc'[b] = "publish" /\ UNCHANGED staging
      BY <1>2 DEF MoveAway
    <2> QED
      BY <2>1 DEF QuietInv, QuietTree, Filled, Tabled, Contracted, Renamed, Installing
  <1>3. CASE Publish(b)
    <2>1. pc[b] = "publish" /\ pc'[b] = "sweep" /\ target' = staging[b]
      BY <1>3 DEF Publish
    <2>2. staging[b] \in Directories /\ \A a \in Artifacts : staging[b].files[a] # Absent
      BY <2>1 DEF BuilderInv, Filled
    <2>3. \A a \in Artifacts : staging[b].files[a] = Now(a) /\ source[a] = recipe
      BY <2>1, <2>2 DEF QuietInv, Filled
    <2>4. staging[b] # Absent
      BY <2>2, BundleAssumption
    <2> QED
      BY <2>1, <2>3, <2>4 DEF QuietInv, QuietTree, Filled, Tabled, Contracted, Renamed, Installing
  <1>4. CASE RenameRaises(b) \/ Crash(b)
    <2>1. pc'[b] \in {"stuck", "crashed"}
      BY <1>4 DEF RenameRaises, Crash
    <2> QED
      BY <2>1 DEF QuietInv, QuietTree, Filled, Tabled, Contracted, Renamed, Installing
  <1> QED
    BY <1>1, <1>2, <1>3, <1>4 DEF InstallStep

(* A builder that starts leaves no other one quiet.                        *)
LEMMA QuietMain ==
    ASSUME Core, NEW b \in Builders, Main(b)
    PROVE  QuietBuilds'
  <1> SUFFICES ASSUME NEW x \in Builders, quiet'[x]
               PROVE  /\ QuietInv(pc'[x], loaded'[x], written'[x], staging'[x], source')
                      /\ QuietTree(pc'[x], kind'[x], source', table', contract', extension', target')
    BY DEF QuietBuilds, QuietInv, QuietTree, Now, Main
  <1>1. x = b
    BY DEF Main, Begin
  <1>2. /\ pc'[b] = "write" /\ loaded'[b] = recipe /\ written'[b] = {}
        /\ staging'[b] = [files |-> Unbuilt]
    BY DEF Main, Begin, Goto, Core, Shape
  <1> QED
    BY <1>1, <1>2 DEF QuietInv, QuietTree, Unbuilt, Filled, Tabled, Contracted, Renamed, Installing

LEMMA LiveUnlessMain ==
    ASSUME NEW b \in Builders, BuilderStep(b), ~ Main(b)
    PROVE  Live(b) /\ UNCHANGED <<quiet, recipe, header>>
  BY DEF BuilderStep, WriteSource, StartPool, Compile, BuildFails, FinishBuild, WriteTable,
      WriteContract, WriteRaises, Finish, CompileExtension, ExtensionFails, InstallStep,
      StartClear, EndClear, Look, MoveAway, Publish, RenameRaises, Crash,
      Live, Ended, buildVars, installVars

LEMMA NextQuiet == Core /\ QuietAll /\ [Next]_vars => QuietAll'
  <1> SUFFICES ASSUME Core, QuietAll, [Next]_vars PROVE QuietRenames' /\ QuietBuilds'
    BY DEF QuietAll
  <1>1. QuietRenames /\ QuietBuilds /\ Functional
    BY CoreFunctional DEF QuietAll
  <1>2. ASSUME NEW b \in Builders, Main(b) PROVE QuietRenames' /\ QuietBuilds'
    <2>1. Begin(b, "write")
      BY <1>2 DEF Main
    <2> QED
      BY <1>1, <1>2, <2>1, QuietBegins, QuietMain DEF Renaming
  <1>3. ASSUME NEW b \in Builders, BuilderStep(b), ~ Main(b) PROVE QuietRenames' /\ QuietBuilds'
    <2>1. Live(b) /\ UNCHANGED <<quiet, recipe, header>>
      BY <1>3, LiveUnlessMain
    <2>2. quiet[b] => /\ QuietInv(pc[b], loaded[b], written[b], staging[b], source)
                      /\ QuietTree(pc[b], kind[b], source, table, contract, extension, target)
      BY <1>1 DEF QuietBuilds
    <2>3. CASE InstallStep(b) /\ UNCHANGED <<buildVars, tree, process>>
      <3>1. QuietRenames'
        BY <1>1, <2>3, QuietInstalls
      <3>2. QuietBuilds'
        BY <2>1, <2>2, <2>3, QuietStep, QuietPublishes
      <3> QED
        BY <3>1, <3>2
    <2>4. ASSUME NEW a \in Artifacts, WriteSource(b, a) \/ Compile(b, a)
          PROVE  QuietRenames' /\ QuietBuilds'
      <3>1. UNCHANGED <<pc, quiet, old, target>>
        BY <2>4 DEF WriteSource, Compile, installVars
      <3>2. QuietRenames'
        BY <1>1, <3>1 DEF QuietRenames, Undisturbed, Live
      <3>3. QuietBuilds'
        BY <2>1, <2>2, <2>4, QuietStep, QuietCompiles
      <3> QED
        BY <3>2, <3>3
    <2>5. CASE \/ StartPool(b) \/ BuildFails(b) \/ FinishBuild(b) \/ WriteTable(b)
               \/ WriteContract(b) \/ WriteRaises(b) \/ Finish(b) \/ CompileExtension(b)
               \/ ExtensionFails(b)
      <3>1. \E place \in {"building", "failed", "table", "contract", "clear", "extension",
                          "installed"} : Goto(b, place)
        BY <2>5 DEF StartPool, BuildFails, FinishBuild, WriteTable, WriteContract, WriteRaises,
                    Finish, CompileExtension, ExtensionFails
      <3>2. QuietRenames'
        BY <1>1, <2>1, <3>1, QuietElsewhere DEF Renaming
      <3>3. QuietBuilds'
        BY <2>1, <2>2, <2>5, QuietStep, QuietGoesOn
      <3> QED
        BY <3>2, <3>3
    <2> QED
      BY <1>3, <2>3, <2>4, <2>5 DEF BuilderStep
  <1>4. CASE Edit
    <2>1. quiet' = [b \in Builders |-> FALSE]
      BY <1>4 DEF Edit, EditTo, Disturb
    <2> QED
      BY <2>1 DEF QuietRenames, QuietBuilds
  <1>5. CASE (\E p \in Processes : ProcessStep(p)) \/ UNCHANGED vars
    <2>1. UNCHANGED <<installVars, buildVars, tree>>
      BY <1>5 DEF ProcessStep, ImportExtension, ImportRecords, LoadKernel, Exit, vars
    <2> QED
      BY <1>1, <2>1
      DEF installVars, buildVars, tree, QuietRenames, Undisturbed, Live, QuietBuilds, QuietInv,
          QuietTree, Now
  <1> QED
    BY <1>2, <1>3, <1>4, <1>5 DEF Next

LEMMA InitQuiet == Init => QuietAll
  BY DEF Init, QuietAll, QuietRenames, QuietBuilds

(* A bundle build that nobody disturbs repairs any wreck, for any number   *)
(* of artifacts and of crashed builders before it: table, records, code    *)
(* objects and extension are all of the sources on disk.                   *)
THEOREM QuietBundlesRepair == Spec => []QuietBuildRepairs
  <1>1. Core /\ QuietAll => QuietBuildRepairs
    <2> SUFFICES ASSUME Core, QuietAll, NEW b \in Builders, quiet[b]
                 PROVE  /\ pc[b] # "stuck"
                        /\ pc[b] = "installed" =>
                             /\ table = recipe /\ contract = recipe
                             /\ \A a \in Artifacts : target.files[a] = Image(a)
                             /\ \A a \in Artifacts : target.files[a].recipe = recipe
                             /\ kind[b] = "build_ext" => extension = table
      BY DEF QuietBuildRepairs
    <2>1. pc[b] # "stuck"
      BY QuietNotStuck DEF QuietAll
    <2>2. QuietTree(pc[b], kind[b], source, table, contract, extension, target)
      BY DEF QuietAll, QuietBuilds
    <2>3. ASSUME NEW a \in Artifacts, pc[b] = "installed"
          PROVE  target.files[a] = Image(a) /\ target.files[a].recipe = recipe
      <3>1. target.files[a] = Now(a) /\ source[a] = recipe
        BY <2>2, <2>3 DEF QuietTree, Renamed
      <3>2. Now(a) = Image(a) /\ Now(a).recipe = recipe
        BY <3>1 DEF Now, Image
      <3> QED
        BY <3>1, <3>2
    <2> QED
      BY <2>1, <2>2, <2>3 DEF QuietTree, Tabled, Contracted
  <1> QED
    BY <1>1, InitCore, InitQuiet, NextCore, NextQuiet, PTL DEF Spec

-----------------------------------------------------------------------------
(* A whole tree is the work of one build_ext, nobody has started another   *)
(* build since, and a clean process has read nothing else.                 *)
WholeInv ==
    whole =>
        /\ \A b \in Builders : ~ Live(b)
        /\ extension # Absent /\ contract = extension
        /\ target # Absent /\ \A a \in Artifacts : target.files[a].recipe = extension

SeenBy(seen, w, ex, ct) ==
    seen.clean =>
        /\ w /\ seen.native = ex
        /\ seen.records # Absent => seen.records = ct
        /\ \A a \in Artifacts : seen.images[a] # Absent => seen.images[a].recipe = ex

CleanInv == \A p \in Processes : SeenBy(process[p], whole, extension, contract)

IInv == Core /\ QuietAll /\ Reads /\ WholeInv /\ CleanInv

LEMMA InitInv == Init => IInv
  BY InitCore, InitQuiet DEF Init, IInv, WholeInv, CleanInv, SeenBy, NotStarted

(* A builder at work has no whole tree before it, and no clean process     *)
(* around it.                                                              *)
LEMMA BuilderLeavesClean ==
    ASSUME IInv, NEW b \in Builders, BuilderStep(b)
    PROVE  (Reads /\ WholeInv /\ CleanInv)'
  <1> USE DEF IInv
  <1>1. CASE Main(b)
    <2>1. /\ whole' = FALSE
          /\ process' = [p \in Processes |-> [process[p] EXCEPT !.clean = FALSE]]
      BY <1>1 DEF Main
    <2>2. ASSUME NEW p \in Processes
          PROVE  /\ process'[p] \in Record /\ ~ process'[p].clean
                 /\ process'[p].native = process[p].native
                 /\ process'[p].records = process[p].records
                 /\ process'[p].images = process[p].images
      <3>1. process[p] \in Record /\ process'[p] = [process[p] EXCEPT !.clean = FALSE]
        BY <2>1 DEF Reads
      <3> QED
        BY <3>1 DEF Record
    <2> QED
      BY <2>1, <2>2 DEF Reads, WholeInv, CleanInv, SeenBy
  <1>2. CASE ~ Main(b)
    <2>1. Live(b) /\ UNCHANGED <<quiet, recipe, header>>
      BY <1>2, LiveUnlessMain
    <2>2. ~ whole
      BY <2>1 DEF WholeInv
    <2>3. UNCHANGED process
      BY <1>2
      DEF BuilderStep, WriteSource, StartPool, Compile, BuildFails, FinishBuild, WriteTable,
          WriteContract, WriteRaises, Finish, CompileExtension, ExtensionFails
    <2>4. Reads'
      BY <2>3 DEF Reads
    <2>5. CleanInv'
      BY <2>2, <2>3 DEF CleanInv, SeenBy
    <2>6. CASE CompileExtension(b)
      <3>1. /\ pc[b] = "extension" /\ pc' = [pc EXCEPT ![b] = "installed"] /\ extension' = table
            /\ whole' = quiet[b] /\ UNCHANGED <<target, contract>>
        BY <2>6 DEF CompileExtension, Goto
      <3>2. ASSUME quiet[b]
            PROVE  /\ \A x \in Builders : pc'[x] \in Ended
                   /\ table # Absent /\ contract = table
                   /\ target # Absent /\ \A a \in Artifacts : target.files[a].recipe = table
        <4>1. QuietTree(pc[b], kind[b], source, table, contract, extension, target)
          BY <3>2 DEF QuietAll, QuietBuilds
        <4>2. table = recipe /\ contract = recipe /\ target # Absent
          BY <3>1, <4>1 DEF QuietTree, Tabled, Contracted, Renamed
        <4>3. ASSUME NEW a \in Artifacts PROVE target.files[a].recipe = recipe
          <5>1. target.files[a] = Now(a)
            BY <3>1, <4>1 DEF QuietTree, Renamed
          <5> QED
            BY <5>1 DEF Now
        <4>4. table # Absent
          BY BundleAssumption DEF Core, Shape
        <4>5. \A x \in Builders : pc'[x] \in Ended
          BY <3>1, <3>2 DEF QuietAll, QuietRenames, Undisturbed, Live, Core, Shape, Ended
        <4> QED
          BY <4>2, <4>3, <4>4, <4>5
      <3>3. WholeInv'
        BY <3>1, <3>2 DEF WholeInv, Live
      <3> QED
        BY <2>4, <2>5, <3>3
    <2>7. CASE ~ CompileExtension(b)
      <3>1. UNCHANGED whole
        BY <1>2, <2>7
        DEF BuilderStep, WriteSource, StartPool, Compile, BuildFails, FinishBuild, WriteTable,
            WriteContract, WriteRaises, Finish, ExtensionFails, tree
      <3> QED
        BY <2>2, <2>4, <2>5, <3>1 DEF WholeInv
    <2> QED
      BY <2>4, <2>5, <2>6, <2>7
  <1> QED
    BY <1>1, <1>2

(* What a process reads of a whole tree is of the one build.               *)
LEMMA ProcessReads ==
    ASSUME IInv, NEW p \in Processes, ProcessStep(p)
    PROVE  (Reads /\ CleanInv)'
  <1> DEFINE seen == process[p]
             Fits(now) ==
                 /\ now \in Record
                 /\ now.native = Absent => now.records = Absent
                 /\ now.records = Absent => now.images = Unbuilt
                 /\ SeenBy(now, whole, extension, contract)
  <1>1. /\ Fits(seen) /\ process \in [Processes -> Record]
        /\ UNCHANGED <<whole, extension, contract>>
    BY DEF IInv, Reads, CleanInv, ProcessStep, ImportExtension, ImportRecords, LoadKernel, Exit, tree
  <1>2. ASSUME NEW now, process' = [process EXCEPT ![p] = now], Fits(now)
        PROVE  (Reads /\ CleanInv)'
    <2>1. /\ process' \in [Processes -> Record]
          /\ \A x \in Processes : process'[x] = IF x = p THEN now ELSE process[x]
      BY <1>1, <1>2
    <2>2. Reads'
      BY <1>2, <2>1 DEF IInv, Reads
    <2>3. ASSUME NEW x \in Processes PROVE SeenBy(process'[x], whole, extension, contract)
      BY <1>2, <2>1 DEF IInv, CleanInv
    <2> QED
      BY <1>1, <2>2, <2>3 DEF CleanInv
  <1>3. Shape /\ WholeInv
    BY DEF IInv, Core
  <1>4. CASE ImportExtension(p)
    <2> DEFINE now == [seen EXCEPT !.native = extension, !.clean = whole]
    <2>1. /\ process' = [process EXCEPT ![p] = now]
          /\ seen.native = Absent /\ extension # Absent
      BY <1>1, <1>4 DEF ImportExtension
    <2>2. /\ now \in Record /\ now.native = extension /\ now.clean = whole
          /\ now.records = seen.records /\ now.images = seen.images
      BY <1>1, <1>3 DEF Record, Shape
    <2> HIDE DEF now
    <2>3. now.records = Absent /\ now.images = Unbuilt
      BY <1>1, <2>1, <2>2
    <2>4. Fits(now)
      BY <2>1, <2>2, <2>3 DEF SeenBy, Unbuilt
    <2> QED
      BY <1>2, <2>1, <2>4
  <1>5. CASE ImportRecords(p)
    <2> DEFINE now == [seen EXCEPT !.records = contract]
    <2>1. /\ process' = [process EXCEPT ![p] = now]
          /\ seen.native # Absent /\ seen.records = Absent
      BY <1>5 DEF ImportRecords
    <2>2. contract \in Versions /\ contract # Absent
      BY <1>3, BundleAssumption DEF Shape
    <2>3. /\ now \in Record /\ now.records = contract
          /\ now.native = seen.native /\ now.clean = seen.clean /\ now.images = seen.images
      BY <1>1, <2>2 DEF Record
    <2> HIDE DEF now
    <2>4. Fits(now)
      BY <1>1, <2>1, <2>2, <2>3 DEF SeenBy
    <2> QED
      BY <1>2, <2>1, <2>4
  <1>6. ASSUME NEW a \in Artifacts, LoadKernel(p, a) PROVE (Reads /\ CleanInv)'
    <2> DEFINE now == [seen EXCEPT !.images[a] = target.files[a]]
    <2>1. /\ process' = [process EXCEPT ![p] = now]
          /\ seen.records # Absent /\ target # Absent
      BY <1>6 DEF LoadKernel
    <2>2. target \in Directories
      BY <2>1 DEF IInv, Core, Installed
    <2>3. /\ now \in Record
          /\ now.native = seen.native /\ now.clean = seen.clean /\ now.records = seen.records
          /\ now.images = [seen.images EXCEPT ![a] = target.files[a]]
      BY <1>1, <2>2 DEF Record, Directories
    <2>4. seen.images \in [Artifacts -> Images \cup {Absent}]
      BY <1>1 DEF Record
    <2>5. ASSUME now.clean PROVE target.files[a].recipe = extension
      BY <1>1, <1>3, <2>3, <2>5 DEF SeenBy, WholeInv
    <2> HIDE DEF now
    <2>6. SeenBy(now, whole, extension, contract)
      BY <1>1, <2>3, <2>4, <2>5 DEF SeenBy
    <2>7. Fits(now)
      BY <1>1, <2>1, <2>3, <2>6
    <2> QED
      BY <1>2, <2>1, <2>7
  <1>7. CASE Exit(p)
    <2>1. process' = [process EXCEPT ![p] = NotStarted]
      BY <1>7 DEF Exit
    <2>2. Unbuilt \in [Artifacts -> Images \cup {Absent}]
      BY DEF Unbuilt
    <2>3. Fits(NotStarted)
      BY <2>2 DEF NotStarted, Record, SeenBy
    <2> QED
      BY <1>2, <2>1, <2>3
  <1> QED
    BY <1>4, <1>5, <1>6, <1>7 DEF ProcessStep

LEMMA NextInv == IInv /\ [Next]_vars => IInv'
  <1> SUFFICES ASSUME IInv, [Next]_vars PROVE IInv'
    OBVIOUS
  <1>1. Core' /\ QuietAll'
    BY NextCore, NextQuiet DEF IInv
  <1>2. CASE \E b \in Builders : BuilderStep(b)
    BY <1>1, <1>2, BuilderLeavesClean DEF IInv
  <1>3. CASE \E p \in Processes : ProcessStep(p)
    <2>1. UNCHANGED <<installVars, tree>>
      BY <1>3 DEF ProcessStep, ImportExtension, ImportRecords, LoadKernel, Exit
    <2>2. WholeInv'
      BY <2>1 DEF IInv, WholeInv, Live, installVars, tree
    <2> QED
      BY <1>1, <1>3, <2>2, ProcessReads DEF IInv
  <1>4. CASE Edit \/ UNCHANGED vars
    <2>1. UNCHANGED <<pc, target, tree, process>>
      BY <1>4 DEF Edit, EditTo, vars, installVars
    <2>2. WholeInv' /\ Reads' /\ CleanInv'
      BY <2>1 DEF IInv, WholeInv, Live, tree, Reads, CleanInv
    <2> QED
      BY <1>1, <2>2 DEF IInv
  <1> QED
    BY <1>2, <1>3, <1>4 DEF Next

(* A process that imports the package after an undisturbed build_ext and   *)
(* before the next build has extension, records and code objects of one    *)
(* build, however late it loads each of them, for any number of processes, *)
(* builders and artifacts.                                                 *)
THEOREM CleanProcessesAgree == Spec => []CleanProcessAgrees
  <1>1. IInv => CleanProcessAgrees
    BY DEF IInv, CleanInv, SeenBy, CleanProcessAgrees, WholeInv
  <1> QED
    BY <1>1, InitInv, NextInv, PTL DEF Spec
=============================================================================
