------------------------ MODULE HipControlsBuildProofs -------------------------
(***************************************************************************)
(* Safety of the HIP control builds for any number of builders, artifacts  *)
(* and edits.  --check can be fooled by sources that change between digest *)
(* and compilation only if they change back: with versions that only grow, *)
(* whatever the compiler has read lies between the version in the digest   *)
(* and the one on disk, and the check requires these two to be equal.      *)
(***************************************************************************)
EXTENDS HipControlsBuild, TLAPS

-----------------------------------------------------------------------------
(* The renames of an undisturbed builder: it is the only one at work, so    *)
(* what it has looked at is still so when it renames, and none of its       *)
(* renames raises.                                                          *)

(* Places where what is known of target or .old matters.                   *)
Renaming == {"clearing", "look", "move", "publish", "stuck"}

Undisturbed(b) ==
    /\ \A y \in Builders \ {b} : ~ Live(y)
    /\ pc[b] # "stuck"
    /\ pc[b] = "clearing" => old \in {Absent, Broken}
    /\ pc[b] \in {"look", "move"} => old = Absent
    /\ pc[b] = "move" => target # Absent
    /\ pc[b] = "publish" => target = Absent

QuietRenames == \A b \in Builders : quiet[b] => Undisturbed(b)

Functional == pc = [b \in Builders |-> pc[b]] /\ quiet = [b \in Builders |-> quiet[b]]

(* A step of a builder at work leaves no other builder quiet, and what it  *)
(* does to the place of the only one at work.                              *)
LEMMA LiveStep ==
    ASSUME Functional, QuietRenames, NEW b \in Builders, Live(b), UNCHANGED quiet,
           \A y \in Builders \ {b} : pc'[y] = pc[y],
           Undisturbed(b) =>
               /\ pc'[b] # "stuck"
               /\ pc'[b] = "clearing" => old' \in {Absent, Broken}
               /\ pc'[b] \in {"look", "move"} => old' = Absent
               /\ pc'[b] = "move" => target' # Absent
               /\ pc'[b] = "publish" => target' = Absent
    PROVE  QuietRenames'
  <1> SUFFICES ASSUME NEW x \in Builders, quiet[x] PROVE Undisturbed(x)'
    BY DEF QuietRenames
  <1>1. Undisturbed(x)
    BY DEF QuietRenames
  <1>2. x = b
    BY <1>1 DEF Undisturbed
  <1> QED
    BY <1>1, <1>2 DEF Undisturbed, Live

(* A builder that moves outside the renames. *)
LEMMA QuietElsewhere ==
    ASSUME Functional, QuietRenames, NEW b \in Builders, Live(b), UNCHANGED quiet,
           NEW place, place \notin Renaming, Goto(b, place)
    PROVE  QuietRenames'
  <1>1. pc'[b] = place /\ \A y \in Builders \ {b} : pc'[y] = pc[y]
    BY DEF Goto, Functional
  <1> QED
    BY <1>1, LiveStep DEF Renaming

(* A builder that starts is quiet if it is alone, and no other one is.     *)
LEMMA QuietBegins ==
    ASSUME Functional, QuietRenames, NEW b \in Builders,
           NEW place, place \notin Renaming, Begin(b, place)
    PROVE  QuietRenames'
  <1>1. pc'[b] = place /\ \A y \in Builders \ {b} : pc'[y] = pc[y]
    BY DEF Begin, Goto, Functional
  <1>2. ASSUME NEW x \in Builders, quiet'[x] PROVE x = b /\ \A y \in Builders \ {b} : ~ Live(y)
    BY <1>2 DEF Begin
  <1> QED
    BY <1>1, <1>2 DEF QuietRenames, Undisturbed, Live, Renaming

LEMMA QuietInstalls ==
    ASSUME Functional, QuietRenames, NEW b \in Builders, InstallStep(b)
    PROVE  QuietRenames'
  <1>1. Live(b) /\ UNCHANGED quiet
    BY DEF InstallStep, StartClear, EndClear, Look, MoveAway, Publish, RenameRaises, Crash,
           Live, Ended
  <1>2. ASSUME NEW place, Goto(b, place)
        PROVE  pc'[b] = place /\ \A y \in Builders \ {b} : pc'[y] = pc[y]
    BY <1>2 DEF Goto, Functional
  <1>3. CASE StartClear(b)
    BY <1>1, <1>2, <1>3, LiveStep DEF StartClear
  <1>4. CASE EndClear(b)
    BY <1>1, <1>2, <1>4, LiveStep DEF EndClear, Undisturbed
  <1>5. CASE Look(b)
    BY <1>1, <1>2, <1>5, LiveStep DEF Look, Undisturbed
  <1>6. CASE MoveAway(b)
    BY <1>1, <1>2, <1>6, LiveStep DEF MoveAway
  <1>7. CASE Publish(b)
    BY <1>1, <1>2, <1>7, LiveStep DEF Publish
  <1>8. CASE RenameRaises(b)
    BY <1>1, <1>2, <1>8, LiveStep DEF RenameRaises, Undisturbed
  <1>9. CASE Crash(b)
    BY <1>1, <1>2, <1>9, LiveStep DEF Crash
  <1> QED
    BY <1>3, <1>4, <1>5, <1>6, <1>7, <1>8, <1>9 DEF InstallStep

(* An undisturbed builder is never stuck at a rename.                      *)
LEMMA QuietNotStuck ==
    ASSUME QuietRenames, NEW b \in Builders, quiet[b]
    PROVE  pc[b] # "stuck"
  BY DEF QuietRenames, Undisturbed

-----------------------------------------------------------------------------
Places == Ended \cup Installing \cup {"digest", "decide", "building", "rebuilding", "stamp"}

Filling == {"building", "rebuilding", "stamp", "clear", "clearing", "look", "move", "publish"}
Digested == Filling \cup {"decide"}
Full == Filling \ {"building"}
Stamped == Full \ {"rebuilding", "stamp"}
Empty == {"digest", "decide", "sweep", "sweeping", "swept", "installed", "current"}

(* Every file is of the imported recipe, unless another builder may have   *)
(* rendered its wrapper, and of headers between the digest and the disk.   *)
Bracketed(files, rendered, low, high, m) ==
    \A a \in Artifacts :
        files[a] # Absent => /\ ~ m => files[a].recipe = rendered
                             /\ low <= files[a].header /\ files[a].header <= high

BuilderInv(p, l, d, s, h, m) ==
    /\ p \in Digested => d \in Digests /\ d.rendered = l /\ d.header <= h
    /\ p \in Filling => s \in Directories /\ Bracketed(s.files, l, d.header, h, m)
    /\ p \in Full => \A a \in Artifacts : s.files[a] # Absent
    /\ p \in Stamped => s.stamp = d
    /\ p \in Empty => s = Absent

TargetInv(t, h, m) ==
    t # Absent => /\ t \in Directories /\ t.stamp \in Digests
                  /\ \A a \in Artifacts : t.files[a] # Absent
                  /\ Bracketed(t.files, t.stamp.rendered, t.stamp.header, h, m)

Shape ==
    /\ recipe \in Recipes /\ header \in Headers
    /\ quiet \in [Builders -> BOOLEAN] /\ mode \in [Builders -> Modes]
    /\ pc \in [Builders -> Places] /\ loaded \in [Builders -> Recipes]
    /\ digest \in [Builders -> Digests \cup {Absent}]
    /\ staging \in [Builders -> Directories \cup {Absent}]

Core ==
    /\ Shape
    /\ \A b \in Builders : BuilderInv(pc[b], loaded[b], digest[b], staging[b], header, mixed)
    /\ TargetInv(target, header, mixed)

(* Until recipes mix, builders at work have all imported the same one, and *)
(* what any of them has written into a wrapper is of that recipe.          *)
Together(m, p, l) ==
    ~ m => \A b, c \in Builders : p[b] \notin Ended /\ p[c] \notin Ended => l[b] = l[c]

Written(m, p, l, w, r) ==
    \A b \in Builders :
        p[b] \notin Ended =>
            \A a \in r[b] : w[a] \in Recipes /\ (~ m => w[a] = l[b])

WrittenInv ==
    /\ wrapper \in [Artifacts -> Recipes \cup {Absent}]
    /\ wrote \in [Builders -> SUBSET Artifacts]
    /\ Together(mixed, pc, loaded)
    /\ Written(mixed, pc, loaded, wrapper, wrote)

IInv == Core /\ WrittenInv

USE DEF Recipes, Headers

(* Later headers only widen the bracket. *)
LEMMA BracketGrows ==
    ASSUME NEW h \in Headers, NEW k \in Headers, h <= k, NEW m, NEW n, m => n,
           NEW d \in Digests,
           NEW files \in [Artifacts -> Images \cup {Absent}], NEW l,
           Bracketed(files, l, d.header, h, m)
    PROVE  Bracketed(files, l, d.header, k, n)
  <1> SUFFICES ASSUME NEW a \in Artifacts, files[a] # Absent
               PROVE  /\ ~ n => files[a].recipe = l
                      /\ d.header <= files[a].header /\ files[a].header <= k
    BY DEF Bracketed
  <1>1. files[a] \in Images
    OBVIOUS
  <1>2. /\ files[a].header \in Nat /\ h \in Nat /\ k \in Nat
        /\ files[a].header <= h
    BY <1>1, ControlsAssumption DEF Images, Bracketed
  <1> QED
    BY <1>2 DEF Bracketed

LEMMA BuilderGrows ==
    ASSUME NEW p, NEW l, NEW d, NEW s, NEW h \in Headers, NEW k \in Headers, h <= k,
           NEW m, NEW n, m => n, BuilderInv(p, l, d, s, h, m)
    PROVE  BuilderInv(p, l, d, s, k, n)
  <1>1. p \in Digested => d.header <= k
    <2>1. h \in Nat /\ k \in Nat
      BY ControlsAssumption
    <2>2. p \in Digested => d.header \in Nat /\ d.header <= h
      BY ControlsAssumption DEF BuilderInv, Digests
    <2> QED
      BY <2>1, <2>2
  <1>2. p \in Filling => Bracketed(s.files, l, d.header, k, n)
    <2> SUFFICES ASSUME p \in Filling PROVE Bracketed(s.files, l, d.header, k, n)
      OBVIOUS
    <2>1. d \in Digests /\ s.files \in [Artifacts -> Images \cup {Absent}]
      BY DEF BuilderInv, Digested, Directories
    <2>2. Bracketed(s.files, l, d.header, h, m)
      BY DEF BuilderInv
    <2> QED
      BY <2>1, <2>2, BracketGrows
  <1> QED
    BY <1>1, <1>2 DEF BuilderInv

LEMMA TargetGrows ==
    ASSUME NEW t, NEW h \in Headers, NEW k \in Headers, h <= k,
           NEW m, NEW n, m => n, TargetInv(t, h, m)
    PROVE  TargetInv(t, k, n)
  <1> SUFFICES ASSUME t # Absent PROVE Bracketed(t.files, t.stamp.rendered, t.stamp.header, k, n)
    BY DEF TargetInv
  <1>1. /\ t.stamp \in Digests /\ t.files \in [Artifacts -> Images \cup {Absent}]
        /\ Bracketed(t.files, t.stamp.rendered, t.stamp.header, h, m)
    BY DEF TargetInv, Directories
  <1>2. ASSUME NEW l, Bracketed(t.files, l, t.stamp.header, h, m)
        PROVE  Bracketed(t.files, l, t.stamp.header, k, n)
    BY <1>1, <1>2, BracketGrows
  <1> QED
    BY <1>1, <1>2

LEMMA InitCore == Init => Core
  <1> SUFFICES ASSUME Init PROVE Core
    OBVIOUS
  <1>1. Shape
    BY ControlsAssumption DEF Init, Shape, Places, Ended
  <1>2. ASSUME NEW b \in Builders
        PROVE  BuilderInv(pc[b], loaded[b], digest[b], staging[b], header, mixed)
    BY DEF Init, BuilderInv, Digested, Filling, Full, Stamped, Empty
  <1>3. TargetInv(target, header, mixed)
    BY DEF Init, TargetInv
  <1> QED
    BY <1>1, <1>2, <1>3 DEF Core

(* A step of one builder leaves the others alone. *)
LEMMA LocalStep ==
    ASSUME Core, NEW b \in Builders, Shape', header' = header, mixed => mixed',
           \A x \in Builders \ {b} : /\ pc'[x] = pc[x] /\ loaded'[x] = loaded[x]
                                     /\ digest'[x] = digest[x] /\ staging'[x] = staging[x],
           BuilderInv(pc'[b], loaded'[b], digest'[b], staging'[b], header, mixed),
           TargetInv(target', header, mixed)
    PROVE  Core'
  <1>1. header \in Headers /\ header <= header
    BY ControlsAssumption DEF Core, Shape
  <1>2. ASSUME NEW x \in Builders
        PROVE  BuilderInv(pc'[x], loaded'[x], digest'[x], staging'[x], header', mixed')
    <2>1. BuilderInv(pc'[x], loaded'[x], digest'[x], staging'[x], header, mixed)
      <3>1. CASE x = b
        BY <3>1
      <3>2. CASE x # b
        BY <3>2 DEF Core
      <3> QED
        BY <3>1, <3>2
    <2> QED
      BY <1>1, <2>1, BuilderGrows
  <1>3. TargetInv(target', header', mixed')
    BY <1>1, TargetGrows
  <1> QED
    BY <1>2, <1>3 DEF Core

(* A step that only moves the counter of a builder, to a place that asks   *)
(* no more of it.                                                          *)
LEMMA GotoStep ==
    ASSUME Core, NEW b \in Builders, NEW p \in Places, Goto(b, p),
           UNCHANGED <<staging, target, quiet, sources, loaded, mode, digest, mixed>>,
           p \in Digested => pc[b] \in Digested,
           p \in Filling => pc[b] \in Filling,
           p \in Full => pc[b] \in Full \/ \A a \in Artifacts : staging[b].files[a] # Absent,
           p \in Stamped => pc[b] \in Stamped,
           p \in Empty => pc[b] \in Empty
    PROVE  Core'
  <1>1. Shape'
    BY DEF Core, Shape, Goto, sources
  <1>2. pc'[b] = p /\ \A x \in Builders \ {b} : pc'[x] = pc[x]
    BY DEF Core, Shape, Goto
  <1>3. BuilderInv(pc[b], loaded[b], digest[b], staging[b], header, mixed)
    BY DEF Core
  <1>4. BuilderInv(p, loaded[b], digest[b], staging[b], header, mixed)
    BY <1>3 DEF BuilderInv
  <1>5. TargetInv(target', header, mixed)
    BY DEF Core
  <1> QED
    BY <1>1, <1>2, <1>4, <1>5, LocalStep DEF sources

(* The moves of the installation and of the command line. *)
LEMMA MovesPreserve ==
    ASSUME Core, NEW b \in Builders,
           \/ SkipCurrent(b) \/ FinishBuild(b) \/ RecompileFails(b) \/ StampRaises(b) \/ Finish(b)
           \/ /\ StartClear(b) \/ EndClear(b) \/ Look(b) \/ RenameRaises(b) \/ Crash(b)
              /\ UNCHANGED <<sources, loaded, mode, digest, second, rendering>>
    PROVE  Core'
  <1> USE DEF Places, Ended, Installing, Digested, Filling, Full, Stamped, Empty, sources, rendering
  <1>1. CASE SkipCurrent(b)
    <2>1. Goto(b, "current") /\ pc[b] = "decide"
      BY <1>1 DEF SkipCurrent
    <2> QED
      BY <1>1, <2>1, GotoStep DEF SkipCurrent
  <1>2. CASE FinishBuild(b)
    <2>1. \A a \in Artifacts : staging[b].files[a] # Absent
      BY <1>2 DEF FinishBuild, Complete
    <2>2. CASE mode[b] = "verify"
      <3>1. Goto(b, "rebuilding") /\ pc[b] = "building"
        BY <1>2, <2>2 DEF FinishBuild
      <3> QED
        BY <1>2, <2>1, <3>1, GotoStep DEF FinishBuild
    <2>3. CASE mode[b] # "verify"
      <3>1. Goto(b, "stamp") /\ pc[b] = "building"
        BY <1>2, <2>3 DEF FinishBuild
      <3> QED
        BY <1>2, <2>1, <3>1, GotoStep DEF FinishBuild
    <2> QED
      BY <2>2, <2>3
  <1>3. CASE RecompileFails(b)
    <2>1. Goto(b, "failed")
      BY <1>3 DEF RecompileFails
    <2> QED
      BY <1>3, <2>1, GotoStep DEF RecompileFails
  <1>4. CASE Finish(b)
    <2>1. Goto(b, "installed") /\ pc[b] = "swept"
      BY <1>4 DEF Finish
    <2> QED
      BY <1>4, <2>1, GotoStep DEF Finish
  <1>5. CASE StartClear(b) /\ UNCHANGED <<sources, loaded, mode, digest, second, rendering>>
    <2>1. CASE pc[b] = "clear"
      <3>1. Goto(b, "clearing")
        BY <1>5, <2>1 DEF StartClear
      <3> QED
        BY <1>5, <2>1, <3>1, GotoStep DEF StartClear
    <2>2. CASE pc[b] = "sweep"
      <3>1. Goto(b, "sweeping")
        BY <1>5, <2>2 DEF StartClear
      <3> QED
        BY <1>5, <2>2, <3>1, GotoStep DEF StartClear
    <2> QED
      BY <1>5, <2>1, <2>2 DEF StartClear
  <1>6. CASE EndClear(b) /\ UNCHANGED <<sources, loaded, mode, digest, second, rendering>>
    <2>1. CASE pc[b] = "clearing"
      <3>1. Goto(b, "look")
        BY <1>6, <2>1 DEF EndClear
      <3> QED
        BY <1>6, <2>1, <3>1, GotoStep DEF EndClear
    <2>2. CASE pc[b] = "sweeping"
      <3>1. Goto(b, "swept")
        BY <1>6, <2>2 DEF EndClear
      <3> QED
        BY <1>6, <2>2, <3>1, GotoStep DEF EndClear
    <2> QED
      BY <1>6, <2>1, <2>2 DEF EndClear
  <1>7. CASE Look(b) /\ UNCHANGED <<sources, loaded, mode, digest, second, rendering>>
    <2>1. PICK p \in {"publish", "move"} : Goto(b, p)
      BY <1>7 DEF Look
    <2> QED
      BY <1>7, <2>1, GotoStep DEF Look
  <1>8. CASE RenameRaises(b) /\ UNCHANGED <<sources, loaded, mode, digest, second, rendering>>
    <2>1. Goto(b, "stuck") /\ pc[b] \in Installing
      BY <1>8 DEF RenameRaises
    <2> QED
      BY <1>8, <2>1, GotoStep DEF RenameRaises
  <1>9. CASE Crash(b) /\ UNCHANGED <<sources, loaded, mode, digest, second, rendering>>
    <2>1. Goto(b, "crashed")
      BY <1>9 DEF Crash
    <2> QED
      BY <1>9, <2>1, GotoStep DEF Crash
  <1>10. CASE StampRaises(b)
    <2>1. Goto(b, "failed")
      BY <1>10 DEF StampRaises
    <2> QED
      BY <1>10, <2>1, GotoStep DEF StampRaises
  <1> QED
    BY <1>1, <1>2, <1>3, <1>4, <1>5, <1>6, <1>7, <1>8, <1>9, <1>10

LEMMA MainPreserves ==
    ASSUME Core, NEW b \in Builders, Main(b)
    PROVE  Core'
  <1>1. Shape'
    BY DEF Core, Shape, Main, Begin, Goto, sources, Places
  <1>2. /\ pc'[b] = "digest" /\ staging'[b] = Absent
        /\ \A x \in Builders \ {b} : /\ pc'[x] = pc[x] /\ loaded'[x] = loaded[x]
                                     /\ digest'[x] = digest[x] /\ staging'[x] = staging[x]
    BY DEF Core, Shape, Main, Begin, Goto
  <1>3. BuilderInv(pc'[b], loaded'[b], digest'[b], staging'[b], header, mixed)
    BY <1>2 DEF BuilderInv, Digested, Filling, Full, Stamped, Empty
  <1>4. header' = header /\ TargetInv(target', header, mixed) /\ (mixed => mixed')
    BY DEF Core, Main, sources
  <1> QED
    BY <1>1, <1>2, <1>3, <1>4, LocalStep

LEMMA DigestPreserves ==
    ASSUME Core, NEW b \in Builders, TakeDigest(b)
    PROVE  Core'
  <1> DEFINE d == DigestNow(loaded[b])
  <1>1. /\ d \in Digests /\ d.rendered = loaded[b] /\ d.header = header
        /\ header \in Nat
    BY ControlsAssumption DEF DigestNow, Digests, Core, Shape
  <1>2. /\ pc' = [pc EXCEPT ![b] = "decide"] /\ digest' = [digest EXCEPT ![b] = d]
        /\ UNCHANGED <<staging, target, quiet, sources, loaded, mode, mixed>>
        /\ pc[b] = "digest"
    BY DEF TakeDigest, Goto, rendering
  <1> HIDE DEF d
  <1>3. Shape'
    BY <1>1, <1>2 DEF Core, Shape, sources, Places
  <1>4. /\ pc'[b] = "decide" /\ digest'[b] = d /\ loaded'[b] = loaded[b]
        /\ \A x \in Builders \ {b} : /\ pc'[x] = pc[x] /\ loaded'[x] = loaded[x]
                                     /\ digest'[x] = digest[x] /\ staging'[x] = staging[x]
    BY <1>2 DEF Core, Shape
  <1>5. staging'[b] = Absent
    BY <1>2 DEF Core, BuilderInv, Empty
  <1>6. BuilderInv(pc'[b], loaded'[b], digest'[b], staging'[b], header, mixed)
    BY <1>1, <1>4, <1>5 DEF BuilderInv, Digested, Filling, Full, Stamped, Empty
  <1>7. header' = header /\ mixed' = mixed /\ TargetInv(target', header, mixed)
    BY <1>2 DEF Core, sources
  <1> QED
    BY <1>3, <1>4, <1>6, <1>7, LocalStep

LEMMA StagingPreserves ==
    ASSUME Core, NEW b \in Builders, MakeStaging(b)
    PROVE  Core'
  <1> DEFINE s == [files |-> Unbuilt, stamp |-> Absent]
  <1>1. s \in Directories /\ \A a \in Artifacts : s.files[a] = Absent
    BY DEF Directories, Unbuilt
  <1>2. /\ pc' = [pc EXCEPT ![b] = "building"] /\ staging' = [staging EXCEPT ![b] = s]
        /\ UNCHANGED <<target, quiet, sources, loaded, mode, digest, mixed>>
        /\ pc[b] = "decide"
    BY DEF MakeStaging, Goto, rendering
  <1> HIDE DEF s
  <1>3. Shape'
    BY <1>1, <1>2 DEF Core, Shape, sources, Places
  <1>4. /\ pc'[b] = "building" /\ staging'[b] = s
        /\ \A x \in Builders \ {b} : /\ pc'[x] = pc[x] /\ loaded'[x] = loaded[x]
                                     /\ digest'[x] = digest[x] /\ staging'[x] = staging[x]
    BY <1>2 DEF Core, Shape
  <1>5. BuilderInv(pc[b], loaded[b], digest[b], staging[b], header, mixed)
    BY DEF Core
  <1>6. BuilderInv("building", loaded[b], digest[b], s, header, mixed)
    BY <1>1, <1>2, <1>5 DEF BuilderInv, Digested, Filling, Full, Stamped, Empty, Bracketed
  <1>7. header' = header /\ mixed' = mixed /\ TargetInv(target', header, mixed)
    BY <1>2 DEF Core, sources
  <1> QED
    BY <1>2, <1>3, <1>4, <1>6, <1>7, LocalStep

(* The compiler reads the headers as they are, after the digest was taken. *)
LEMMA CompilePreserves ==
    ASSUME Core, WrittenInv, NEW b \in Builders, NEW a \in Artifacts, Compile(b, a)
    PROVE  Core'
  <1> DEFINE s == WithFile(staging[b], a, Image(a))
  <1>1. /\ pc[b] = "building"
        /\ staging' = [staging EXCEPT ![b] = s]
        /\ UNCHANGED <<pc, target, quiet, sources, loaded, mode, digest, mixed>>
    BY DEF Compile, rendering
  <1>2. /\ staging[b] \in Directories /\ Bracketed(staging[b].files, loaded[b], digest[b].header, header, mixed)
        /\ digest[b] \in Digests /\ digest[b].rendered = loaded[b] /\ digest[b].header <= header
    BY <1>1 DEF Core, BuilderInv, Digested, Filling
  <1>3. /\ Image(a) \in Images /\ Image(a).header = header /\ header \in Nat
        /\ ~ mixed => Image(a).recipe = loaded[b]
    <2>1. wrapper[a] \in Recipes /\ (~ mixed => wrapper[a] = loaded[b])
      BY DEF Compile, WrittenInv, Written, Ended
    <2> QED
      BY <2>1, ControlsAssumption DEF Image, Images, Core, Shape
  <1>4. s \in Directories /\ s.files = [staging[b].files EXCEPT ![a] = Image(a)]
    BY <1>2, <1>3 DEF Directories, WithFile
  <1> HIDE DEF s
  <1>5. Bracketed(s.files, loaded[b], digest[b].header, header, mixed)
    <2> SUFFICES ASSUME NEW c \in Artifacts, s.files[c] # Absent
                 PROVE  /\ ~ mixed => s.files[c].recipe = loaded[b]
                        /\ digest[b].header <= s.files[c].header
                        /\ s.files[c].header <= header
      BY DEF Bracketed
    <2>1. CASE c = a
      <3>1. s.files[c] = Image(a)
        BY <1>2, <1>4, <2>1 DEF Directories
      <3> QED
        BY <1>2, <1>3, <3>1
    <2>2. CASE c # a
      <3>1. s.files[c] = staging[b].files[c]
        BY <1>2, <1>4, <2>2 DEF Directories
      <3> QED
        BY <1>2, <3>1 DEF Bracketed
    <2> QED
      BY <2>1, <2>2
  <1>6. Shape'
    BY <1>1, <1>4 DEF Core, Shape, sources
  <1>7. /\ staging'[b] = s
        /\ \A x \in Builders \ {b} : /\ pc'[x] = pc[x] /\ loaded'[x] = loaded[x]
                                     /\ digest'[x] = digest[x] /\ staging'[x] = staging[x]
    BY <1>1 DEF Core, Shape
  <1>8. BuilderInv("building", loaded[b], digest[b], s, header, mixed)
    BY <1>2, <1>4, <1>5 DEF BuilderInv, Filling, Full, Stamped, Empty
  <1>9. header' = header /\ mixed' = mixed /\ TargetInv(target', header, mixed)
    BY <1>1 DEF Core, sources
  <1> QED
    BY <1>1, <1>6, <1>7, <1>8, <1>9, LocalStep

(* Removing a staging directory. *)
LEMMA DropPreserves ==
    ASSUME Core, NEW b \in Builders, Goto(b, "failed"),
           staging' = [staging EXCEPT ![b] = Absent],
           UNCHANGED <<target, quiet, sources, loaded, mode, digest, mixed>>
    PROVE  Core'
  <1>1. Shape'
    BY DEF Core, Shape, Goto, sources, Places, Ended
  <1>2. /\ pc'[b] = "failed" /\ staging'[b] = Absent
        /\ \A x \in Builders \ {b} : /\ pc'[x] = pc[x] /\ loaded'[x] = loaded[x]
                                     /\ digest'[x] = digest[x] /\ staging'[x] = staging[x]
    BY DEF Core, Shape, Goto
  <1>3. BuilderInv(pc'[b], loaded'[b], digest'[b], staging'[b], header, mixed)
    BY <1>2 DEF BuilderInv, Digested, Filling, Full, Stamped, Empty
  <1>4. header' = header /\ mixed' = mixed /\ TargetInv(target', header, mixed)
    BY DEF Core, sources
  <1> QED
    BY <1>1, <1>2, <1>3, <1>4, LocalStep

LEMMA ComparePreserves ==
    ASSUME Core, NEW b \in Builders, Compare(b)
    PROVE  Core'
  <1>1. CASE second[b] = staging[b].files
    <2>1. /\ Goto(b, "stamp") /\ pc[b] = "rebuilding"
          /\ UNCHANGED <<staging, target, quiet, sources, loaded, mode, digest, mixed>>
      BY <1>1 DEF Compare, rendering
    <2> QED
      BY <2>1, GotoStep DEF Places, Digested, Filling, Full, Stamped, Empty
  <1>2. CASE second[b] # staging[b].files
    BY <1>2, DropPreserves DEF Compare, rendering
  <1> QED
    BY <1>1, <1>2

LEMMA StampPreserves ==
    ASSUME Core, NEW b \in Builders, WriteStamp(b)
    PROVE  Core'
  <1> DEFINE s == [staging[b] EXCEPT !.stamp = digest[b]]
  <1>1. /\ pc[b] = "stamp" /\ pc' = [pc EXCEPT ![b] = "clear"]
        /\ staging' = [staging EXCEPT ![b] = s]
        /\ UNCHANGED <<target, quiet, sources, loaded, mode, digest, mixed>>
    BY DEF WriteStamp, Goto, rendering
  <1>2. /\ BuilderInv("stamp", loaded[b], digest[b], staging[b], header, mixed)
        /\ staging[b] \in Directories /\ digest[b] \in Digests
    BY <1>1 DEF Core, BuilderInv, Digested, Filling
  <1>3. s \in Directories /\ s.files = staging[b].files /\ s.stamp = digest[b]
    BY <1>2 DEF Directories
  <1> HIDE DEF s
  <1>4. Shape'
    BY <1>1, <1>3 DEF Core, Shape, sources, Places, Installing
  <1>5. /\ pc'[b] = "clear" /\ staging'[b] = s
        /\ \A x \in Builders \ {b} : /\ pc'[x] = pc[x] /\ loaded'[x] = loaded[x]
                                     /\ digest'[x] = digest[x] /\ staging'[x] = staging[x]
    BY <1>1 DEF Core, Shape
  <1>6. BuilderInv("clear", loaded[b], digest[b], s, header, mixed)
    BY <1>2, <1>3 DEF BuilderInv, Digested, Filling, Full, Stamped, Empty
  <1>7. header' = header /\ mixed' = mixed /\ TargetInv(target', header, mixed)
    BY <1>1 DEF Core, sources
  <1> QED
    BY <1>1, <1>4, <1>5, <1>6, <1>7, LocalStep

LEMMA RenamesPreserve ==
    ASSUME Core, NEW b \in Builders, MoveAway(b) \/ Publish(b),
           UNCHANGED <<sources, loaded, mode, digest, second, rendering>>
    PROVE  Core'
  <1> USE DEF Places, Ended, Installing, Digested, Filling, Full, Stamped, Empty
  <1>1. CASE MoveAway(b)
    <2>1. /\ pc[b] = "move" /\ pc' = [pc EXCEPT ![b] = "publish"]
          /\ target' = Absent /\ UNCHANGED <<staging, quiet>>
      BY <1>1 DEF MoveAway, Goto
    <2>2. Shape'
      BY <2>1 DEF Core, Shape, sources
    <2>3. /\ pc'[b] = "publish"
          /\ \A x \in Builders \ {b} : pc'[x] = pc[x]
      BY <2>1 DEF Core, Shape
    <2>4. BuilderInv("move", loaded[b], digest[b], staging[b], header, mixed)
      BY <2>1 DEF Core
    <2>5. BuilderInv("publish", loaded[b], digest[b], staging[b], header, mixed)
      BY <2>4 DEF BuilderInv
    <2>6. header' = header /\ mixed' = mixed /\ TargetInv(target', header, mixed)
      BY <2>1 DEF TargetInv, sources, rendering
    <2> QED
      BY <2>1, <2>2, <2>3, <2>5, <2>6, LocalStep
  <1>2. CASE Publish(b)
    <2>1. /\ pc[b] = "publish" /\ pc' = [pc EXCEPT ![b] = "sweep"]
          /\ target' = staging[b] /\ staging' = [staging EXCEPT ![b] = Absent]
          /\ UNCHANGED quiet
      BY <1>2 DEF Publish, Goto
    <2>2. Shape'
      BY <2>1 DEF Core, Shape, sources
    <2>3. /\ pc'[b] = "sweep" /\ staging'[b] = Absent
          /\ \A x \in Builders \ {b} : pc'[x] = pc[x] /\ staging'[x] = staging[x]
      BY <2>1 DEF Core, Shape
    <2>4. BuilderInv("publish", loaded[b], digest[b], staging[b], header, mixed)
      BY <2>1 DEF Core
    <2>5. BuilderInv("sweep", loaded[b], digest[b], Absent, header, mixed)
      BY DEF BuilderInv
    <2>6. TargetInv(staging[b], header, mixed)
      BY <2>4 DEF BuilderInv, TargetInv
    <2>7. header' = header /\ mixed' = mixed
      BY DEF sources, rendering
    <2> QED
      BY <2>1, <2>2, <2>3, <2>5, <2>6, <2>7, LocalStep
  <1> QED
    BY <1>1, <1>2

LEMMA EditPreserves ==
    ASSUME Core, Edit
    PROVE  Core'
  <1>1. /\ recipe' \in Recipes /\ header' \in Headers /\ header <= header'
        /\ UNCHANGED <<pc, staging, target, loaded, mode, digest, mixed>>
        /\ quiet' \in [Builders -> BOOLEAN]
    <2>1. recipe \in 1..MaxRecipe /\ header \in 1..MaxHeader
      BY DEF Core, Shape, Recipes, Headers
    <2>2. MaxRecipe \in Nat /\ MaxHeader \in Nat
      BY ControlsAssumption
    <2>3. CASE recipe < MaxRecipe /\ EditTo(recipe + 1, header)
      BY <2>1, <2>2, <2>3 DEF EditTo, Disturb, rendering, Recipes, Headers
    <2>4. CASE header < MaxHeader /\ EditTo(recipe, header + 1)
      BY <2>1, <2>2, <2>4 DEF EditTo, Disturb, rendering, Recipes, Headers
    <2> QED
      BY <2>3, <2>4 DEF Edit
  <1>2. Shape'
    BY <1>1 DEF Core, Shape
  <1>3. header \in Headers /\ TargetInv(target, header, mixed)
    BY DEF Core, Shape
  <1>4. ASSUME NEW b \in Builders
        PROVE  BuilderInv(pc[b], loaded[b], digest[b], staging[b], header', mixed)
    <2>1. BuilderInv(pc[b], loaded[b], digest[b], staging[b], header, mixed)
      BY DEF Core
    <2> QED
      BY <1>1, <1>3, <2>1, BuilderGrows
  <1>5. TargetInv(target, header', mixed)
    BY <1>1, <1>3, TargetGrows
  <1> QED
    BY <1>1, <1>2, <1>4, <1>5 DEF Core

LEMMA NextCore == IInv /\ [Next]_vars => Core'
  <1> SUFFICES ASSUME Core, WrittenInv, [Next]_vars PROVE Core'
    BY DEF IInv
  <1>1. ASSUME NEW b \in Builders, BuilderStep(b) PROVE Core'
    <2>1. CASE Main(b)
      BY <2>1, MainPreserves
    <2>2. CASE TakeDigest(b)
      BY <2>2, DigestPreserves
    <2>3. CASE MakeStaging(b)
      BY <2>3, StagingPreserves
    <2>4. ASSUME NEW a \in Artifacts, Compile(b, a) PROVE Core'
      BY <2>4, CompilePreserves
    <2>5. ASSUME NEW a \in Artifacts, Recompile(b, a) PROVE Core'
      BY <2>5 DEF Recompile, Core, Shape, sources, rendering
    <2>11. ASSUME NEW a \in Artifacts, WriteWrapper(b, a) PROVE Core'
      BY <2>11 DEF WriteWrapper, Core, Shape, sources, installVars
    <2>6. CASE CompileFails(b)
      BY <2>6, DropPreserves DEF CompileFails, rendering
    <2>7. CASE Compare(b)
      BY <2>7, ComparePreserves
    <2>8. CASE WriteStamp(b)
      BY <2>8, StampPreserves
    <2>9. CASE SkipCurrent(b) \/ FinishBuild(b) \/ RecompileFails(b) \/ StampRaises(b) \/ Finish(b)
      BY <2>9, MovesPreserve
    <2>10. CASE InstallStep(b) /\ UNCHANGED <<sources, loaded, mode, digest, second, rendering>>
      BY <2>10, MovesPreserve, RenamesPreserve DEF InstallStep
    <2> QED
      BY <1>1, <2>1, <2>2, <2>3, <2>4, <2>5, <2>6, <2>7, <2>8, <2>9, <2>10, <2>11 DEF BuilderStep
  <1>2. CASE Edit
    BY <1>2, EditPreserves
  <1>3. CASE UNCHANGED vars
    BY <1>3 DEF Core, Shape, vars, installVars, sources, rendering
  <1> QED
    BY <1>1, <1>2, <1>3 DEF Next

LEMMA InitWritten == Init => WrittenInv
  BY DEF Init, WrittenInv, Together, Written, Unbuilt

(* A step other than Main is of a builder at work and starts no other.     *)
LEMMA NobodyStarts ==
    ASSUME Core, NEW b \in Builders, BuilderStep(b), ~ Main(b)
    PROVE  \A c \in Builders : pc'[c] \notin Ended => pc[c] \notin Ended
  <1>1. pc[b] \notin Ended
    BY DEF BuilderStep, TakeDigest, SkipCurrent, MakeStaging, WriteWrapper, Compile, Recompile,
           CompileFails, FinishBuild, RecompileFails, Compare, WriteStamp, StampRaises, Finish,
           InstallStep, StartClear, EndClear, Look, MoveAway, Publish, RenameRaises, Crash, Live, Ended
  <1>2. \A c \in Builders \ {b} : pc'[c] = pc[c]
    <2>1. ASSUME NEW p, Goto(b, p) PROVE \A c \in Builders \ {b} : pc'[c] = pc[c]
      BY <2>1 DEF Goto, Core, Shape
    <2>2. ASSUME InstallStep(b) PROVE \A c \in Builders \ {b} : pc'[c] = pc[c]
      BY <2>1, <2>2 DEF InstallStep, StartClear, EndClear, Look, MoveAway, Publish, RenameRaises, Crash
    <2> QED
      BY <2>1, <2>2
      DEF BuilderStep, TakeDigest, SkipCurrent, MakeStaging, WriteWrapper, Compile, Recompile,
          CompileFails, FinishBuild, RecompileFails, Compare, WriteStamp, StampRaises, Finish,
          installVars
  <1> QED
    BY <1>1, <1>2

(* A step that starts nobody and leaves the wrappers alone.                *)
LEMMA WrittenKept ==
    ASSUME WrittenInv, UNCHANGED <<wrapper, mixed, loaded>>,
           wrote' \in [Builders -> SUBSET Artifacts],
           \A c \in Builders : wrote'[c] \subseteq wrote[c],
           \A c \in Builders : pc'[c] \notin Ended => pc[c] \notin Ended
    PROVE  WrittenInv'
  BY DEF WrittenInv, Together, Written

(* A builder at work writes what all builders at work would write.         *)
LEMMA WriteWritten ==
    ASSUME Core, WrittenInv, NEW b \in Builders, NEW a \in Artifacts, WriteWrapper(b, a)
    PROVE  WrittenInv'
  <1>1. /\ wrapper' = [wrapper EXCEPT ![a] = loaded[b]]
        /\ wrote' = [wrote EXCEPT ![b] = wrote[b] \cup {a}]
        /\ UNCHANGED <<loaded, pc, mixed>>
        /\ pc[b] \notin Ended
    BY DEF WriteWrapper, installVars, Ended
  <1>2. loaded \in [Builders -> Recipes]
    BY DEF Core, Shape
  <1>3. /\ wrapper' \in [Artifacts -> Recipes \cup {Absent}]
        /\ wrote' \in [Builders -> SUBSET Artifacts]
    BY <1>1, <1>2 DEF WrittenInv
  <1>4. ASSUME NEW c \in Builders, pc'[c] \notin Ended, NEW x \in wrote'[c]
        PROVE  wrapper'[x] \in Recipes /\ (~ mixed' => wrapper'[x] = loaded'[c])
    <2>1. CASE x = a
      <3>1. wrapper'[x] = loaded[b]
        BY <1>1, <2>1 DEF WrittenInv
      <3>2. ~ mixed => loaded[c] = loaded[b]
        BY <1>1, <1>4 DEF WrittenInv, Together
      <3> QED
        BY <1>1, <1>2, <3>1, <3>2
    <2>2. CASE x # a
      <3>1. x \in wrote[c] /\ wrapper'[x] = wrapper[x]
        BY <1>1, <1>4, <2>2 DEF WrittenInv
      <3> QED
        BY <1>1, <1>4, <3>1 DEF WrittenInv, Written
    <2> QED
      BY <2>1, <2>2
  <1>5. Together(mixed', pc', loaded')
    BY <1>1 DEF WrittenInv
  <1> QED
    BY <1>3, <1>4, <1>5 DEF WrittenInv, Written

(* A builder that starts has written nothing; if it imports another recipe *)
(* than a builder at work, recipes have mixed.                             *)
LEMMA MainWritten ==
    ASSUME Core, WrittenInv, NEW b \in Builders, Main(b)
    PROVE  WrittenInv'
  <1>1. /\ wrapper' = wrapper /\ wrote' = [wrote EXCEPT ![b] = {}]
        /\ loaded'[b] = recipe /\ (mixed => mixed')
        /\ \A c \in Builders \ {b} : loaded'[c] = loaded[c] /\ pc'[c] = pc[c]
    BY DEF Main, Begin, Goto, Core, Shape
  <1>2. ~ mixed' => \A c \in Builders : pc[c] \notin Ended => loaded[c] = recipe
    BY DEF Main, Live
  <1>3. ~ mixed' => \A c \in Builders : pc'[c] \notin Ended => loaded'[c] = recipe
    <2> SUFFICES ASSUME ~ mixed', NEW c \in Builders, pc'[c] \notin Ended
                 PROVE  loaded'[c] = recipe
      OBVIOUS
    <2>1. CASE c = b
      BY <1>1, <2>1
    <2>2. CASE c # b
      BY <1>1, <1>2, <2>2
    <2> QED
      BY <2>1, <2>2
  <1>4. Together(mixed', pc', loaded')
    BY <1>3 DEF Together
  <1>5. Written(mixed', pc', loaded', wrapper', wrote')
    <2> SUFFICES ASSUME NEW c \in Builders, pc'[c] \notin Ended, NEW a \in wrote'[c]
                 PROVE  wrapper'[a] \in Recipes /\ (~ mixed' => wrapper'[a] = loaded'[c])
      BY DEF Written
    <2>1. c # b
      BY <1>1 DEF WrittenInv
    <2>2. wrote'[c] = wrote[c] /\ pc'[c] = pc[c] /\ loaded'[c] = loaded[c]
      BY <1>1, <2>1 DEF WrittenInv
    <2>3. wrapper[a] \in Recipes /\ (~ mixed => wrapper[a] = loaded[c])
      BY <2>2 DEF WrittenInv, Written
    <2> QED
      BY <1>1, <2>2, <2>3
  <1> QED
    BY <1>1, <1>4, <1>5 DEF WrittenInv

LEMMA NextWritten == IInv /\ [Next]_vars => WrittenInv'
  <1> SUFFICES ASSUME Core, WrittenInv, [Next]_vars PROVE WrittenInv'
    BY DEF IInv
  <1>1. ASSUME NEW b \in Builders, BuilderStep(b) PROVE WrittenInv'
    <2>1. CASE Main(b)
      BY <2>1, MainWritten
    <2>2. ASSUME NEW a \in Artifacts, WriteWrapper(b, a) PROVE WrittenInv'
      BY <2>2, WriteWritten
    <2>3. CASE ~ Main(b) /\ FinishBuild(b)
      <3>1. /\ UNCHANGED <<wrapper, mixed, loaded>>
            /\ wrote' = [wrote EXCEPT ![b] = {}]
        BY <2>3 DEF FinishBuild
      <3>2. \A c \in Builders : pc'[c] \notin Ended => pc[c] \notin Ended
        BY <1>1, <2>3, NobodyStarts
      <3>3. /\ wrote' \in [Builders -> SUBSET Artifacts]
            /\ \A c \in Builders : wrote'[c] \subseteq wrote[c]
        BY <3>1 DEF WrittenInv
      <3> QED
        BY <3>1, <3>2, <3>3, WrittenKept
    <2>4. CASE ~ Main(b) /\ UNCHANGED <<wrapper, mixed, loaded, wrote>>
      <3>1. \A c \in Builders : pc'[c] \notin Ended => pc[c] \notin Ended
        BY <1>1, <2>4, NobodyStarts
      <3> QED
        BY <2>4, <3>1, WrittenKept DEF WrittenInv
    <2> QED
      BY <1>1, <2>1, <2>2, <2>3, <2>4
      DEF BuilderStep, TakeDigest, SkipCurrent, MakeStaging, Compile, Recompile, CompileFails,
          RecompileFails, Compare, WriteStamp, StampRaises, Finish, rendering
  <1>2. CASE Edit \/ UNCHANGED vars
    <2>1. UNCHANGED <<pc, wrapper, mixed, loaded, wrote>>
      BY <1>2 DEF Edit, EditTo, vars, installVars, rendering
    <2> QED
      BY <2>1 DEF WrittenInv
  <1> QED
    BY <1>1, <1>2 DEF Next

THEOREM IInvHolds == Spec => []IInv
  <1>1. Init => IInv
    BY InitCore, InitWritten DEF IInv
  <1>2. IInv /\ [Next]_vars => IInv'
    BY NextCore, NextWritten DEF IInv
  <1> QED
    BY <1>1, <1>2, PTL DEF Spec

LEMMA TypeFromIInv == IInv => TypeOK
  <1> SUFFICES ASSUME IInv PROVE TypeOK
    OBVIOUS
  <1>1. ASSUME NEW b \in Builders
        PROVE  /\ pc[b] \in Places
               /\ pc[b] \in {"rebuilding", "stamp"} => Complete(staging[b])
               /\ pc[b] \in {"clear", "clearing", "look", "move", "publish"} =>
                      Complete(staging[b]) /\ staging[b].stamp # Absent
               /\ pc[b] \in {"sweep", "sweeping", "swept", "installed", "current"} =>
                      staging[b] = Absent
    <2>1. BuilderInv(pc[b], loaded[b], digest[b], staging[b], header, mixed)
      BY DEF IInv, Core
    <2> QED
      BY <2>1, ControlsAssumption
      DEF IInv, Core, Shape, BuilderInv, Digested, Filling, Full, Stamped, Empty, Complete
  <1> QED
    BY <1>1 DEF IInv, Core, Shape, TypeOK, Places

(* Type correctness: an installing builder holds a complete, stamped       *)
(* staging directory.                                                      *)
THEOREM ControlsTypeCorrect == Spec => []TypeOK
  BY IInvHolds, TypeFromIInv, PTL

(* Builds that are killed anywhere, of any number of builders, leave the   *)
(* complete output of one rendering, the one in its stamp, until builders  *)
(* of different recipes have been at work at once.                         *)
THEOREM TargetStaysOneBuild == Spec => []TargetIsOneBuild
  <1>1. IInv => TargetIsOneBuild
    BY ControlsAssumption DEF IInv, Core, TargetInv, TargetIsOneBuild, Complete, Bracketed
  <1> QED
    BY <1>1, IInvHolds, PTL

(* As long as contents do not come back and recipes have not mixed,        *)
(* --check accepts nothing that was compiled from other sources than those *)
(* on disk.                                                                *)
THEOREM CheckStaysSound == Spec => []CheckIsSound
  <1>1. IInv => CheckIsSound
    <2> SUFFICES ASSUME IInv, ~ mixed, IsCurrent(DigestNow(recipe)), NEW a \in Artifacts
                 PROVE  target.files[a] = [recipe |-> recipe, header |-> header]
      BY DEF CheckIsSound
    <2>1. target # Absent /\ target.stamp = DigestNow(recipe) /\ target.files[a] # Absent
      BY DEF IsCurrent, Complete
    <2>2. target.stamp.rendered = recipe /\ target.stamp.header = header
      BY <2>1 DEF DigestNow
    <2>3. /\ target \in Directories /\ header \in Nat
          /\ Bracketed(target.files, recipe, header, header, mixed)
      BY <2>1, <2>2, ControlsAssumption DEF IInv, Core, Shape, TargetInv
    <2>4. target.files[a] \in Images
      BY <2>1, <2>3 DEF Directories
    <2>5. target.files[a].recipe = recipe /\ target.files[a].header = header
      BY <2>1, <2>3, <2>4, ControlsAssumption DEF Bracketed, Images
    <2> QED
      BY <2>4, <2>5 DEF Images
  <1> QED
    BY <1>1, IInvHolds, PTL

-----------------------------------------------------------------------------
(* --verify-reproducible.  Headers only grow: nothing of the second build  *)
(* is of older headers than anything of the first one.                     *)
RebuildInv(p, m, s, n) ==
    /\ n \in [Artifacts -> Images \cup {Absent}]
    /\ p \in {"digest", "decide", "building"} => n = Unbuilt
    /\ p = "rebuilding" =>
           \A a, c \in Artifacts : n[a] # Absent => s.files[c].header <= n[a].header
    /\ m = "verify" /\ p = "stamp" =>
           \A a, c \in Artifacts : s.files[a].header = s.files[c].header

Rebuilds ==
    /\ second = [b \in Builders |-> second[b]]
    /\ \A b \in Builders : RebuildInv(pc[b], mode[b], staging[b], second[b])

(* A step of one builder leaves what the others have in memory alone.      *)
LEMMA OthersStay ==
    ASSUME Core, WrittenInv, Rebuilds, NEW b \in Builders, BuilderStep(b)
    PROVE  /\ second' = [x \in Builders |-> second'[x]]
           /\ \A x \in Builders \ {b} :
                 /\ pc'[x] = pc[x] /\ staging'[x] = staging[x] /\ mode'[x] = mode[x]
                 /\ second'[x] = second[x] /\ loaded'[x] = loaded[x]
                 /\ digest'[x] = digest[x] /\ wrote'[x] = wrote[x]
  <1> DEFINE Stay == /\ second' = [x \in Builders |-> second'[x]]
                     /\ \A x \in Builders \ {b} :
                          /\ pc'[x] = pc[x] /\ staging'[x] = staging[x] /\ mode'[x] = mode[x]
                          /\ second'[x] = second[x] /\ loaded'[x] = loaded[x]
                          /\ digest'[x] = digest[x] /\ wrote'[x] = wrote[x]
  <1> USE DEF Core, Shape, WrittenInv, Rebuilds, Goto, rendering
  <1>1. CASE Main(b)
    BY <1>1 DEF Main, Begin
  <1>2. CASE TakeDigest(b) \/ SkipCurrent(b) \/ MakeStaging(b)
    BY <1>2 DEF TakeDigest, SkipCurrent, MakeStaging
  <1>3. ASSUME NEW a \in Artifacts, WriteWrapper(b, a) \/ Compile(b, a) \/ Recompile(b, a)
        PROVE  Stay
    BY <1>3 DEF WriteWrapper, Compile, Recompile, installVars
  <1>4. CASE CompileFails(b) \/ FinishBuild(b) \/ RecompileFails(b)
    BY <1>4 DEF CompileFails, FinishBuild, RecompileFails
  <1>5. CASE Compare(b)
    <2>1. CASE second[b] = staging[b].files
      BY <1>5, <2>1 DEF Compare
    <2>2. CASE second[b] # staging[b].files
      BY <1>5, <2>2 DEF Compare
    <2> QED
      BY <2>1, <2>2
  <1>6. CASE WriteStamp(b) \/ StampRaises(b) \/ Finish(b)
    BY <1>6 DEF WriteStamp, StampRaises, Finish
  <1>7. CASE InstallStep(b) /\ UNCHANGED <<sources, loaded, mode, digest, second, rendering>>
    <2>1. CASE StartClear(b) \/ EndClear(b) \/ Look(b)
      BY <1>7, <2>1 DEF StartClear, EndClear, Look
    <2>2. CASE MoveAway(b) \/ Publish(b) \/ RenameRaises(b) \/ Crash(b)
      BY <1>7, <2>2 DEF MoveAway, Publish, RenameRaises, Crash
    <2> QED
      BY <1>7, <2>1, <2>2 DEF InstallStep
  <1> QED
    BY <1>1, <1>2, <1>3, <1>4, <1>5, <1>6, <1>7 DEF BuilderStep

LEMMA InitRebuilds == Init => Rebuilds
  BY DEF Init, Rebuilds, RebuildInv, Unbuilt

(* Builders at work except in the two builds of --verify-reproducible.     *)
LEMMA RebuildMoves ==
    ASSUME Core, WrittenInv, Rebuilds, NEW b \in Builders,
           \/ Main(b) \/ TakeDigest(b) \/ SkipCurrent(b) \/ MakeStaging(b) \/ CompileFails(b)
           \/ RecompileFails(b) \/ WriteStamp(b) \/ StampRaises(b) \/ Finish(b)
           \/ \E a \in Artifacts : WriteWrapper(b, a) \/ Compile(b, a)
           \/ /\ InstallStep(b)
              /\ UNCHANGED <<sources, loaded, mode, digest, second, rendering>>
    PROVE  RebuildInv(pc'[b], mode'[b], staging'[b], second'[b])
  <1> USE DEF Core, Shape, Rebuilds, Goto
  <1>1. RebuildInv(pc[b], mode[b], staging[b], second[b])
    OBVIOUS
  <1>2. CASE Main(b)
    <2>1. pc'[b] = "digest" /\ second'[b] = Unbuilt
      BY <1>2 DEF Main, Begin
    <2> QED
      BY <2>1 DEF RebuildInv, Unbuilt
  <1>3. CASE TakeDigest(b) \/ MakeStaging(b)
    <2>1. /\ pc[b] \in {"digest", "decide"} /\ pc'[b] \in {"decide", "building"}
          /\ second' = second
      BY <1>3 DEF TakeDigest, MakeStaging
    <2> QED
      BY <1>1, <2>1 DEF RebuildInv
  <1>4. CASE \E a \in Artifacts : WriteWrapper(b, a)
    BY <1>1, <1>4 DEF WriteWrapper, installVars
  <1>5. CASE \E a \in Artifacts : Compile(b, a)
    <2>1. pc[b] = "building" /\ pc' = pc /\ second' = second
      BY <1>5 DEF Compile
    <2> QED
      BY <1>1, <2>1 DEF RebuildInv
  <1>6. CASE SkipCurrent(b) \/ CompileFails(b) \/ RecompileFails(b) \/ StampRaises(b) \/ Finish(b)
             \/ WriteStamp(b)
    <2>1. /\ pc'[b] \in {"current", "failed", "installed", "clear"}
          /\ second' = second
      BY <1>6
      DEF SkipCurrent, CompileFails, RecompileFails, StampRaises, Finish, WriteStamp
    <2> QED
      BY <1>1, <2>1 DEF RebuildInv
  <1>7. CASE InstallStep(b) /\ UNCHANGED <<sources, loaded, mode, digest, second, rendering>>
    <2>1. pc'[b] \in Installing \cup {"stuck", "crashed"} /\ second' = second
      BY <1>7
      DEF InstallStep, StartClear, EndClear, Look, MoveAway, Publish, RenameRaises, Crash,
          Installing
    <2> QED
      BY <1>1, <2>1 DEF RebuildInv, Installing
  <1> QED
    BY <1>2, <1>3, <1>4, <1>5, <1>6, <1>7

(* The second build begins with nothing, and goes on with the headers as   *)
(* they are, which the first build cannot have seen newer.                 *)
LEMMA RebuildGoesOn ==
    ASSUME Core, WrittenInv, Rebuilds, NEW b \in Builders,
           \/ FinishBuild(b) \/ Compare(b)
           \/ \E a \in Artifacts : Recompile(b, a)
    PROVE  RebuildInv(pc'[b], mode'[b], staging'[b], second'[b])
  <1>1. /\ RebuildInv(pc[b], mode[b], staging[b], second[b])
        /\ BuilderInv(pc[b], loaded[b], digest[b], staging[b], header, mixed)
        /\ pc[b] \in Places
    BY DEF Core, Shape, Rebuilds
  <1>2. CASE FinishBuild(b)
    <2>1. /\ pc[b] = "building" /\ second' = second /\ mode' = mode
          /\ pc'[b] = IF mode[b] = "verify" THEN "rebuilding" ELSE "stamp"
      BY <1>2 DEF FinishBuild, Goto, Core, Shape
    <2>2. second[b] = Unbuilt
      BY <1>1, <2>1 DEF RebuildInv
    <2> QED
      BY <1>1, <2>1, <2>2 DEF RebuildInv, Unbuilt
  <1>3. ASSUME NEW a \in Artifacts, Recompile(b, a)
        PROVE  RebuildInv(pc'[b], mode'[b], staging'[b], second'[b])
    <2>1. /\ pc[b] = "rebuilding" /\ a \in wrote[b]
          /\ UNCHANGED <<pc, mode, staging>>
          /\ second' = [second EXCEPT ![b][a] = Image(a)]
      BY <1>3 DEF Recompile
    <2>2. second[b] \in [Artifacts -> Images \cup {Absent}]
      BY <1>1 DEF RebuildInv
    <2>3. second'[b] = [second[b] EXCEPT ![a] = Image(a)]
      BY <2>1 DEF Rebuilds
    <2>4. Image(a) \in Images /\ Image(a).header = header
      <3>1. wrapper[a] \in Recipes
        BY <2>1 DEF WrittenInv, Written, Ended
      <3> QED
        BY <3>1 DEF Image, Images, Core, Shape
    <2>5. ASSUME NEW c \in Artifacts PROVE staging[b].files[c].header <= header
      BY <1>1, <2>1 DEF BuilderInv, Filling, Full, Bracketed
    <2>6. ASSUME NEW x \in Artifacts, NEW c \in Artifacts, second'[b][x] # Absent
          PROVE  staging[b].files[c].header <= second'[b][x].header
      <3>1. CASE x = a
        BY <2>2, <2>3, <2>4, <2>5, <3>1
      <3>2. CASE x # a
        <4>1. second'[b][x] = second[b][x]
          BY <2>2, <2>3, <3>2
        <4> QED
          BY <1>1, <2>1, <2>6, <4>1 DEF RebuildInv
      <3> QED
        BY <3>1, <3>2
    <2>7. second'[b] \in [Artifacts -> Images \cup {Absent}]
      BY <2>2, <2>3, <2>4
    <2> QED
      BY <2>1, <2>6, <2>7 DEF RebuildInv
  <1>4. CASE Compare(b) /\ second[b] = staging[b].files
    <2>1. /\ pc[b] = "rebuilding" /\ pc'[b] = "stamp"
          /\ UNCHANGED <<mode, staging, second>>
          /\ \A a \in Artifacts : second[b][a] # Absent
      BY <1>4 DEF Compare, Goto, Core, Shape
    <2>2. second[b] \in [Artifacts -> Images \cup {Absent}]
      BY <1>1 DEF RebuildInv
    <2>3. ASSUME NEW a \in Artifacts, NEW c \in Artifacts
          PROVE  staging[b].files[a].header = staging[b].files[c].header
      <3>1. /\ staging[b].files[c].header <= staging[b].files[a].header
            /\ staging[b].files[a].header <= staging[b].files[c].header
        BY <1>1, <1>4, <2>1 DEF RebuildInv
      <3>2. second[b][a] \in Images /\ second[b][c] \in Images
        BY <2>1, <2>2
      <3>3. second[b][a].header \in Headers /\ second[b][c].header \in Headers
        BY <3>2 DEF Images
      <3>4. staging[b].files[a].header \in Nat /\ staging[b].files[c].header \in Nat
        BY <1>4, <3>3, ControlsAssumption
      <3> QED
        BY <3>1, <3>4
    <2> QED
      BY <1>1, <2>1, <2>3 DEF RebuildInv
  <1>5. CASE Compare(b) /\ second[b] # staging[b].files
    <2>1. pc'[b] = "failed" /\ second' = second
      BY <1>5 DEF Compare, Goto, Core, Shape
    <2> QED
      BY <1>1, <2>1 DEF RebuildInv
  <1> QED
    BY <1>2, <1>3, <1>4, <1>5

LEMMA NextRebuilds == IInv /\ Rebuilds /\ [Next]_vars => Rebuilds'
  <1> SUFFICES ASSUME Core, WrittenInv, Rebuilds, [Next]_vars PROVE Rebuilds'
    BY DEF IInv
  <1>1. ASSUME NEW b \in Builders, BuilderStep(b) PROVE Rebuilds'
    <2>1. RebuildInv(pc'[b], mode'[b], staging'[b], second'[b])
      BY <1>1, RebuildMoves, RebuildGoesOn DEF BuilderStep
    <2>2. ASSUME NEW x \in Builders PROVE RebuildInv(pc'[x], mode'[x], staging'[x], second'[x])
      <3>1. CASE x = b
        BY <2>1, <3>1
      <3>2. CASE x # b
        BY <1>1, <3>2, OthersStay DEF Rebuilds
      <3> QED
        BY <3>1, <3>2
    <2>3. second' = [x \in Builders |-> second'[x]]
      BY <1>1, OthersStay
    <2> QED
      BY <2>2, <2>3 DEF Rebuilds
  <1>2. CASE Edit \/ UNCHANGED vars
    <2>1. UNCHANGED <<pc, mode, staging, second>>
      BY <1>2 DEF Edit, EditTo, vars, installVars
    <2> QED
      BY <2>1 DEF Rebuilds
  <1> QED
    BY <1>1, <1>2 DEF Next

(* A build that passes --verify-reproducible saw one version of the        *)
(* headers from its first file to its last, for any number of artifacts,   *)
(* builders and edits.                                                     *)
THEOREM VerifiedStaysUniform == Spec => []VerifiedIsUniform
  <1>1. Init => IInv /\ Rebuilds
    BY InitCore, InitWritten, InitRebuilds DEF IInv
  <1>2. IInv /\ Rebuilds /\ [Next]_vars => (IInv /\ Rebuilds)'
    BY NextCore, NextWritten, NextRebuilds DEF IInv
  <1>3. Rebuilds => VerifiedIsUniform
    BY DEF Rebuilds, RebuildInv, VerifiedIsUniform
  <1> QED
    BY <1>1, <1>2, <1>3, PTL DEF Spec

-----------------------------------------------------------------------------
(* A quiet build.  Sources have not changed since it started and nobody    *)
(* else is at work, so all it has read and written is of the sources on    *)
(* disk, the wrappers in the shared directory included.                    *)
Now == [recipe |-> recipe, header |-> header]

Fresh(files) == \A a \in Artifacts : files[a] # Absent => files[a] = Now

Renamed == {"sweep", "sweeping", "swept", "installed"}

QuietInv(p, l, d, s, r, w, t) ==
    /\ l = recipe
    /\ p \in Digested => d = DigestNow(recipe)
    /\ p \notin Ended => \A a \in r : w[a] = recipe
    /\ p \in Filling => Fresh(s.files)
    /\ p \in Renamed => t # Absent /\ t \in Directories /\ t.stamp = DigestNow(recipe)
                        /\ \A a \in Artifacts : t.files[a] = Now

QuietBuilds ==
    \A b \in Builders :
        quiet[b] => QuietInv(pc[b], loaded[b], digest[b], staging[b], wrote[b], wrapper, target)

QuietAll == Rebuilds /\ QuietRenames /\ QuietBuilds

LEMMA InitQuiet == Init => QuietRenames /\ QuietBuilds
  BY DEF Init, QuietRenames, QuietBuilds

LEMMA CoreFunctional == Core => Functional
  BY DEF Core, Shape, Functional

(* A step of a builder at work concerns no other quiet one.                *)
LEMMA QuietStep ==
    ASSUME Core, QuietRenames, QuietBuilds, NEW b \in Builders, Live(b),
           UNCHANGED <<quiet, sources>>,
           quiet[b] => QuietInv(pc'[b], loaded'[b], digest'[b], staging'[b], wrote'[b],
                                wrapper', target')
    PROVE  QuietBuilds'
  <1> SUFFICES ASSUME NEW x \in Builders, quiet[x]
               PROVE  QuietInv(pc'[x], loaded'[x], digest'[x], staging'[x], wrote'[x],
                               wrapper', target')
    BY DEF QuietBuilds, QuietInv, DigestNow, Fresh, Now, sources
  <1>1. x = b
    BY DEF QuietRenames, Undisturbed
  <1> QED
    BY <1>1

(* Files that a quiet builder compiles are of the sources on disk.         *)
LEMMA QuietCompiles ==
    ASSUME Core, WrittenInv, QuietAll, NEW b \in Builders, NEW a \in Artifacts,
           Compile(b, a) \/ WriteWrapper(b, a), quiet[b]
    PROVE  QuietInv(pc'[b], loaded'[b], digest'[b], staging'[b], wrote'[b], wrapper', target')
  <1>1. QuietInv(pc[b], loaded[b], digest[b], staging[b], wrote[b], wrapper, target)
    BY DEF QuietAll, QuietBuilds
  <1>2. CASE Compile(b, a)
    <2>1. /\ pc[b] = "building" /\ a \in wrote[b]
          /\ UNCHANGED <<pc, target, loaded, digest, wrote, wrapper>>
          /\ staging' = [staging EXCEPT ![b] = WithFile(staging[b], a, Image(a))]
      BY <1>2 DEF Compile, rendering
    <2>2. staging[b] \in Directories
      BY <2>1 DEF Core, BuilderInv, Filling
    <2>3. staging'[b].files = [staging[b].files EXCEPT ![a] = Image(a)]
      BY <2>1 DEF WithFile, Core, Shape
    <2>4. Image(a) = Now
      BY <1>1, <2>1 DEF QuietInv, Image, Now, Ended
    <2>5. Fresh(staging'[b].files)
      BY <1>1, <2>1, <2>2, <2>3, <2>4 DEF QuietInv, Filling, Fresh, Directories
    <2> QED
      BY <1>1, <2>1, <2>5 DEF QuietInv, Renamed
  <1>3. CASE WriteWrapper(b, a)
    <2>1. /\ UNCHANGED <<pc, target, loaded, digest, staging>>
          /\ wrapper' = [wrapper EXCEPT ![a] = loaded[b]]
          /\ wrote'[b] = wrote[b] \cup {a}
          /\ pc[b] \notin Ended
      BY <1>3 DEF WriteWrapper, WrittenInv, installVars, Ended
    <2>2. \A c \in wrote'[b] : wrapper'[c] = recipe
      BY <1>1, <2>1 DEF QuietInv, WrittenInv
    <2> QED
      BY <1>1, <2>1, <2>2 DEF QuietInv
  <1> QED
    BY <1>2, <1>3

(* The rest of the build, up to the stamp. *)
LEMMA QuietGoesOn ==
    ASSUME Core, WrittenInv, QuietAll, NEW b \in Builders, quiet[b],
           \/ TakeDigest(b) \/ SkipCurrent(b) \/ MakeStaging(b) \/ CompileFails(b)
           \/ FinishBuild(b) \/ RecompileFails(b) \/ Compare(b) \/ WriteStamp(b)
           \/ StampRaises(b) \/ Finish(b) \/ \E a \in Artifacts : Recompile(b, a)
    PROVE  QuietInv(pc'[b], loaded'[b], digest'[b], staging'[b], wrote'[b], wrapper', target')
  <1> USE DEF Core, Shape, Goto, rendering
  <1>1. /\ QuietInv(pc[b], loaded[b], digest[b], staging[b], wrote[b], wrapper, target)
        /\ BuilderInv(pc[b], loaded[b], digest[b], staging[b], header, mixed)
    BY DEF QuietAll, QuietBuilds
  <1>2. CASE TakeDigest(b)
    <2>1. /\ pc[b] = "digest" /\ pc'[b] = "decide" /\ digest'[b] = DigestNow(loaded[b])
          /\ UNCHANGED <<target, loaded, staging, wrote, wrapper>>
      BY <1>2 DEF TakeDigest
    <2> QED
      BY <1>1, <2>1 DEF QuietInv, Digested, Filling, Renamed, Ended
  <1>3. CASE MakeStaging(b)
    <2>1. /\ pc[b] = "decide" /\ pc'[b] = "building"
          /\ staging'[b].files = Unbuilt
          /\ UNCHANGED <<target, loaded, digest, wrote, wrapper>>
      BY <1>3 DEF MakeStaging
    <2>2. Fresh(staging'[b].files)
      BY <2>1 DEF Fresh, Unbuilt
    <2> QED
      BY <1>1, <2>1, <2>2 DEF QuietInv, Digested, Renamed, Ended
  <1>4. CASE SkipCurrent(b) \/ CompileFails(b) \/ RecompileFails(b) \/ StampRaises(b)
    <2>1. pc'[b] \in {"current", "failed"} /\ loaded' = loaded
      BY <1>4 DEF SkipCurrent, CompileFails, RecompileFails, StampRaises
    <2> QED
      BY <1>1, <2>1 DEF QuietInv, Digested, Filling, Renamed, Ended
  <1>5. CASE FinishBuild(b)
    <2>1. /\ pc[b] = "building" /\ pc'[b] \in {"rebuilding", "stamp"} /\ wrote'[b] = {}
          /\ UNCHANGED <<target, loaded, digest, staging, wrapper>>
      BY <1>5 DEF FinishBuild, WrittenInv
    <2> QED
      BY <1>1, <2>1 DEF QuietInv, Digested, Filling, Renamed
  <1>6. CASE \E a \in Artifacts : Recompile(b, a)
    BY <1>1, <1>6 DEF Recompile
  <1>7. CASE Compare(b)
    <2>1. /\ pc[b] = "rebuilding"
          /\ UNCHANGED <<target, loaded, digest, wrote, wrapper>>
          /\ \/ pc'[b] = "stamp" /\ UNCHANGED staging
             \/ pc'[b] = "failed"
      BY <1>7 DEF Compare
    <2> QED
      BY <1>1, <2>1 DEF QuietInv, Digested, Filling, Renamed, Ended
  <1>8. CASE WriteStamp(b)
    <2>1. /\ pc[b] = "stamp" /\ pc'[b] = "clear"
          /\ staging' = [staging EXCEPT ![b].stamp = digest[b]]
          /\ UNCHANGED <<target, loaded, digest, wrote, wrapper>>
      BY <1>8 DEF WriteStamp
    <2>2. staging[b] \in Directories
      BY <1>1, <2>1 DEF BuilderInv, Filling
    <2>3. staging'[b].files = staging[b].files
      BY <2>1, <2>2 DEF Directories
    <2> QED
      BY <1>1, <2>1, <2>3 DEF QuietInv, Digested, Filling, Renamed, Ended
  <1>9. CASE Finish(b)
    <2>1. /\ pc[b] = "swept" /\ pc'[b] = "installed"
          /\ UNCHANGED <<target, loaded>>
      BY <1>9 DEF Finish
    <2> QED
      BY <1>1, <2>1 DEF QuietInv, Digested, Filling, Renamed, Ended
  <1> QED
    BY <1>2, <1>3, <1>4, <1>5, <1>6, <1>7, <1>8, <1>9

(* What a quiet builder installs is the directory it has filled. *)
LEMMA QuietPublishes ==
    ASSUME Core, WrittenInv, QuietAll, NEW b \in Builders, quiet[b], InstallStep(b),
           UNCHANGED <<sources, loaded, mode, digest, second, rendering>>
    PROVE  QuietInv(pc'[b], loaded'[b], digest'[b], staging'[b], wrote'[b], wrapper', target')
  <1> USE DEF Core, Shape, Goto, rendering
  <1>1. /\ QuietInv(pc[b], loaded[b], digest[b], staging[b], wrote[b], wrapper, target)
        /\ BuilderInv(pc[b], loaded[b], digest[b], staging[b], header, mixed)
    BY DEF QuietAll, QuietBuilds
  <1>2. CASE StartClear(b) \/ EndClear(b) \/ Look(b)
    <2>1. /\ UNCHANGED <<target, staging>>
          /\ \/ pc[b] \in {"clear", "clearing", "look"} /\ pc'[b] \in {"clearing", "look", "move", "publish"}
             \/ pc[b] \in {"sweep", "sweeping"} /\ pc'[b] \in {"sweeping", "swept"}
      BY <1>2 DEF StartClear, EndClear, Look
    <2> QED
      BY <1>1, <2>1 DEF QuietInv, Digested, Filling, Renamed, Ended
  <1>3. CASE MoveAway(b)
    <2>1. pc[b] = "move" /\ pc'[b] = "publish" /\ UNCHANGED staging
      BY <1>3 DEF MoveAway
    <2> QED
      BY <1>1, <2>1 DEF QuietInv, Digested, Filling, Renamed, Ended
  <1>4. CASE Publish(b)
    <2>1. pc[b] = "publish" /\ pc'[b] = "sweep" /\ target' = staging[b]
      BY <1>4 DEF Publish
    <2>2. /\ staging[b] \in Directories /\ staging[b].stamp = digest[b]
          /\ \A a \in Artifacts : staging[b].files[a] # Absent
          /\ digest[b] = DigestNow(recipe) /\ Fresh(staging[b].files)
      BY <1>1, <2>1 DEF BuilderInv, QuietInv, Digested, Filling, Full, Stamped
    <2>3. staging[b] # Absent
      BY <2>2, ControlsAssumption
    <2>4. \A a \in Artifacts : staging[b].files[a] = Now
      BY <2>2 DEF Fresh
    <2> QED
      BY <1>1, <2>1, <2>2, <2>3, <2>4 DEF QuietInv, Digested, Filling, Renamed, Ended
  <1>5. CASE RenameRaises(b) \/ Crash(b)
    <2>1. pc'[b] \in {"stuck", "crashed"}
      BY <1>5 DEF RenameRaises, Crash
    <2> QED
      BY <1>1, <2>1 DEF QuietInv, Digested, Filling, Renamed, Ended
  <1> QED
    BY <1>2, <1>3, <1>4, <1>5 DEF InstallStep

(* A builder that starts leaves no other one quiet.                        *)
LEMMA QuietMain ==
    ASSUME Core, WrittenInv, NEW b \in Builders, Main(b)
    PROVE  QuietBuilds'
  <1> SUFFICES ASSUME NEW x \in Builders, quiet'[x]
               PROVE  QuietInv(pc'[x], loaded'[x], digest'[x], staging'[x], wrote'[x],
                               wrapper', target')
    BY DEF QuietBuilds, QuietInv, DigestNow, Fresh, Now, Main, sources
  <1>1. x = b
    BY DEF Main, Begin
  <1>2. pc'[b] = "digest" /\ loaded'[b] = recipe /\ wrote'[b] = {}
    BY DEF Main, Begin, Goto, Core, Shape, WrittenInv
  <1> QED
    BY <1>1, <1>2 DEF QuietInv, Digested, Filling, Renamed

LEMMA NextQuiet == IInv /\ QuietAll /\ [Next]_vars => (QuietRenames /\ QuietBuilds)'
  <1> SUFFICES ASSUME Core, WrittenInv, QuietAll, [Next]_vars
               PROVE  QuietRenames' /\ QuietBuilds'
    BY DEF IInv
  <1>1. QuietRenames /\ QuietBuilds /\ Functional
    BY CoreFunctional DEF QuietAll
  <1>2. ASSUME NEW b \in Builders, Main(b) PROVE QuietRenames' /\ QuietBuilds'
    <2>1. Begin(b, "digest")
      BY <1>2 DEF Main
    <2> QED
      BY <1>1, <1>2, <2>1, QuietBegins, QuietMain DEF Renaming
  <1>3. ASSUME NEW b \in Builders, BuilderStep(b), ~ Main(b) PROVE QuietRenames' /\ QuietBuilds'
    <2>1. Live(b)
      BY <1>3
      DEF BuilderStep, TakeDigest, SkipCurrent, MakeStaging, WriteWrapper, Compile, Recompile,
          CompileFails, FinishBuild, RecompileFails, Compare, WriteStamp, StampRaises, Finish,
          InstallStep, StartClear, EndClear, Look, MoveAway, Publish, RenameRaises, Crash,
          Live, Ended
    <2>2. CASE InstallStep(b) /\ UNCHANGED <<sources, loaded, mode, digest, second, rendering>>
      <3>1. QuietRenames'
        BY <1>1, <2>2, QuietInstalls
      <3>2. UNCHANGED <<quiet, sources>>
        BY <2>2
        DEF InstallStep, StartClear, EndClear, Look, MoveAway, Publish, RenameRaises, Crash
      <3>3. QuietBuilds'
        BY <1>1, <2>1, <2>2, <3>2, QuietStep, QuietPublishes
      <3> QED
        BY <3>1, <3>3
    <2>3. ASSUME NEW a \in Artifacts, WriteWrapper(b, a) \/ Compile(b, a) \/ Recompile(b, a)
          PROVE  QuietRenames' /\ QuietBuilds'
      <3>1. UNCHANGED <<pc, quiet, old, target, sources>>
        BY <2>3 DEF WriteWrapper, Compile, Recompile, installVars
      <3>2. QuietRenames'
        BY <1>1, <3>1 DEF QuietRenames, Undisturbed, Live
      <3>3. QuietBuilds'
        BY <1>1, <2>1, <2>3, <3>1, QuietStep, QuietCompiles, QuietGoesOn
      <3> QED
        BY <3>2, <3>3
    <2>4. CASE \/ TakeDigest(b) \/ SkipCurrent(b) \/ MakeStaging(b) \/ CompileFails(b)
               \/ FinishBuild(b) \/ RecompileFails(b) \/ Compare(b) \/ WriteStamp(b)
               \/ StampRaises(b) \/ Finish(b)
      <3>1. UNCHANGED <<quiet, sources>>
        BY <2>4
        DEF TakeDigest, SkipCurrent, MakeStaging, CompileFails, FinishBuild, RecompileFails,
            Compare, WriteStamp, StampRaises, Finish
      <3>2. \E place \in {"decide", "current", "building", "failed", "rebuilding", "stamp",
                          "clear", "installed"} : Goto(b, place)
        BY <2>4
        DEF TakeDigest, SkipCurrent, MakeStaging, CompileFails, FinishBuild, RecompileFails,
            Compare, WriteStamp, StampRaises, Finish
      <3>3. QuietRenames'
        BY <1>1, <2>1, <3>1, <3>2, QuietElsewhere DEF Renaming
      <3>4. QuietBuilds'
        BY <1>1, <2>1, <2>4, <3>1, QuietStep, QuietGoesOn
      <3> QED
        BY <3>3, <3>4
    <2> QED
      BY <1>3, <2>2, <2>3, <2>4 DEF BuilderStep
  <1>4. CASE Edit
    <2>1. quiet' = [b \in Builders |-> FALSE]
      BY <1>4 DEF Edit, EditTo, Disturb
    <2> QED
      BY <2>1 DEF QuietRenames, QuietBuilds
  <1>5. CASE UNCHANGED vars
    BY <1>1, <1>5
    DEF vars, installVars, sources, rendering, QuietRenames, Undisturbed, Live, QuietBuilds,
        QuietInv, DigestNow, Fresh, Now
  <1> QED
    BY <1>2, <1>3, <1>4, <1>5 DEF Next

(* A build that nobody disturbs repairs any wreck: none of its renames     *)
(* raises, and what it installs is compiled from the sources on disk and   *)
(* passes --check, whatever crashed and concurrent builders left before.   *)
THEOREM QuietBuildsRepair == Spec => []QuietBuildRepairs
  <1>1. Init => IInv /\ QuietAll
    BY InitCore, InitWritten, InitRebuilds, InitQuiet DEF IInv, QuietAll
  <1>2. IInv /\ QuietAll /\ [Next]_vars => (IInv /\ QuietAll)'
    BY NextCore, NextWritten, NextRebuilds, NextQuiet DEF IInv, QuietAll
  <1>3. IInv /\ QuietAll => QuietBuildRepairs
    <2> SUFFICES ASSUME IInv, QuietAll, NEW b \in Builders, quiet[b]
                 PROVE  /\ pc[b] # "stuck"
                        /\ pc[b] = "installed" =>
                             /\ IsCurrent(DigestNow(recipe))
                             /\ \A a \in Artifacts :
                                   target.files[a] = [recipe |-> recipe, header |-> header]
      BY DEF QuietBuildRepairs
    <2>1. pc[b] # "stuck"
      BY QuietNotStuck DEF QuietAll
    <2>2. ASSUME pc[b] = "installed"
          PROVE  /\ target \in Directories /\ target # Absent
                 /\ target.stamp = DigestNow(recipe)
                 /\ \A a \in Artifacts : target.files[a] = Now
      BY <2>2 DEF QuietAll, QuietBuilds, QuietInv, Renamed
    <2>3. Now \in Images
      BY DEF Now, Images, IInv, Core, Shape
    <2>4. Now # Absent
      BY <2>3, ControlsAssumption
    <2> QED
      BY <2>1, <2>2, <2>4, ControlsAssumption DEF IsCurrent, Complete, Now
  <1> QED
    BY <1>1, <1>2, <1>3, PTL DEF Spec
=============================================================================
