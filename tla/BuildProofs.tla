----------------------------- MODULE BuildProofs -----------------------------
(* Proofs about the build, for any number of target directories,           *)
(* environments, checkouts and lists of sources: an artifact is of one     *)
(* architecture, and in a build directory that is not shared it is what    *)
(* the script would compile now.                                           *)
EXTENDS Build, TLAPS

USE BuildAssumption DEF BuildAssumption

\* Only an architecture that is compiled for can be selected.
LEMMA ParseArchType ==
    \A value : ParseArch(value) \in {Selected(a) : a \in Archs} \cup {Warning}
BY DEF ParseArch, Archs

LEMMA SelectedArchType ==
    \A e, g : SelectedArch(e, g) \in {Selected(a) : a \in Archs} \cup {Warning, Panic}
<1> TAKE e, g
<1>1. DetectArch(g) \in {Selected(a) : a \in Archs} \cup {Warning}
  BY ParseArchType DEF DetectArch, ParseDetectedArchs
<1> HIDE DEF DetectArch
<1>2. CASE e.archs # Unset
  BY <1>2, ParseArchType DEF SelectedArch
<1>3. CASE e.archs = Unset
  BY <1>1, <1>3, ParseArchType DEF SelectedArch
<1> QED
  BY <1>2, <1>3

\* With neither variable set the host decides.
LEMMA DetectedArch ==
    ASSUME NEW e, NEW g, e.archs = Unset, e.cap = Unset
    PROVE  SelectedArch(e, g) \in {DetectArch(g), Panic}
<1> HIDE DEF DetectArch, Panic
<1> QED
  BY DEF SelectedArch

\* A run that compiles has selected one of the architectures.
LEMMA SelectedKind ==
    ASSUME NEW e, NEW g, SelectedArch(e, g).kind = "archive"
    PROVE  /\ SelectedArch(e, g).arch \in Archs
           /\ SelectedArch(e, g) = Selected(SelectedArch(e, g).arch)
BY SelectedArchType DEF Selected, Warning, Panic

\* Every environment names a checkout.
LEMMA EnvType ==
    /\ \A e \in AllEnvs : e.root \in Roots
    /\ \A t \in Targets : Envs[t] \subseteq AllEnvs
BY DEF AllEnvs

\* What TypeOK says of a script that runs.
LEMMA RunningType ==
    ASSUME TypeOK, NEW t \in Targets, Running(t)
    PROVE  /\ script[t] \in [pc : {"compile", "remove", "pack"}, arch : Archs,
                             seen : Seen, gpus : Gpus, next : Nat \ {0}]
           /\ Dir(t) \in Dirs /\ Dir(t)[2] = script[t].arch
           /\ Sources(t) \in Seq([src : STRING, stem : STRING])
           /\ script[t].seen.env.root \in Roots
<1>1. script[t] \in [pc : {"compile", "remove", "pack"}, arch : Archs,
                     seen : Seen, gpus : Gpus, next : Nat \ {0}]
  BY DEF TypeOK, Running, Resting
<1>2. Dir(t) \in Dirs /\ Dir(t)[2] = script[t].arch
  BY <1>1 DEF Dir, BuildDir, Dirs
<1>3. Sources(t) \in Seq([src : STRING, stem : STRING])
  BY <1>1 DEF Sources, Seen, Versions
<1> QED
  BY <1>1, <1>2, <1>3, EnvType DEF Seen

\* A source of a run has a name and can be compiled to an object.
LEMMA SourceType ==
    ASSUME TypeOK, NEW t \in Targets, Running(t), NEW i \in DOMAIN Sources(t)
    PROVE  /\ ObjectName(i, Sources(t)[i]) \in NamesIn(Sources(t))
           /\ ObjectName(i, Sources(t)[i]) \in Names
           /\ Sources(t)[i].src \in Srcs
<1>1. script[t].arch \in Archs /\ script[t].seen.package \in Versions
  BY RunningType DEF Seen
<1>2. Sources(t)[i] \in Range(Sources(t))
  BY DEF Range
<1>3. ObjectName(i, Sources(t)[i]) \in NamesIn(Sources(t))
  BY DEF NamesIn
<1>4. NamesIn(Sources(t)) \subseteq Names
  BY <1>1 DEF Names, Sources, Versions
<1>5. Range(Sources(t)) \subseteq Listed
  BY <1>1 DEF Listed, Sources
<1>6. Sources(t)[i].src \in Srcs
  BY <1>2, <1>5 DEF Srcs
<1> QED
  BY <1>3, <1>4, <1>6

\* No version is beyond the bound on edits.
LEMMA VersionsType ==
    ASSUME TypeOK
    PROVE  package \in Versions /\ \A r \in Roots :
               tree[r].listed \in Versions /\ tree[r].headers \in Versions
<1>1. 0 .. edits \subseteq Versions
  BY DEF TypeOK, Versions
<1> QED
  BY <1>1 DEF TypeOK

LEMMA ObjectType ==
    ASSUME TypeOK, NEW t \in Targets, Running(t), NEW i \in DOMAIN Sources(t)
    PROVE  Object(Sources(t)[i], script[t].arch, script[t].seen.env.root)
               \in ObjectsOf(script[t].arch)
BY VersionsType, SourceType, RunningType DEF Object, ObjectsOf

\* What Cargo looks at has a type.
LEMMA WatchedType ==
    ASSUME TypeOK, NEW t \in Targets, NEW kind PROVE Watched(t, kind) \in Seen
<1>1. env[t] \in AllEnvs /\ env[t].root \in Roots
  BY EnvType DEF TypeOK
<1>2. tree[env[t].root].listed \in Versions /\ package \in Versions
  BY <1>1, VersionsType
<1>3. 0 \in Versions
  BY DEF Versions
<1> QED
  BY <1>1, <1>2, <1>3 DEF Watched, Seen

-----------------------------------------------------------------------------
(* Types.                                                                  *)

LEMMA TypeInit == Init => TypeOK
BY DEF Init, TypeOK, Resting, Files, NoFiles, Versions

LEMMA TypeStep == TypeOK /\ [Next]_vars => TypeOK'
<1> SUFFICES ASSUME TypeOK, [Next]_vars PROVE TypeOK'
  OBVIOUS
<1>1. ASSUME NEW t \in Targets, BuildStart(t) PROVE TypeOK'
  <2> DEFINE selected == SelectedArch(env[t], gpus)
             seen == Watched(t, selected.kind)
  <2>1. seen \in Seen /\ gpus \in Gpus
    BY WatchedType DEF TypeOK
  <2>2. UNCHANGED <<inputs, files, faults>>
    BY <1>1 DEF BuildStart
  <2>3. lib' \in [Targets -> Files \cup {None, Stub}]
    BY <1>1 DEF BuildStart, TypeOK
  <2>4. /\ Ran("stub", Unset, seen, gpus) \in
               [kind : {"stub"}, arch : {Unset}, seen : Seen, gpus : Gpus]
        /\ selected.kind = "archive" =>
               [pc |-> "compile", arch |-> selected.arch, seen |-> seen,
                gpus |-> gpus, next |-> 1] \in
               [pc : {"compile", "remove", "pack"}, arch : Archs, seen : Seen,
                gpus : Gpus, next : Nat \ {0}]
    BY <2>1, SelectedKind DEF Ran
  <2>5. \/ /\ output' = [output EXCEPT ![t] = Ran("stub", Unset, seen, gpus)]
           /\ script' = [script EXCEPT ![t] = Resting("idle")]
        \/ /\ selected.kind = "archive"
           /\ output' = [output EXCEPT ![t] = None]
           /\ script' = [script EXCEPT ![t] =
                  [pc |-> "compile", arch |-> selected.arch, seen |-> seen,
                   gpus |-> gpus, next |-> 1]]
        \/ /\ output' = [output EXCEPT ![t] = None]
           /\ script' = [script EXCEPT ![t] = Resting("failed")]
    BY <1>1 DEF BuildStart
  <2> HIDE DEF selected, seen
  <2>6. output' \in [Targets ->
            [kind : {"archive"}, arch : Archs, seen : Seen, gpus : Gpus]
            \cup [kind : {"stub"}, arch : {Unset}, seen : Seen, gpus : Gpus]
            \cup {None}]
    BY <2>4, <2>5 DEF TypeOK
  <2>7. script' \in [Targets ->
            [pc : {"compile", "remove", "pack"}, arch : Archs, seen : Seen,
             gpus : Gpus, next : Nat \ {0}]
            \cup {Resting("idle"), Resting("failed")}]
    BY <2>4, <2>5 DEF TypeOK
  <2> QED
    BY <2>2, <2>3, <2>6, <2>7 DEF TypeOK, inputs, files
<1>2. ASSUME NEW t \in Targets, CompileSource(t) PROVE TypeOK'
  <2> DEFINE i == script[t].next
  <2>1. Running(t) /\ i \in DOMAIN Sources(t)
    BY <1>2, RunningType DEF CompileSource, Running
  <2>2. script[t].next + 1 \in Nat \ {0}
    BY <2>1, RunningType
  <2>3. script' = [script EXCEPT ![t].next = i + 1]
    BY <1>2 DEF CompileSource
  <2>4. objects' = [objects EXCEPT ![Dir(t)][ObjectName(i, Sources(t)[i])] =
            Object(Sources(t)[i], script[t].arch, script[t].seen.env.root)]
    BY <1>2 DEF CompileSource
  <2>5. objects' \in [Dirs -> Files]
    <3>1. Object(Sources(t)[i], script[t].arch, script[t].seen.env.root) \in Objects
      BY <2>1, ObjectType, RunningType DEF Objects
    <3> QED
      BY <2>1, <2>4, <3>1, SourceType, RunningType DEF TypeOK, Files
  <2>6. [script[t] EXCEPT !.next = i + 1] \in
            [pc : {"compile", "remove", "pack"}, arch : Archs,
             seen : Seen, gpus : Gpus, next : Nat \ {0}]
    BY <2>1, <2>2, RunningType
  <2> QED
    BY <1>2, <2>3, <2>5, <2>6 DEF CompileSource, TypeOK, inputs
<1>3. ASSUME NEW t \in Targets, NEW pc \in {"remove", "pack"}, Running(t), Goto(t, pc)
      PROVE  /\ script' \in [Targets ->
                    [pc : {"compile", "remove", "pack"}, arch : Archs,
                     seen : Seen, gpus : Gpus, next : Nat \ {0}]
                    \cup {Resting("idle"), Resting("failed")}]
  <2>1. [script[t] EXCEPT !.pc = pc] \in
            [pc : {"compile", "remove", "pack"}, arch : Archs,
             seen : Seen, gpus : Gpus, next : Nat \ {0}]
    BY <1>3, RunningType
  <2> QED
    BY <1>3, <2>1 DEF Goto, TypeOK
<1>4. ASSUME NEW t \in Targets, FindArchive(t) PROVE TypeOK'
  BY <1>3, <1>4 DEF FindArchive, Running, TypeOK, inputs, files
<1>5. ASSUME NEW t \in Targets, RemoveArchive(t) PROVE TypeOK'
  BY <1>3, <1>5 DEF RemoveArchive, Running, TypeOK, inputs
<1>6. ASSUME NEW t \in Targets, PackObjects(t) PROVE TypeOK'
  <2> DEFINE d == Dir(t)
             old == IF archive[d] = None THEN NoFiles ELSE archive[d]
             packed == [n \in Names |-> IF n \in NamesIn(Sources(t))
                                        THEN objects[d][n] ELSE old[n]]
  <2>1. Running(t) /\ archive[d] # Torn /\ d \in Dirs
    BY <1>6, RunningType DEF PackObjects, Running
  <2>2. old \in Files
    BY <2>1 DEF TypeOK, NoFiles, Files
  <2>3. packed \in Files
    BY <2>1, <2>2 DEF TypeOK, Files
  <2>4. archive' = [archive EXCEPT ![d] = packed]
    BY <1>6 DEF PackObjects
  <2>5. Ran("archive", script[t].arch, script[t].seen, script[t].gpus) \in
            [kind : {"archive"}, arch : Archs, seen : Seen, gpus : Gpus]
    BY <2>1, RunningType DEF Ran
  <2> HIDE DEF packed, old, d
  <2>6. archive' \in [Dirs -> Files \cup {None, Torn}]
    BY <2>3, <2>4 DEF TypeOK
  <2>7. output' \in [Targets ->
            [kind : {"archive"}, arch : Archs, seen : Seen, gpus : Gpus]
            \cup [kind : {"stub"}, arch : {Unset}, seen : Seen, gpus : Gpus]
            \cup {None}]
    BY <1>6, <2>5 DEF PackObjects, TypeOK
  <2> QED
    BY <1>6, <2>6, <2>7 DEF PackObjects, TypeOK, inputs
<1>7. ASSUME NEW t \in Targets, PackFails(t) PROVE TypeOK'
  BY <1>7 DEF PackFails, TypeOK, inputs, files
<1>8. ASSUME NEW t \in Targets, Rustc(t) PROVE TypeOK'
  <2>1. output[t].kind # "stub" =>
            BuildDir(t, output[t].seen.env, output[t].arch) \in Dirs
    BY <1>8 DEF Rustc, TypeOK, BuildDir, Dirs
  <2>2. \E f \in Files \cup {Stub} : lib' = [lib EXCEPT ![t] = f]
    <3> DEFINE d == BuildDir(t, output[t].seen.env, output[t].arch)
    <3>1. CASE output[t].kind = "stub"
      BY <1>8, <3>1 DEF Rustc
    <3>2. CASE output[t].kind # "stub"
      <4>1. archive[d] \notin {None, Torn} /\ lib' = [lib EXCEPT ![t] = archive[d]]
        BY <1>8, <3>2 DEF Rustc
      <4>2. d \in Dirs
        BY <2>1, <3>2
      <4> HIDE DEF d
      <4> QED
        BY <4>1, <4>2 DEF TypeOK
    <3> QED
      BY <3>1, <3>2
  <2>3. lib' \in [Targets -> Files \cup {None, Stub}]
    BY <2>2 DEF TypeOK
  <2> QED
    BY <1>8, <2>3 DEF Rustc, TypeOK, inputs, files
<1>9. ASSUME NEW t \in Targets, Stop(t) PROVE TypeOK'
  <2>1. script' = [script EXCEPT ![t] = Resting("failed")]
    BY <1>9 DEF Stop
  <2>2. objects' \in [Dirs -> Files]
    <3>1. \/ objects' = objects
          \/ \E d, n : objects' = [objects EXCEPT ![d][n] = Torn]
      BY <1>9 DEF Stop, files
    <3>2. \A d \in Dirs : objects[d] \in Files /\
                           \A n : [objects[d] EXCEPT ![n] = Torn] \in Files
      BY DEF TypeOK, Files
    <3>3. ASSUME NEW d, NEW n, objects' = [objects EXCEPT ![d][n] = Torn]
          PROVE  objects' \in [Dirs -> Files]
      <4> DEFINE f == [objects[d] EXCEPT ![n] = Torn]
      <4>1. objects' = [objects EXCEPT ![d] = f]
        BY <3>3
      <4>2. d \in Dirs => f \in Files
        BY <3>2
      <4> HIDE DEF f
      <4> QED
        BY <4>1, <4>2 DEF TypeOK
    <3>4. CASE objects' = objects
      BY <3>4 DEF TypeOK
    <3> QED
      BY <3>1, <3>3, <3>4
  <2>3. archive' \in [Dirs -> Files \cup {None, Torn}]
    BY <1>9 DEF Stop, TypeOK, files
  <2>4. faults' \in 0 .. MaxFaults
    BY <1>9 DEF Stop, TypeOK
  <2> QED
    BY <1>9, <2>1, <2>2, <2>3, <2>4 DEF Stop, TypeOK, inputs
<1>10. ASSUME NEW t \in Targets, EditCrate(t) PROVE TypeOK'
  BY <1>10 DEF EditCrate, Edit, TypeOK, files
<1>11. ASSUME NEW t \in Targets, ChangeEnv(t) PROVE TypeOK'
  BY <1>11, EnvType DEF ChangeEnv, Edit, TypeOK, files
<1>12. CASE EditPackage
  BY <1>12 DEF EditPackage, Edit, TypeOK, files, Versions
<1>13. ASSUME NEW r \in Roots, EditCheckout(r) PROVE TypeOK'
  <2>1. edits' = edits + 1 /\ edits' \in 0 .. MaxEdits
    BY <1>13 DEF EditCheckout, Edit, TypeOK
  <2>2. \A v \in 0 .. edits : v \in 0 .. edits' /\ v + 1 \in 0 .. edits'
    BY <2>1 DEF TypeOK
  <2>3. tree' \in [Roots -> [listed : 0 .. edits', headers : 0 .. edits']]
    <3>1. \A q \in Roots : tree[q] \in [listed : 0 .. edits, headers : 0 .. edits]
      BY DEF TypeOK
    <3>2. /\ [tree[r] EXCEPT !.listed = @ + 1] \in
                 [listed : 0 .. edits', headers : 0 .. edits']
          /\ [tree[r] EXCEPT !.headers = @ + 1] \in
                 [listed : 0 .. edits', headers : 0 .. edits']
      BY <2>2, <3>1
    <3>3. \A q \in Roots : tree[q] \in [listed : 0 .. edits', headers : 0 .. edits']
      BY <2>2, <3>1
    <3> QED
      BY <1>13, <3>2, <3>3 DEF EditCheckout, TypeOK
  <2>4. package \in 0 .. edits'
    BY <2>2 DEF TypeOK
  <2> QED
    BY <1>13, <2>1, <2>3, <2>4 DEF EditCheckout, TypeOK, files
<1>14. CASE ChangeGpus
  BY <1>14 DEF ChangeGpus, Edit, TypeOK, files
<1>15. CASE UNCHANGED vars
  BY <1>15 DEF vars, TypeOK
<1> HIDE DEF BuildAssumption
<1> QED
  BY <1>1, <1>2, <1>4, <1>5, <1>6, <1>7, <1>8, <1>9, <1>10, <1>11, <1>12,
     <1>13, <1>14, <1>15 DEF Next, TargetStep, WorldStep, ScriptStep

\* Type correctness of the build directories and of Cargo's records.
THEOREM BuildTypeOK == Spec => []TypeOK
BY TypeInit, TypeStep, PTL DEF Spec

-----------------------------------------------------------------------------
(* Cargo's records and the architecture of files, with any sharing of      *)
(* build directories.                                                      *)

LEMMA CargoStep == TypeOK /\ CargoInv /\ [Next]_vars => CargoInv'
<1> SUFFICES ASSUME TypeOK, CargoInv, [Next]_vars PROVE CargoInv'
  OBVIOUS
<1> HIDE DEF BuildAssumption
<1> USE DEF TypeOK, CargoInv, Archived
<1>1. ASSUME NEW t \in Targets, BuildStart(t) PROVE CargoInv'
  <2>1. lib' = [lib EXCEPT ![t] = None]
    BY <1>1 DEF BuildStart
  <2>2. \/ script' = [script EXCEPT ![t] = Resting("idle")]
        \/ output' = [output EXCEPT ![t] = None] /\ \E s : script' = [script EXCEPT ![t] = s]
    BY <1>1 DEF BuildStart
  <2>3. \E o : output' = [output EXCEPT ![t] = o]
    BY <1>1 DEF BuildStart
  <2> QED
    BY <2>1, <2>2, <2>3 DEF Resting
<1>2. ASSUME NEW t \in Targets, CompileSource(t) PROVE CargoInv'
  BY <1>2 DEF CompileSource
<1>3. ASSUME NEW t \in Targets, FindArchive(t) PROVE CargoInv'
  BY <1>3 DEF FindArchive, Goto
<1>4. ASSUME NEW t \in Targets, RemoveArchive(t) PROVE CargoInv'
  BY <1>4 DEF RemoveArchive, Goto, Resting
<1>5. ASSUME NEW t \in Targets, PackObjects(t) PROVE CargoInv'
  <2>1. lib[t] = None
    BY <1>5 DEF PackObjects
  <2>2. /\ \E o : o.kind = "archive" /\ output' = [output EXCEPT ![t] = o]
        /\ script' = [script EXCEPT ![t] = Resting("idle")]
        /\ lib' = lib
    BY <1>5 DEF PackObjects, Ran
  <2> QED
    BY <2>1, <2>2 DEF Resting
<1>6. ASSUME NEW t \in Targets, PackFails(t) PROVE CargoInv'
  BY <1>6 DEF PackFails, Resting
<1>7. ASSUME NEW t \in Targets, Rustc(t) PROVE CargoInv'
  <2>1. script[t].pc = "idle" /\ output[t] # None /\ UNCHANGED <<script, output>>
    BY <1>7 DEF Rustc
  <2>2. \E f : lib' = [lib EXCEPT ![t] = f] /\ (output[t].kind = "stub" => f = Stub)
    BY <1>7 DEF Rustc
  <2>3. output[t].kind \in {"stub", "archive"}
    BY <2>1
  <2> QED
    BY <2>1, <2>2, <2>3
<1>8. ASSUME NEW t \in Targets, Stop(t) PROVE CargoInv'
  BY <1>8 DEF Stop, Resting
<1>9. ASSUME NEW t \in Targets, EditCrate(t) PROVE CargoInv'
  BY <1>9 DEF EditCrate
<1>10. CASE UNCHANGED <<script, output, lib>>
  BY <1>10
<1> QED
  BY <1>1, <1>2, <1>3, <1>4, <1>5, <1>6, <1>7, <1>8, <1>9, <1>10
     DEF Next, TargetStep, WorldStep, ScriptStep, ChangeEnv, EditPackage, EditCheckout, ChangeGpus, vars

\* Every step keeps a build directory to its architecture.
LEMMA ArchStep == TypeOK /\ CargoInv /\ ArchInv /\ [Next]_vars => ArchInv'
<1> SUFFICES ASSUME TypeOK, CargoInv, ArchInv, [Next]_vars PROVE ArchInv'
  OBVIOUS
<1> HIDE DEF BuildAssumption
<1> USE DEF ArchInv
<1>1. ASSUME NEW t \in Targets, CompileSource(t) PROVE ArchInv'
  <2> DEFINE i == script[t].next
             o == Object(Sources(t)[i], script[t].arch, script[t].seen.env.root)
  <2>1. Running(t) /\ i \in DOMAIN Sources(t)
    BY <1>1, RunningType DEF CompileSource, Running
  <2>2. o \in ObjectsOf(Dir(t)[2])
    BY <2>1, ObjectType, RunningType
  <2>3. objects' = [objects EXCEPT ![Dir(t)][ObjectName(i, Sources(t)[i])] = o]
        /\ archive' = archive
    BY <1>1 DEF CompileSource
  <2> HIDE DEF o, i
  <2> QED
    BY <2>2, <2>3 DEF TypeOK, Files
<1>2. ASSUME NEW t \in Targets, RemoveArchive(t) PROVE ArchInv'
  BY <1>2 DEF RemoveArchive, TypeOK
<1>3. ASSUME NEW t \in Targets, PackObjects(t) PROVE ArchInv'
  <2> DEFINE d == Dir(t)
             old == IF archive[d] = None THEN NoFiles ELSE archive[d]
             packed == [n \in Names |-> IF n \in NamesIn(Sources(t))
                                        THEN objects[d][n] ELSE old[n]]
  <2>1. Running(t) /\ archive[d] # Torn /\ d \in Dirs
    BY <1>3, RunningType DEF PackObjects, Running
  <2>2. \A n \in Names : old[n] \in {None, Torn} \cup ObjectsOf(d[2])
    BY <2>1 DEF NoFiles
  <2>3. \A n \in Names : packed[n] \in {None, Torn} \cup ObjectsOf(d[2])
    BY <2>1, <2>2
  <2>4. archive' = [archive EXCEPT ![d] = packed] /\ objects' = objects
    BY <1>3 DEF PackObjects
  <2> HIDE DEF packed, old, d
  <2> QED
    BY <2>3, <2>4 DEF TypeOK
<1>4. ASSUME NEW t \in Targets, Stop(t) PROVE ArchInv'
  <2>1. \A d \in Dirs, n \in Names : objects'[d][n] \in {objects[d][n], Torn}
    <3>1. \/ objects' = objects
          \/ \E d, n : objects' = [objects EXCEPT ![d][n] = Torn]
      BY <1>4 DEF Stop, files
    <3>2. CASE objects' = objects
      BY <3>2
    <3>3. ASSUME NEW d, NEW n, objects' = [objects EXCEPT ![d][n] = Torn]
          PROVE  \A e \in Dirs, m \in Names :
                     objects'[e][m] \in {objects[e][m], Torn}
      <4> TAKE e \in Dirs, m \in Names
      <4>1. objects[e] \in Files
        BY DEF TypeOK
      <4>2. objects'[e] = IF e = d THEN [objects[e] EXCEPT ![n] = Torn]
                          ELSE objects[e]
        BY <3>3 DEF TypeOK
      <4> QED
        BY <4>1, <4>2 DEF Files
    <3> QED
      BY <3>1, <3>2, <3>3
  <2>2. \A d \in Dirs : archive'[d] \in {archive[d], Torn}
    BY <1>4 DEF Stop, TypeOK, files
  <2> QED
    BY <2>1, <2>2
<1>5. CASE UNCHANGED files
  BY <1>5 DEF files
<1> QED
  BY <1>1, <1>2, <1>3, <1>4, <1>5
     DEF Next, TargetStep, WorldStep, ScriptStep, BuildStart, FindArchive, PackFails, Rustc,
         EditCrate, ChangeEnv, EditPackage, EditCheckout, ChangeGpus, vars, files

LEMMA OneArchStep ==
    TypeOK /\ CargoInv /\ ArchInv /\ LibraryIsOfOneArch /\ [Next]_vars
        => LibraryIsOfOneArch'
<1> SUFFICES ASSUME TypeOK, CargoInv, ArchInv, LibraryIsOfOneArch, [Next]_vars
             PROVE  LibraryIsOfOneArch'
  OBVIOUS
<1> HIDE DEF BuildAssumption
<1> USE DEF LibraryIsOfOneArch, Archived
<1>1. ASSUME NEW t \in Targets, NEW o, lib[t] = None \/ lib'[t] = None,
             output' = [output EXCEPT ![t] = o],
             lib' = lib \/ lib' = [lib EXCEPT ![t] = None]
      PROVE  LibraryIsOfOneArch'
  BY <1>1 DEF TypeOK
<1>2. ASSUME NEW t \in Targets, BuildStart(t) PROVE LibraryIsOfOneArch'
  <2>1. lib' = [lib EXCEPT ![t] = None] /\ lib'[t] = None
    BY <1>2 DEF BuildStart, TypeOK
  <2>2. \E o : output' = [output EXCEPT ![t] = o]
    BY <1>2 DEF BuildStart
  <2> QED
    BY <1>1, <2>1, <2>2
<1>3. ASSUME NEW t \in Targets, PackObjects(t) PROVE LibraryIsOfOneArch'
  <2>1. lib[t] = None /\ lib' = lib
    BY <1>3 DEF PackObjects, CargoInv
  <2>2. \E o : output' = [output EXCEPT ![t] = o]
    BY <1>3 DEF PackObjects
  <2> QED
    BY <1>1, <2>1, <2>2
<1>4. ASSUME NEW t \in Targets, Rustc(t) PROVE LibraryIsOfOneArch'
  <2> DEFINE d == BuildDir(t, output[t].seen.env, output[t].arch)
  <2>1. CASE output[t].kind = "stub"
    BY <1>4, <2>1 DEF Rustc, TypeOK
  <2>2. CASE output[t].kind # "stub"
    <3>1. output[t].arch \in Archs
      BY <1>4, <2>2 DEF Rustc, TypeOK
    <3>2. d \in Dirs /\ d[2] = output[t].arch
      BY <3>1 DEF BuildDir, Dirs
    <3>3. archive[d] \notin {None, Torn} /\ lib' = [lib EXCEPT ![t] = archive[d]]
          /\ output' = output
      BY <1>4, <2>2 DEF Rustc
    <3>4. \A n \in Names : archive[d][n] \in {None, Torn} \cup ObjectsOf(output[t].arch)
      BY <3>2, <3>3 DEF ArchInv
    <3> HIDE DEF d
    <3> QED
      BY <3>3, <3>4 DEF TypeOK
  <2> QED
    BY <2>1, <2>2
<1>5. ASSUME NEW t \in Targets, EditCrate(t) PROVE LibraryIsOfOneArch'
  BY <1>5 DEF EditCrate, TypeOK
<1>6. CASE UNCHANGED <<output, lib>>
  BY <1>6
<1> QED
  BY <1>2, <1>3, <1>4, <1>5, <1>6
     DEF Next, TargetStep, WorldStep, ScriptStep, CompileSource, FindArchive, RemoveArchive, PackFails,
         Stop, ChangeEnv, EditPackage, EditCheckout, ChangeGpus, vars

LEMMA BuildInductive == Spec => []IInv
<1>1. Init => IInv
  <2> SUFFICES ASSUME Init PROVE CargoInv /\ ArchInv /\ LibraryIsOfOneArch
    BY TypeInit DEF IInv
  <2> QED
    BY DEF Init, CargoInv, ArchInv, LibraryIsOfOneArch, Archived, Resting, NoFiles
<1>2. IInv /\ [Next]_vars => IInv'
  BY TypeStep, CargoStep, ArchStep, OneArchStep DEF IInv
<1> QED
  BY <1>1, <1>2, PTL DEF Spec

\* An artifact holds objects of one architecture, whatever build directories
\* the environments share and however builds are interleaved and cut off.
THEOREM OneArchitecture == Spec => []LibraryIsOfOneArch
BY BuildInductive, PTL DEF IInv

-----------------------------------------------------------------------------
(* What a library contains, in a build directory that is not shared.       *)

\* What is known of a run stays true when sources are edited.
LEMMA LaterRun ==
    ASSUME NEW r, r.seen \in Seen, NEW p \in Nat, NEW q \in Nat, p <= q,
           NEW tr, NEW tq,
           \A x \in Roots : /\ tr[x].listed \in Nat /\ tq[x].listed \in Nat
                            /\ tr[x].listed <= tq[x].listed
                            /\ tr[x].headers \in Nat /\ tq[x].headers \in Nat
                            /\ tr[x].headers <= tq[x].headers
    PROVE  /\ RunOf(r, p, tr) => RunOf(r, q, tq)
           /\ \A i, o : CompiledIn(r, i, o, p, tr) => CompiledIn(r, i, o, q, tq)
           /\ \A f : PackedIn(r, f, p, tr) => PackedIn(r, f, q, tq)
           /\ \A os, ar : ScriptOK(r, os, ar, p, tr) => ScriptOK(r, os, ar, q, tq)
           /\ \A ar, f : OutputOK(r, ar, f, p, tr) => OutputOK(r, ar, f, q, tq)
<1>1. r.seen.package \in Nat /\ r.seen.listed \in Nat /\ r.seen.env.root \in Roots
  BY EnvType DEF Seen, Versions
<1>2. RunOf(r, p, tr) => RunOf(r, q, tq)
  BY <1>1 DEF RunOf
<1>3. \A i, o : CompiledIn(r, i, o, p, tr) => CompiledIn(r, i, o, q, tq)
  <2> SUFFICES ASSUME NEW i, NEW o, CompiledIn(r, i, o, p, tr)
               PROVE  CompiledIn(r, i, o, q, tq)
    OBVIOUS
  <2>1. o.package \in r.seen.package .. q
    BY <1>1 DEF CompiledIn
  <2>2. o.listed \in r.seen.listed .. tq[r.seen.env.root].listed
    BY <1>1 DEF CompiledIn
  <2>3. o.headers \in 0 .. tq[r.seen.env.root].headers
    BY <1>1 DEF CompiledIn
  <2> QED
    BY <2>1, <2>2, <2>3 DEF CompiledIn
<1>4. \A f : PackedIn(r, f, p, tr) => PackedIn(r, f, q, tq)
  BY <1>3 DEF PackedIn
<1> QED
  BY <1>2, <1>3, <1>4 DEF ScriptOK, OutputOK

\* Versions only grow.
LEMMA VersionsGrow ==
    ASSUME TypeOK, TypeOK', [Next]_vars
    PROVE  /\ package \in Nat /\ package' \in Nat /\ package <= package'
           /\ \A x \in Roots : /\ tree[x].listed \in Nat /\ tree'[x].listed \in Nat
                               /\ tree[x].listed <= tree'[x].listed
                               /\ tree[x].headers \in Nat /\ tree'[x].headers \in Nat
                               /\ tree[x].headers <= tree'[x].headers
<1>1. package \in Nat /\ package' \in Nat
  BY VersionsType DEF TypeOK
<1>2. \A x \in Roots : /\ tree[x].listed \in Nat /\ tree'[x].listed \in Nat
                       /\ tree[x].headers \in Nat /\ tree'[x].headers \in Nat
  BY DEF TypeOK
<1>3. CASE \E r \in Roots : EditCheckout(r)
  <2>1. PICK r \in Roots : EditCheckout(r)
    BY <1>3
  <2>2. \A x \in Roots :
            /\ tree'[x].listed \in {tree[x].listed, tree[x].listed + 1}
            /\ tree'[x].headers \in {tree[x].headers, tree[x].headers + 1}
    <3>1. tree[r] \in [listed : 0 .. edits, headers : 0 .. edits]
      BY DEF TypeOK
    <3>2. \/ tree' = [tree EXCEPT ![r] = [tree[r] EXCEPT !.listed = @ + 1]]
          \/ tree' = [tree EXCEPT ![r] = [tree[r] EXCEPT !.headers = @ + 1]]
      BY <2>1, <3>1 DEF EditCheckout, TypeOK
    <3>3. /\ [tree[r] EXCEPT !.listed = @ + 1].listed = tree[r].listed + 1
          /\ [tree[r] EXCEPT !.headers = @ + 1].listed = tree[r].listed
          /\ [tree[r] EXCEPT !.headers = @ + 1].headers = tree[r].headers + 1
          /\ [tree[r] EXCEPT !.listed = @ + 1].headers = tree[r].headers
      BY <3>1
    <3> QED
      BY <3>2, <3>3 DEF TypeOK
  <2>3. \A x \in Roots : /\ tree[x].listed <= tree'[x].listed
                         /\ tree[x].headers <= tree'[x].headers
    BY <1>2, <2>2
  <2>4. package' = package
    BY <2>1 DEF EditCheckout
  <2> QED
    BY <1>1, <1>2, <2>3, <2>4
<1>4. CASE EditPackage
  <2>1. package' = package + 1 /\ tree' = tree
    BY <1>4 DEF EditPackage
  <2>2. \A x \in Roots : /\ tree[x].listed <= tree'[x].listed
                         /\ tree[x].headers <= tree'[x].headers
    BY <1>2, <2>1
  <2> QED
    BY <1>1, <1>2, <2>1, <2>2
<1>5. CASE UNCHANGED <<package, tree>>
  <2>1. \A x \in Roots : /\ tree[x].listed <= tree'[x].listed
                         /\ tree[x].headers <= tree'[x].headers
    BY <1>2, <1>5
  <2> QED
    BY <1>1, <1>2, <1>5, <2>1
<1> HIDE DEF BuildAssumption
<1> QED
  BY <1>3, <1>4, <1>5
     DEF Next, TargetStep, WorldStep, ScriptStep, BuildStart, CompileSource,
         FindArchive, RemoveArchive, PackObjects, PackFails, Rustc, Stop,
         EditCrate, ChangeEnv, ChangeGpus, inputs, vars

\* A private build directory is told by its target.
LEMMA PrivateDir ==
    ASSUME NEW t, NEW e, NEW a
    PROVE  BuildDir(t, e, a)[1] \in {t, Cache} /\
           (~e.shared => BuildDir(t, e, a) = <<t, a>>)
BY DEF BuildDir

\* A target's step touches nothing of another target.
LEMMA OthersKeep ==
    ASSUME TypeOK, NEW t \in Targets, TargetStep(t)
    PROVE  /\ \A u \in Targets \ {t} : /\ script'[u] = script[u]
                                       /\ output'[u] = output[u]
                                       /\ lib'[u] = lib[u]
           /\ \A d \in Dirs : d[1] \notin {t, Cache} =>
                  objects'[d] = objects[d] /\ archive'[d] = archive[d]
<1> HIDE DEF BuildAssumption
<1>1. Dir(t)[1] \in {t, Cache}
  BY PrivateDir DEF Dir
<1>2. \A u \in Targets \ {t} : /\ script'[u] = script[u]
                               /\ output'[u] = output[u]
                               /\ lib'[u] = lib[u]
  <2>1. script' = script \/ \E s : script' = [script EXCEPT ![t] = s]
    BY DEF TargetStep, ScriptStep, BuildStart, CompileSource, FindArchive,
           RemoveArchive, PackObjects, PackFails, Rustc, Stop, EditCrate,
           ChangeEnv, Goto
  <2>2. output' = output \/ \E o : output' = [output EXCEPT ![t] = o]
    BY DEF TargetStep, ScriptStep, BuildStart, CompileSource, FindArchive,
           RemoveArchive, PackObjects, PackFails, Rustc, Stop, EditCrate,
           ChangeEnv
  <2>3. lib' = lib \/ \E f : lib' = [lib EXCEPT ![t] = f]
    BY DEF TargetStep, ScriptStep, BuildStart, CompileSource, FindArchive,
           RemoveArchive, PackObjects, PackFails, Rustc, Stop, EditCrate,
           ChangeEnv
  <2> QED
    BY <2>1, <2>2, <2>3 DEF TypeOK
<1>3. \/ objects' = objects
      \/ Running(t) /\ \E os : objects' = [objects EXCEPT ![Dir(t)] = os]
  <2>1. \/ objects' = objects
        \/ CompileSource(t)
        \/ Stop(t)
    BY DEF TargetStep, ScriptStep, BuildStart, FindArchive, RemoveArchive,
           PackObjects, PackFails, Rustc, EditCrate, ChangeEnv, files
  <2> QED
    BY <2>1 DEF CompileSource, Stop, Running, files
<1>4. \/ archive' = archive
      \/ Running(t) /\ \E ar : archive' = [archive EXCEPT ![Dir(t)] = ar]
  <2>1. \/ archive' = archive
        \/ RemoveArchive(t)
        \/ PackObjects(t)
        \/ Stop(t)
    BY DEF TargetStep, ScriptStep, BuildStart, CompileSource, FindArchive,
           PackFails, Rustc, EditCrate, ChangeEnv, files
  <2> QED
    BY <2>1 DEF RemoveArchive, PackObjects, Stop, Running, files
<1> QED
  BY <1>1, <1>2, <1>3, <1>4 DEF TypeOK

LEMMA ScriptInvStep ==
    TypeOK /\ TypeOK' /\ ScriptInv /\ [Next]_vars => ScriptInv'
<1> SUFFICES ASSUME TypeOK, TypeOK', ScriptInv, [Next]_vars,
                    NEW u \in Targets, Running(u)', ~script'[u].seen.env.shared
             PROVE  ScriptOK(script[u], objects[Dir(u)], archive[Dir(u)],
                             package, tree)'
  BY DEF ScriptInv
<1> HIDE DEF BuildAssumption
<1> DEFINE Keeps == /\ script'[u] = script[u]
                    /\ objects'[Dir(u)] = objects[Dir(u)]
                    /\ archive'[Dir(u)] = archive[Dir(u)]
<1>1. ASSUME Keeps PROVE ScriptOK(script[u], objects[Dir(u)], archive[Dir(u)],
                                  package, tree)'
  <2>1. Running(u) /\ Dir(u)' = Dir(u)
    BY <1>1 DEF Running, Dir
  <2>2. ScriptOK(script[u], objects[Dir(u)], archive[Dir(u)], package, tree)
    BY <1>1, <2>1 DEF ScriptInv
  <2>3. ScriptOK(script[u], objects[Dir(u)], archive[Dir(u)], package', tree')
    BY <2>1, <2>2, LaterRun, VersionsGrow, RunningType
  <2> QED
    BY <1>1, <2>1, <2>3
<1>2. ASSUME NEW t \in Targets \ {u}, TargetStep(t) PROVE Keeps
  <2>1. script'[u] = script[u]
    BY <1>2, OthersKeep
  <2>2. Running(u)
    BY <2>1 DEF Running
  <2>3. Dir(u) \in Dirs /\ Dir(u)[1] = u
    BY <2>1, <2>2, RunningType, PrivateDir DEF Dir
  <2>4. u \notin {t, Cache}
    BY <1>2 DEF BuildAssumption
  <2> QED
    BY <1>2, <2>1, <2>3, <2>4, OthersKeep
<1>3. ASSUME BuildStart(u) PROVE ScriptOK(script[u], objects[Dir(u)],
                                          archive[Dir(u)], package, tree)'
  <2> DEFINE selected == SelectedArch(env[u], gpus)
             seen == Watched(u, "archive")
             r == [pc |-> "compile", arch |-> selected.arch, seen |-> seen,
                   gpus |-> gpus, next |-> 1]
  <2>1. selected.kind = "archive" /\ script'[u] = r
    BY <1>3 DEF BuildStart, TypeOK, Running, Resting
  <2>2. UNCHANGED <<package, tree>>
    BY <1>3 DEF BuildStart, inputs
  <2>3. env[u] \in AllEnvs /\ package \in Nat /\ tree[env[u].root].listed \in Nat
    <3>1. env[u] \in AllEnvs /\ env[u].root \in Roots
      BY EnvType DEF TypeOK
    <3> QED
      BY <3>1, VersionsGrow
  <2>4. RunOf(r, package, tree)
    BY <2>1, <2>3, SelectedKind DEF RunOf, Watched
  <2>5. ASSUME NEW os, NEW ar PROVE ScriptOK(r, os, ar, package, tree)
    <3>1. SourceLists[r.arch][r.seen.package] \in Seq([src : STRING, stem : STRING])
      <4>1. r.arch \in Archs /\ r.seen.package \in 0 .. MaxEdits
        BY <2>1, SelectedKind, VersionsType DEF Watched, Versions
      <4> QED
        BY <4>1 DEF BuildAssumption
    <3> QED
      BY <2>4, <3>1 DEF ScriptOK
  <2> HIDE DEF r
  <2> QED
    BY <2>1, <2>2, <2>5
<1>4. ASSUME CompileSource(u) PROVE ScriptOK(script[u], objects[Dir(u)],
                                             archive[Dir(u)], package, tree)'
  <2> DEFINE i == script[u].next
             name == ObjectName(i, Sources(u)[i])
             o == Object(Sources(u)[i], script[u].arch, script[u].seen.env.root)
             r == [script[u] EXCEPT !.next = i + 1]
             os == [objects[Dir(u)] EXCEPT ![name] = o]
  <2>1. Running(u) /\ script[u].pc = "compile" /\ i \in DOMAIN Sources(u)
    BY <1>4, RunningType DEF CompileSource, Running
  <2>2. ScriptOK(script[u], objects[Dir(u)], archive[Dir(u)], package, tree)
    <3>1. script'[u].seen = script[u].seen
      BY <1>4, <2>1, RunningType DEF CompileSource, TypeOK
    <3> QED
      BY <2>1, <3>1 DEF ScriptInv
  <2>3. CompiledIn(script[u], i, o, package, tree)
    <3>1. o \in ObjectsOf(script[u].arch)
      BY <2>1, ObjectType
    <3>2. /\ o.src = Sources(u)[i].src /\ o.root = script[u].seen.env.root
          /\ o.package = package /\ o.listed = tree[o.root].listed
          /\ o.headers = tree[o.root].headers
      BY DEF Object
    <3>3. script[u].seen \in Seen /\ script[u].seen.env.root \in Roots
      BY <2>1, RunningType
    <3>4. RunOf(script[u], package, tree)
      BY <2>2 DEF ScriptOK
    <3> HIDE DEF o, i
    <3> QED
      BY <3>1, <3>2, <3>3, <3>4, VersionsGrow DEF CompiledIn, RunOf, Sources, Seen, Versions
  <2>4. /\ script'[u] = r /\ UNCHANGED <<package, tree>>
        /\ objects' = [objects EXCEPT ![Dir(u)] = os]
    BY <1>4 DEF CompileSource, TypeOK, inputs
  <2>5. /\ r.arch = script[u].arch /\ r.seen = script[u].seen /\ r.gpus = script[u].gpus
        /\ r.pc = "compile" /\ r.next = i + 1
    BY <2>1, RunningType
  <2>6. \A j : Sources(u)[j] = SourceLists[r.arch][r.seen.package][j]
    BY <2>5 DEF Sources
  <2>7. \A j \in DOMAIN Sources(u) : j < i + 1 =>
            CompiledIn(r, j, os[ObjectName(j, Sources(u)[j])], package, tree)
    <3> SUFFICES ASSUME NEW j \in DOMAIN Sources(u), j < i + 1
                 PROVE  CompiledIn(script[u], j, os[ObjectName(j, Sources(u)[j])],
                                   package, tree)
      BY <2>5 DEF CompiledIn
    <3>1. name \in Names /\ objects[Dir(u)] \in Files
      BY <2>1, SourceType, RunningType DEF TypeOK
    <3>2. CASE j = i
      <4>1. os[ObjectName(j, Sources(u)[j])] = o
        BY <3>1, <3>2 DEF Files
      <4> QED
        BY <2>3, <3>2, <4>1
    <3>3. CASE j # i
      <4>1. j < i
        BY <2>1, <3>3, RunningType
      <4>2. ObjectName(j, Sources(u)[j]) # name
        BY <3>3 DEF ObjectName
      <4>3. CompiledIn(script[u], j, objects[Dir(u)][ObjectName(j, Sources(u)[j])],
                       package, tree)
        BY <2>2, <4>1 DEF ScriptOK, Sources
      <4> QED
        BY <4>2, <4>3
    <3> QED
      BY <3>2, <3>3
  <2>8. ASSUME NEW ar PROVE ScriptOK(r, os, ar, package, tree)
    <3>1. RunOf(r, package, tree)
      BY <2>2, <2>5 DEF ScriptOK, RunOf
    <3> HIDE DEF r, os, i
    <3> QED
      BY <2>5, <2>7, <3>1 DEF ScriptOK, Sources
  <2>9. Dir(u)' = Dir(u) /\ Dir(u) \in Dirs
    BY <2>1, <2>4, <2>5, RunningType DEF Dir
  <2>10. objects'[Dir(u)] = os
    BY <2>4, <2>9 DEF TypeOK
  <2> HIDE DEF r, os
  <2> QED
    BY <2>4, <2>8, <2>9, <2>10
<1>5. ASSUME FindArchive(u) \/ RemoveArchive(u)
      PROVE  ScriptOK(script[u], objects[Dir(u)], archive[Dir(u)], package, tree)'
  <2>1. Running(u)
    BY <1>5 DEF FindArchive, RemoveArchive, Running
  <2>3. PICK pc : script'[u] = [script[u] EXCEPT !.pc = pc]
    <3>1. script' # [script EXCEPT ![u] = Resting("failed")]
      BY DEF TypeOK, Running, Resting
    <3>2. \E pc : script' = [script EXCEPT ![u].pc = pc]
      BY <1>5, <3>1 DEF FindArchive, RemoveArchive, Goto
    <3> QED
      BY <3>2 DEF TypeOK
  <2>4. /\ script'[u].arch = script[u].arch /\ script'[u].seen = script[u].seen
        /\ script'[u].gpus = script[u].gpus /\ script'[u].next = script[u].next
        /\ script'[u].pc = pc
    BY <2>1, <2>3, RunningType
  <2>2. ScriptOK(script[u], objects[Dir(u)], archive[Dir(u)], package, tree)
    BY <2>1, <2>4 DEF ScriptInv
  <2>5. Dir(u)' = Dir(u) /\ UNCHANGED <<objects, package, tree>>
    BY <1>5, <2>4 DEF Dir, FindArchive, RemoveArchive, files, inputs
  <2>6. script[u].next > Len(Sources(u))
    BY <1>5, <2>2 DEF FindArchive, RemoveArchive, ScriptOK, Sources
  <2>7. script'[u].pc = "pack" => archive'[Dir(u)] = None
    BY <1>5, <2>1, <2>3, <2>4, RunningType
       DEF FindArchive, RemoveArchive, Goto, TypeOK, files
  <2> QED
    BY <2>2, <2>4, <2>5, <2>6, <2>7 DEF ScriptOK, RunOf, CompiledIn, Sources
<1>6. ASSUME PackObjects(u) \/ PackFails(u) \/ Stop(u) \/ Rustc(u) PROVE FALSE
  BY <1>6 DEF PackObjects, PackFails, Stop, Rustc, TypeOK, Running, Resting
<1>7. ASSUME EditCrate(u) \/ ChangeEnv(u) \/ WorldStep \/ UNCHANGED vars
      PROVE  Keeps
  BY <1>7 DEF EditCrate, ChangeEnv, WorldStep, EditPackage, EditCheckout,
              ChangeGpus, vars, files
<1> HIDE DEF Keeps
<1> QED
  BY <1>1, <1>2, <1>3, <1>4, <1>5, <1>6, <1>7 DEF Next, TargetStep, ScriptStep

LEMMA OutputInvStep ==
    IInv /\ TypeOK' /\ ScriptInv /\ OutputInv /\ [Next]_vars
        => OutputInv'
<1> SUFFICES ASSUME IInv, TypeOK', ScriptInv, OutputInv, [Next]_vars,
                    NEW u \in Targets,
                    (/\ output[u] # None /\ output[u].kind = "archive"
                     /\ ~output[u].seen.env.shared)'
             PROVE  OutputOK(output[u], archive[OutputDir(u)], lib[u],
                             package, tree)'
  BY DEF OutputInv
<1> USE DEF IInv
<1> HIDE DEF BuildAssumption
<1>1. ASSUME output'[u] = output[u]
      PROVE  /\ output[u].seen \in Seen /\ output[u].arch \in Archs
             /\ OutputDir(u) = <<u, output[u].arch>>
             /\ OutputDir(u) \in Dirs
             /\ OutputDir(u)' = OutputDir(u)
             /\ OutputOK(output[u], archive[OutputDir(u)], lib[u], package', tree')
  <2>1. output[u] # None /\ output[u].kind = "archive" /\ ~output[u].seen.env.shared
    BY <1>1
  <2>2. output[u].seen \in Seen /\ output[u].arch \in Archs
    BY <2>1 DEF TypeOK
  <2>3. OutputOK(output[u], archive[OutputDir(u)], lib[u], package, tree)
    BY <2>1 DEF OutputInv
  <2>4. OutputDir(u) = <<u, output[u].arch>>
    BY <2>1, PrivateDir DEF OutputDir
  <2>5. OutputDir(u)' = OutputDir(u)
    BY <1>1 DEF OutputDir
  <2>6. OutputOK(output[u], archive[OutputDir(u)], lib[u], package', tree')
    BY <2>2, <2>3, LaterRun, VersionsGrow
  <2> QED
    BY <2>2, <2>4, <2>5, <2>6 DEF Dirs
<1>2. ASSUME output'[u] = output[u], lib'[u] \in {lib[u], None},
             archive'[OutputDir(u)] = archive[OutputDir(u)]
      PROVE  OutputOK(output[u], archive[OutputDir(u)], lib[u], package, tree)'
  BY <1>1, <1>2 DEF OutputOK
<1>3. ASSUME NEW t \in Targets \ {u}, TargetStep(t)
      PROVE  OutputOK(output[u], archive[OutputDir(u)], lib[u], package, tree)'
  <2>1. output'[u] = output[u] /\ lib'[u] = lib[u]
    BY <1>3, OthersKeep
  <2>2. archive'[OutputDir(u)] = archive[OutputDir(u)]
    <3>1. OutputDir(u) \in Dirs /\ OutputDir(u)[1] \notin {t, Cache}
      BY <1>1, <1>3, <2>1 DEF BuildAssumption
    <3> QED
      BY <1>3, <3>1, OthersKeep
  <2> QED
    BY <1>2, <2>1, <2>2
<1>4. ~BuildStart(u)
  <2> SUFFICES ASSUME BuildStart(u) PROVE FALSE
    OBVIOUS
  <2>1. output'[u] = None \/ output'[u].kind = "stub"
    BY DEF BuildStart, TypeOK, Ran
  <2> QED
    BY <2>1
<1>5. ~Running(u) \/ PackObjects(u) \/ output'[u] # output[u]
  BY DEF CargoInv, Running
<1>6. ASSUME PackObjects(u)
      PROVE  OutputOK(output[u], archive[OutputDir(u)], lib[u], package, tree)'
  <2> DEFINE r == script[u]
             list == Sources(u)
             packed == [n \in Names |-> IF n \in NamesIn(list)
                                        THEN objects[Dir(u)][n] ELSE NoFiles[n]]
             o == Ran("archive", r.arch, r.seen, r.gpus)
  <2>1. Running(u) /\ r.pc = "pack"
    BY <1>6 DEF PackObjects, Running
  <2>2. ScriptOK(r, objects[Dir(u)], archive[Dir(u)], package, tree)
    <3>1. output'[u].seen = r.seen
      BY <1>6 DEF PackObjects, TypeOK, Ran
    <3> QED
      BY <2>1, <3>1 DEF ScriptInv
  <2>3. archive[Dir(u)] = None /\ r.next > Len(list)
    BY <2>1, <2>2 DEF ScriptOK, Sources
  <2>4. /\ archive' = [archive EXCEPT ![Dir(u)] = packed]
        /\ output' = [output EXCEPT ![u] = o]
        /\ UNCHANGED <<package, tree, lib>>
    BY <1>6, <2>3 DEF PackObjects, inputs
  <2>5. output'[u] = o /\ lib'[u] = None
    BY <2>1, <2>4 DEF TypeOK, CargoInv, Running
  <2>6. o.arch = r.arch /\ o.seen = r.seen /\ o.gpus = r.gpus
    BY DEF Ran
  <2>7. OutputDir(u)' = Dir(u)
    BY <2>5, <2>6 DEF OutputDir, Dir
  <2>8. archive'[Dir(u)] = packed
    BY <2>1, <2>4, RunningType DEF TypeOK
  <2>9. \A i \in DOMAIN list :
            /\ ObjectName(i, list[i]) \in NamesIn(list)
            /\ ObjectName(i, list[i]) \in Names
            /\ CompiledIn(r, i, objects[Dir(u)][ObjectName(i, list[i])], package, tree)
    <3> TAKE i \in DOMAIN list
    <3>1. i < r.next
      <4>1. i \in 1 .. Len(list) /\ Len(list) \in Nat /\ r.next \in Nat
        BY <2>1, RunningType
      <4> QED
        BY <2>3, <4>1
    <3>2. CompiledIn(r, i, objects[Dir(u)][ObjectName(i, list[i])], package, tree)
      BY <2>2, <3>1 DEF ScriptOK, Sources
    <3> QED
      BY <2>1, <3>2, SourceType
  <2>10. \A i \in DOMAIN list :
             CompiledIn(r, i, packed[ObjectName(i, list[i])], package, tree)
    BY <2>9
  <2>11. {n \in Names : packed[n] # None} = NamesIn(list)
    <3>1. NamesIn(list) \subseteq Names
      BY <2>9 DEF NamesIn
    <3>2. ASSUME NEW n \in NamesIn(list) PROVE packed[n] # None
      <4>1. PICK i \in DOMAIN list : n = ObjectName(i, list[i])
        BY DEF NamesIn
      <4>2. packed[n] \in ObjectsOf(r.arch)
        BY <2>10, <4>1 DEF CompiledIn
      <4> QED
        BY <2>1, <4>2, FilesAssumption, RunningType DEF FilesAssumption
    <3>3. ASSUME NEW n \in Names \ NamesIn(list) PROVE packed[n] = None
      BY DEF NoFiles
    <3> QED
      BY <3>1, <3>2, <3>3
  <2>12. PackedIn(o, packed, package, tree)
    <3> HIDE DEF packed, o
    <3> QED
      BY <2>6, <2>10, <2>11 DEF PackedIn, CompiledIn, Sources
  <2>13. RunOf(o, package, tree)
    BY <2>2, <2>6 DEF ScriptOK, RunOf
  <2> HIDE DEF packed, o
  <2> QED
    BY <2>4, <2>5, <2>7, <2>8, <2>12, <2>13 DEF OutputOK
<1>7. ASSUME Rustc(u)
      PROVE  OutputOK(output[u], archive[OutputDir(u)], lib[u], package, tree)'
  <2>1. output'[u] = output[u] /\ output[u].kind # "stub"
    BY <1>7 DEF Rustc
  <2>2. /\ archive[OutputDir(u)] \notin {None, Torn}
        /\ lib'[u] = archive[OutputDir(u)]
        /\ archive' = archive
    BY <1>7, <2>1 DEF Rustc, OutputDir, TypeOK, files
  <2> QED
    BY <1>1, <2>1, <2>2 DEF OutputOK
<1>8. ASSUME EditCrate(u) \/ ChangeEnv(u) \/ WorldStep \/ UNCHANGED vars
      PROVE  OutputOK(output[u], archive[OutputDir(u)], lib[u], package, tree)'
  <2>1. output'[u] = output[u] /\ archive' = archive /\ lib'[u] \in {lib[u], None}
    BY <1>8 DEF EditCrate, ChangeEnv, WorldStep, EditPackage, EditCheckout,
                ChangeGpus, vars, files, TypeOK
  <2> QED
    BY <1>2, <2>1
<1>9. ASSUME CompileSource(u) \/ FindArchive(u) \/ RemoveArchive(u)
             \/ PackFails(u) \/ Stop(u)
      PROVE  FALSE
  <2>1. Running(u) /\ output' = output
    BY <1>9 DEF CompileSource, FindArchive, RemoveArchive, PackFails, Stop, Running
  <2> QED
    BY <2>1 DEF CargoInv, Running
<1> QED
  BY <1>3, <1>4, <1>6, <1>7, <1>8, <1>9 DEF Next, TargetStep, ScriptStep

\* The recorded run and the library agree, so what Cargo takes to be up to
\* date is.
LEMMA OutputIsCurrent == TypeOK /\ CargoInv /\ OutputInv => LibraryIsCurrent
<1> SUFFICES ASSUME TypeOK, CargoInv, OutputInv, NEW t \in Targets,
                    Archived(t), UpToDate(t), ~env[t].shared
             PROVE  LET a == SelectedArch(env[t], output[t].gpus).arch
                        list == SourceLists[a][package]
                    IN  /\ {n \in Names : lib[t][n] # None} = NamesIn(list)
                        /\ \A i \in DOMAIN list :
                               \E h \in 0 .. tree[env[t].root].headers :
                                   lib[t][ObjectName(i, list[i])] =
                                       [Object(list[i], a, env[t].root)
                                            EXCEPT !.headers = h]
  BY DEF LibraryIsCurrent
<1> HIDE DEF BuildAssumption
<1> DEFINE r == output[t]
           list == SourceLists[r.arch][package]
<1>1. output[t] # None /\ r.kind = "archive"
  BY DEF CargoInv, UpToDate
<1>2. /\ r.seen.env = env[t] /\ r.seen.package = package
      /\ r.seen.listed = tree[env[t].root].listed
  BY <1>1 DEF UpToDate, Watched
<1>3. RunOf(r, package, tree) /\ PackedIn(r, lib[t], package, tree)
  BY <1>1, <1>2 DEF OutputInv, OutputOK, Archived
<1>4. SelectedArch(env[t], r.gpus).arch = r.arch
  BY <1>2, <1>3 DEF RunOf, Selected
<1>5. {n \in Names : lib[t][n] # None} = NamesIn(list)
  BY <1>2, <1>3 DEF PackedIn
<1>6. ASSUME NEW i \in DOMAIN list, NEW o, CompiledIn(r, i, o, package, tree)
      PROVE  \E h \in 0 .. tree[env[t].root].headers :
                 o = [Object(list[i], r.arch, env[t].root) EXCEPT !.headers = h]
  <2>1. o \in ObjectsOf(r.arch)
    BY <1>6 DEF CompiledIn
  <2>2. /\ package \in Nat /\ env[t].root \in Roots
        /\ tree[env[t].root].listed \in Nat
    BY VersionsType, EnvType DEF Versions, TypeOK
  <2>3. /\ o.src = list[i].src /\ o.root = env[t].root /\ o.package = package
        /\ o.listed = tree[env[t].root].listed
    BY <1>2, <1>6, <2>1, <2>2 DEF CompiledIn, ObjectsOf, Versions
  <2>4. o = [Object(list[i], r.arch, env[t].root) EXCEPT !.headers = o.headers]
    BY <2>1, <2>3 DEF Object, ObjectsOf
  <2> QED
    BY <1>2, <1>6, <2>4 DEF CompiledIn
<1>7. \A i \in DOMAIN list :
          CompiledIn(r, i, lib[t][ObjectName(i, list[i])], package, tree)
  BY <1>2, <1>3 DEF PackedIn
<1> HIDE DEF r, list
<1>8. \A i \in DOMAIN list :
          \E h \in 0 .. tree[env[t].root].headers :
              lib[t][ObjectName(i, list[i])] =
                  [Object(list[i], r.arch, env[t].root) EXCEPT !.headers = h]
  BY <1>6, <1>7
<1> USE DEF r, list
<1> QED
  BY <1>4, <1>5, <1>8

\* In a build directory of its own, a library that Cargo takes to be up to
\* date holds the sources the script lists now, each as it is now and for the
\* architecture asked for now, with the headers of some moment up to now: after
\* any number of edits and of builds that were cut off, and beside any others.
\* That the headers are the present ones does not hold, as nobody announces
\* them to Cargo.
THEOREM Currency == Spec => []LibraryIsCurrent
<1>1. Init => ScriptInv /\ OutputInv
  BY DEF Init, ScriptInv, OutputInv, Running, Resting
<1>2. TypeOK /\ TypeOK' /\ IInv /\ ScriptInv /\ OutputInv /\ [Next]_vars
          => ScriptInv' /\ OutputInv'
  BY ScriptInvStep, OutputInvStep
<1>3. IInv => TypeOK /\ CargoInv
  BY DEF IInv
<1> QED
  BY <1>1, <1>2, <1>3, BuildInductive, OutputIsCurrent, PTL DEF Spec

-----------------------------------------------------------------------------
(* The architecture of a library and the GPUs of the host.                 *)

Chosen(r) == SelectedArch(r.seen.env, r.gpus) = Selected(r.arch)

\* What a script compiles for, and a recorded run compiled for, is what its
\* environment and its host asked for.
ChosenInv ==
    \A t \in Targets :
        /\ Running(t) => Chosen(script[t])
        /\ output[t] # None /\ output[t].kind = "archive" => Chosen(output[t])

LEMMA ChosenStep == TypeOK /\ ChosenInv /\ [Next]_vars => ChosenInv'
<1> SUFFICES ASSUME TypeOK, ChosenInv, [Next]_vars, NEW u \in Targets
             PROVE  /\ Running(u)' => Chosen(script'[u])
                    /\ output'[u] # None /\ output'[u].kind = "archive" => Chosen(output'[u])
  BY DEF ChosenInv
<1> HIDE DEF BuildAssumption
<1>1. ASSUME script'[u] = script[u] \/ ~Running(u)',
             output'[u] = output[u] \/ output'[u] = None \/ output'[u].kind = "stub"
      PROVE  /\ Running(u)' => Chosen(script'[u])
             /\ output'[u] # None /\ output'[u].kind = "archive" => Chosen(output'[u])
  BY <1>1 DEF ChosenInv, Running
<1>2. CASE \E t \in Targets \ {u} : TargetStep(t)
  BY <1>1, <1>2, OthersKeep
<1>3. CASE BuildStart(u)
  <2>1. output'[u] = None \/ output'[u].kind = "stub"
    BY <1>3 DEF BuildStart, TypeOK, Ran
  <2>2. CASE ~Running(u)'
    BY <1>1, <2>1, <2>2
  <2>3. CASE Running(u)'
    <3>1. /\ SelectedArch(env[u], gpus).kind = "archive"
          /\ script'[u].arch = SelectedArch(env[u], gpus).arch
          /\ script'[u].seen.env = env[u] /\ script'[u].gpus = gpus
      BY <1>3, <2>3 DEF BuildStart, TypeOK, Running, Resting, Watched
    <3> QED
      BY <2>1, <3>1, SelectedKind DEF Chosen
  <2> QED
    BY <2>2, <2>3
<1>4. CASE CompileSource(u) \/ FindArchive(u) \/ RemoveArchive(u)
  <2>1. output' = output /\ Running(u)
    BY <1>4 DEF CompileSource, FindArchive, RemoveArchive, Running
  <2>2. \/ ~Running(u)'
        \/ \E n, pc : script' = [script EXCEPT ![u].next = n] \/ script' = [script EXCEPT ![u].pc = pc]
    <3>1. ASSUME CompileSource(u) \/ FindArchive(u)
          PROVE  \E n, pc : script' = [script EXCEPT ![u].next = n] \/ script' = [script EXCEPT ![u].pc = pc]
      BY <3>1 DEF CompileSource, FindArchive, Goto
    <3>2. ASSUME RemoveArchive(u)
          PROVE  ~Running(u)' \/ \E pc : script' = [script EXCEPT ![u].pc = pc]
      <4>1. script'[u].pc = "failed" \/ \E pc : script' = [script EXCEPT ![u].pc = pc]
        <5>1. script = [v \in Targets |-> script[v]]
          BY DEF TypeOK
        <5> QED
          BY <3>2, <5>1 DEF RemoveArchive, Goto, Resting
      <4> QED
        BY <4>1 DEF Running
    <3> QED
      BY <1>4, <3>1, <3>2
  <2>3. CASE ~Running(u)'
    BY <1>1, <2>1, <2>3
  <2>4. ASSUME NEW n, NEW pc,
               script' = [script EXCEPT ![u].next = n] \/ script' = [script EXCEPT ![u].pc = pc]
        PROVE  Chosen(script'[u])
    <3>1. /\ script'[u].seen = script[u].seen /\ script'[u].gpus = script[u].gpus
          /\ script'[u].arch = script[u].arch
      BY <2>1, <2>4, RunningType DEF TypeOK
    <3> QED
      BY <2>1, <3>1 DEF ChosenInv, Chosen
  <2> QED
    BY <1>1, <2>1, <2>2, <2>3, <2>4 DEF ChosenInv
<1>5. CASE PackObjects(u)
  <2>1. /\ Running(u)
        /\ output'[u] = Ran("archive", script[u].arch, script[u].seen, script[u].gpus)
        /\ ~Running(u)'
    BY <1>5 DEF PackObjects, Running, Resting, TypeOK
  <2>2. Chosen(output'[u])
    BY <2>1 DEF ChosenInv, Chosen, Ran
  <2> QED
    BY <2>1, <2>2
<1>6. CASE PackFails(u) \/ Rustc(u) \/ Stop(u) \/ EditCrate(u) \/ ChangeEnv(u)
  <2>1. output' = output /\ (script'[u] = script[u] \/ ~Running(u)')
    BY <1>6 DEF PackFails, Rustc, Stop, EditCrate, ChangeEnv, Running, Resting, TypeOK
  <2> QED
    BY <1>1, <2>1
<1>7. CASE WorldStep \/ UNCHANGED vars
  <2>1. UNCHANGED <<script, output>>
    BY <1>7 DEF WorldStep, EditPackage, EditCheckout, ChangeGpus, vars
  <2> QED
    BY <1>1, <2>1
<1> QED
  BY <1>2, <1>3, <1>4, <1>5, <1>6, <1>7 DEF Next, TargetStep, ScriptStep

\* A GPU that the script saw when it detected the architecture runs what is in
\* the library, for any host: a host with GPUs of two architectures or with
\* none has no library of kernels.
THEOREM DetectedRuns == Spec => []DetectedLibraryRunsOnEveryGpu
<1>1. Init => ChosenInv
  BY DEF Init, ChosenInv, Running, Resting
<1>2. IInv /\ ChosenInv => DetectedLibraryRunsOnEveryGpu
  <2> SUFFICES ASSUME IInv, ChosenInv, NEW t \in Targets, Archived(t),
                      output[t].seen.env.archs = Unset, output[t].seen.env.cap = Unset,
                      NEW n \in Names, lib[t][n] \notin {None, Torn},
                      NEW g \in Range(output[t].gpus)
               PROVE  ParseArch(g) = Selected(lib[t][n].arch)
    BY DEF DetectedLibraryRunsOnEveryGpu
  <2>1. output[t] # None /\ output[t].kind = "archive"
    BY DEF IInv, CargoInv, Archived
  <2>2. SelectedArch(output[t].seen.env, output[t].gpus) = Selected(output[t].arch)
    BY <2>1 DEF ChosenInv, Chosen
  <2>3. DetectArch(output[t].gpus) = Selected(output[t].arch)
    BY <2>2, DetectedArch DEF Selected, Panic
  <2>4. ParseArch(g) = Selected(output[t].arch)
    <3>1. Selected(output[t].arch) # Warning
      BY DEF Selected, Warning
    <3> QED
      BY <2>3, <3>1 DEF DetectArch, ParseDetectedArchs
  <2>5. lib[t][n].arch = output[t].arch
    BY DEF IInv, LibraryIsOfOneArch, ObjectsOf
  <2> QED
    BY <2>4, <2>5
<1>3. IInv => TypeOK
  BY DEF IInv
<1> QED
  BY <1>1, <1>2, <1>3, ChosenStep, BuildInductive, PTL DEF Spec
=============================================================================
