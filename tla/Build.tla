-------------------------------- MODULE Build --------------------------------
(***************************************************************************)
(* The build of flashmla-sys: Cargo, which decides when the build script   *)
(* runs, the script (build.rs), which compiles the sources one by one into *)
(* a build directory and packs the objects into an archive there, and      *)
(* rustc, which bundles the archive into the library.  Several target      *)
(* directories build at the same time, each with an environment of its     *)
(* own; FLASHMLA_BUILD_DIR lets them share a build directory.  A script    *)
(* may be stopped at any step and leaves what it had written.              *)
(*                                                                         *)
(* The FlashMLA checkouts, the package and the environments are edited     *)
(* while this goes on.  An object file records what it was compiled from.  *)
(***************************************************************************)
EXTENDS ArchSelection, Naturals, FiniteSets

CONSTANTS
    Targets,      \* Cargo target directories
    Envs,         \* Envs[t]: environments t is built in, with fields
                  \* archs, cap, root, named, shared, sane
    Gpus,         \* answers of nvidia-smi
    Roots,        \* FlashMLA checkouts
    Complete,     \* those in which every required path exists
    SourceLists,  \* SourceLists[a][v]: the sources the package's version v
                  \* compiles for a, in order
    Cache,        \* the directory FLASHMLA_BUILD_DIR names
    None, Torn,   \* no file; a file that is cut off
    Stub,         \* a library of stubs
    MaxEdits,     \* bound: edits of sources and environments
    MaxFaults     \* bound: scripts stopped or failing

ASSUME BuildAssumption ==
    /\ MaxEdits \in Nat /\ MaxFaults \in Nat
    /\ Complete \subseteq Roots
    /\ Cache \notin Targets
    /\ \A t \in Targets : \A e \in Envs[t] :
           /\ e.root \in Roots
           /\ e.named \in BOOLEAN /\ e.shared \in BOOLEAN /\ e.sane \in BOOLEAN
    /\ DOMAIN SourceLists = Archs
    /\ \A a \in Archs : SourceLists[a] \in [0 .. MaxEdits -> Seq([src : STRING, stem : STRING])]

VARIABLES
    env,      \* env[t]: the environment of the next build of t
    gpus,     \* what nvidia-smi answers
    package,  \* the version of the package: build.rs and csrc/
    tree,     \* tree[r]: the versions of r's listed sources and of its headers
    objects,  \* objects[d][n]: the object file n in build directory d
    archive,  \* archive[d]: libflashmla.a in d, a function of its members
    script,   \* script[t]: the build script running for t
    output,   \* output[t]: what Cargo recorded of the last successful run
    lib,      \* lib[t]: what the library of t was linked from
    edits,    \* the number of edits so far
    faults    \* the number of faults so far

vars == <<env, gpus, package, tree, objects, archive, script, output, lib,
          edits, faults>>
inputs == <<env, gpus, package, tree, edits>>
files == <<objects, archive>>

-----------------------------------------------------------------------------
(* Directories and files.                                                  *)

\* Cargo's OUT_DIR of t or FLASHMLA_BUILD_DIR, and in it one directory per
\* architecture; first one for all.
BuildDirOfAll(t, e, a) == <<IF e.shared THEN Cache ELSE t, "sm90a">>
BuildDir(t, e, a) == <<IF e.shared THEN Cache ELSE t, a>>

Dirs == (Targets \cup {Cache}) \X Archs

\* Object files are numbered, because files in different directories of a
\* checkout have the same name; first as if they had not.
ObjectStem(i, source) == <<0, source.stem>>
ObjectName(i, source) == <<i, source.stem>>

NamesIn(list) == {ObjectName(i, list[i]) : i \in DOMAIN list}
Names == UNION {NamesIn(SourceLists[a][v]) : a \in Archs, v \in 0 .. MaxEdits}

\* What an object is compiled from.
Object(source, a, r) ==
    [src |-> source.src, arch |-> a, root |-> r, package |-> package,
     listed |-> tree[r].listed, headers |-> tree[r].headers]

NoFiles == [n \in Names |-> None]

AllEnvs == UNION {Envs[t] : t \in Targets}

Resting(pc) == [pc |-> pc, arch |-> Unset, seen |-> None, gpus |-> Unset,
                next |-> 0]

Init ==
    /\ env \in [Targets -> AllEnvs]
    /\ \A t \in Targets : env[t] \in Envs[t]
    /\ gpus \in Gpus
    /\ package = 0
    /\ tree = [r \in Roots |-> [listed |-> 0, headers |-> 0]]
    /\ objects = [d \in Dirs |-> NoFiles]
    /\ archive = [d \in Dirs |-> None]
    /\ script = [t \in Targets |-> Resting("idle")]
    /\ output = [t \in Targets |-> None]
    /\ lib = [t \in Targets |-> None]
    /\ edits = 0
    /\ faults = 0

-----------------------------------------------------------------------------
(* Cargo.                                                                  *)

\* What Cargo compares to decide whether the script has to run again: the
\* rerun-if-env-changed variables, the package and the rerun-if-changed
\* sources, which a build of stubs does not announce; first with the wrapper's
\* sources alone.
WatchedWrapper(t, kind) ==
    [env |-> env[t], package |-> package, listed |-> 0]
Watched(t, kind) ==
    [env |-> env[t], package |-> package,
     listed |-> IF kind = "stub" THEN 0 ELSE tree[env[t].root].listed]

UpToDate(t) ==
    output[t] # None /\ output[t].seen = Watched(t, output[t].kind)

Ran(kind, a, seen, g) == [kind |-> kind, arch |-> a, seen |-> seen, gpus |-> g]

\* What the script requires to compile: a FLASHMLA_ROOT that is not set to
\* nothing (named), a checkout with every path it names, and (sane) a CUDA
\* Toolkit and no other variable that is set but blank.  Stubs name the
\* checkout too, but are not compiled from it.
Prepared(e) == e.named /\ e.root \in Complete /\ e.sane
Accepted(kind, e) ==
    \/ kind = "stub" /\ e.named
    \/ kind = "archive" /\ Prepared(e)

\* Cargo runs the script, after forgetting what it knew of its last run.
\* Selection and preparation decide how far it gets.
BuildStart(t) ==
    LET selected == SelectedArch(env[t], gpus)
        seen == Watched(t, selected.kind)
    IN  /\ script[t].pc \in {"idle", "failed"}
        /\ ~UpToDate(t)
        /\ lib' = [lib EXCEPT ![t] = None]
        /\ \/ /\ selected.kind = "stub" /\ env[t].named
              /\ output' = [output EXCEPT ![t] = Ran("stub", Unset, seen, gpus)]
              /\ script' = [script EXCEPT ![t] = Resting("idle")]
           \/ /\ selected.kind = "archive" /\ Prepared(env[t])
              /\ output' = [output EXCEPT ![t] = None]
              /\ script' = [script EXCEPT ![t] =
                     [pc |-> "compile", arch |-> selected.arch, seen |-> seen,
                      gpus |-> gpus, next |-> 1]]
           \/ /\ ~Accepted(selected.kind, env[t])
              /\ output' = [output EXCEPT ![t] = None]
              /\ script' = [script EXCEPT ![t] = Resting("failed")]
        /\ UNCHANGED <<inputs, files, faults>>

\* rustc bundles what the recorded run announced: the feature of the stubs,
\* or the archive that is in the build directory now.  What the script looked
\* at may have changed since the invocation of Cargo that is under way began.
Rustc(t) ==
    /\ script[t].pc = "idle"
    /\ output[t] # None
    /\ lib[t] = None
    /\ LET d == BuildDir(t, output[t].seen.env, output[t].arch)
       IN  IF output[t].kind = "stub"
           THEN lib' = [lib EXCEPT ![t] = Stub]
           ELSE /\ archive[d] \notin {None, Torn}
                /\ lib' = [lib EXCEPT ![t] = archive[d]]
    /\ UNCHANGED <<inputs, files, script, output, faults>>

-----------------------------------------------------------------------------
(* The build script.                                                       *)

Dir(t) == BuildDir(t, script[t].seen.env, script[t].arch)
Sources(t) == SourceLists[script[t].arch][script[t].seen.package]

Goto(t, pc) == script' = [script EXCEPT ![t].pc = pc]

\* compile_cuda_source: nvcc overwrites the object.
CompileSource(t) ==
    LET i == script[t].next
        source == Sources(t)[i]
    IN  /\ script[t].pc = "compile"
        /\ i <= Len(Sources(t))
        /\ objects' = [objects EXCEPT ![Dir(t)][ObjectName(i, source)] =
               Object(source, script[t].arch, script[t].seen.env.root)]
        /\ script' = [script EXCEPT ![t].next = i + 1]
        /\ UNCHANGED <<inputs, archive, output, lib, faults>>

\* archive_objects looks for an archive of an earlier build; or keeps it.
KeepArchive(t) ==
    /\ script[t].pc = "compile"
    /\ script[t].next > Len(Sources(t))
    /\ Goto(t, "pack")
    /\ UNCHANGED <<inputs, files, output, lib, faults>>
FindArchive(t) ==
    /\ script[t].pc = "compile"
    /\ script[t].next > Len(Sources(t))
    /\ Goto(t, IF archive[Dir(t)] = None THEN "pack" ELSE "remove")
    /\ UNCHANGED <<inputs, files, output, lib, faults>>

\* It removes the archive it found; that fails when it is gone.
RemoveArchive(t) ==
    /\ script[t].pc = "remove"
    /\ IF archive[Dir(t)] = None
       THEN script' = [script EXCEPT ![t] = Resting("failed")]
       ELSE Goto(t, "pack")
    /\ archive' = [archive EXCEPT ![Dir(t)] = None]
    /\ UNCHANGED <<inputs, objects, output, lib, faults>>

\* `ar crs` adds the objects to the archive, replacing members of the same
\* name in one that is there; then the script ends and Cargo takes down what
\* it had looked at when it started the script.
PackObjects(t) ==
    LET d == Dir(t)
        old == IF archive[d] = None THEN NoFiles ELSE archive[d]
    IN  /\ script[t].pc = "pack"
        /\ archive[d] # Torn
        /\ archive' = [archive EXCEPT ![d] =
               [n \in Names |-> IF n \in NamesIn(Sources(t)) THEN objects[d][n]
                                ELSE old[n]]]
        /\ output' = [output EXCEPT ![t] =
               Ran("archive", script[t].arch, script[t].seen, script[t].gpus)]
        /\ script' = [script EXCEPT ![t] = Resting("idle")]
        /\ UNCHANGED <<inputs, objects, lib, faults>>

\* `ar` does not add to what is no archive.
PackFails(t) ==
    /\ script[t].pc = "pack"
    /\ archive[Dir(t)] = Torn
    /\ script' = [script EXCEPT ![t] = Resting("failed")]
    /\ UNCHANGED <<inputs, files, output, lib, faults>>

\* nvcc or ar fails, or the build is killed: the script ends without success.
\* The file being written may be cut off, also when it was whole before.
Stop(t) ==
    /\ script[t].pc \in {"compile", "remove", "pack"}
    /\ faults < MaxFaults
    /\ faults' = faults + 1
    /\ script' = [script EXCEPT ![t] = Resting("failed")]
    /\ \/ UNCHANGED files
       \/ /\ script[t].pc = "compile" /\ script[t].next <= Len(Sources(t))
          /\ LET i == script[t].next
             IN  objects' = [objects EXCEPT
                     ![Dir(t)][ObjectName(i, Sources(t)[i])] = Torn]
          /\ UNCHANGED archive
       \/ /\ script[t].pc = "pack"
          /\ archive' = [archive EXCEPT ![Dir(t)] = Torn]
          /\ UNCHANGED objects
    /\ UNCHANGED <<inputs, output, lib>>

-----------------------------------------------------------------------------
(* The world around a build.                                               *)

Edit == edits < MaxEdits /\ edits' = edits + 1

EditPackage ==
    /\ Edit
    /\ package' = package + 1
    /\ UNCHANGED <<env, gpus, tree, files, script, output, lib, faults>>

\* A listed source of a checkout changes, or a header it includes.
EditCheckout(r) ==
    /\ Edit
    /\ \/ tree' = [tree EXCEPT ![r].listed = @ + 1]
       \/ tree' = [tree EXCEPT ![r].headers = @ + 1]
    /\ UNCHANGED <<env, gpus, package, files, script, output, lib, faults>>

\* The Rust sources of the crate change, which does not run the script.
EditCrate(t) ==
    /\ Edit
    /\ lib' = [lib EXCEPT ![t] = None]
    /\ UNCHANGED <<env, gpus, package, tree, files, script, output, faults>>

ChangeEnv(t) ==
    /\ Edit
    /\ \E e \in Envs[t] \ {env[t]} : env' = [env EXCEPT ![t] = e]
    /\ UNCHANGED <<gpus, package, tree, files, script, output, lib, faults>>

ChangeGpus ==
    /\ Edit
    /\ \E g \in Gpus \ {gpus} : gpus' = g
    /\ UNCHANGED <<env, package, tree, files, script, output, lib, faults>>

ScriptStep(t) ==
    \/ CompileSource(t)
    \/ FindArchive(t)
    \/ RemoveArchive(t)
    \/ PackObjects(t)
    \/ PackFails(t)

TargetStep(t) ==
    \/ BuildStart(t)
    \/ ScriptStep(t)
    \/ Rustc(t)
    \/ Stop(t)
    \/ EditCrate(t)
    \/ ChangeEnv(t)

WorldStep ==
    \/ EditPackage
    \/ \E r \in Roots : EditCheckout(r)
    \/ ChangeGpus

Next == (\E t \in Targets : TargetStep(t)) \/ WorldStep

Spec == Init /\ [][Next]_vars

\* Somebody repeats `cargo build` for every target until it succeeds, and the
\* programs it runs end.  Nobody has to edit anything.
Fairness ==
    \A t \in Targets :
        WF_vars(BuildStart(t)) /\ WF_vars(ScriptStep(t)) /\ WF_vars(Rustc(t))

LiveSpec == Spec /\ Fairness

-----------------------------------------------------------------------------
(* Properties.                                                             *)

Versions == 0 .. MaxEdits
Listed == UNION {Range(SourceLists[a][v]) : a \in Archs, v \in Versions}
Srcs == {source.src : source \in Listed}
ObjectsOf(a) ==
    [src : Srcs, arch : {a}, root : Roots, package : Versions,
     listed : Versions, headers : Versions]
Objects == UNION {ObjectsOf(a) : a \in Archs}
Files == [Names -> Objects \cup {None, Torn}]
Seen == [env : AllEnvs, package : Versions, listed : Versions]

\* Type correctness of the build directories and of what Cargo keeps.
TypeOK ==
    /\ env \in [Targets -> AllEnvs]
    /\ gpus \in Gpus
    /\ package \in 0 .. edits
    /\ tree \in [Roots -> [listed : 0 .. edits, headers : 0 .. edits]]
    /\ objects \in [Dirs -> Files]
    /\ archive \in [Dirs -> Files \cup {None, Torn}]
    /\ script \in [Targets ->
           [pc : {"compile", "remove", "pack"}, arch : Archs, seen : Seen,
            gpus : Gpus, next : Nat \ {0}]
           \cup {Resting("idle"), Resting("failed")}]
    /\ output \in [Targets ->
           [kind : {"archive"}, arch : Archs, seen : Seen, gpus : Gpus]
           \cup [kind : {"stub"}, arch : {Unset}, seen : Seen, gpus : Gpus]
           \cup {None}]
    /\ lib \in [Targets -> Files \cup {None, Stub}]
    /\ edits \in 0 .. MaxEdits
    /\ faults \in 0 .. MaxFaults

\* A file that is not there and one that is cut off are not objects.
ASSUME FilesAssumption ==
    /\ None # Torn
    /\ \A a \in Archs : {None, Torn} \cap ObjectsOf(a) = {}

Archived(t) == lib[t] \notin {None, Stub}

\* Every member of a library was compiled for the one architecture the build
\* selected, whoever else writes to its build directory and whenever builds
\* are cut off: archives of both architectures can be cached side by side.
LibraryIsOfOneArch ==
    \A t \in Targets : Archived(t) =>
        \A n \in Names : lib[t][n] \in {None, Torn} \cup ObjectsOf(output[t].arch)

\* A library that Cargo takes to be up to date, in a build directory of its
\* own, holds the sources the script lists and no others, each compiled from
\* its present version in the present checkout for the architecture that is
\* asked for: nothing of another build, of an earlier list or of a build that
\* was cut off is left in it.  The headers are those of some moment up to now,
\* since the script does not announce them to Cargo: while nobody edits one
\* the library is what the script would compile, and after an edit it is not,
\* and is up to date for Cargo all the same.
LibraryIsCurrent ==
    \A t \in Targets : Archived(t) /\ UpToDate(t) /\ ~env[t].shared =>
        LET a == SelectedArch(env[t], output[t].gpus).arch
            list == SourceLists[a][package]
        IN  /\ {n \in Names : lib[t][n] # None} = NamesIn(list)
            /\ \A i \in DOMAIN list :
                   \E h \in 0 .. tree[env[t].root].headers :
                       lib[t][ObjectName(i, list[i])] =
                           [Object(list[i], a, env[t].root) EXCEPT !.headers = h]

\* A library whose architecture was detected runs on every GPU of the host it
\* was detected on.
DetectedLibraryRunsOnEveryGpu ==
    \A t \in Targets :
        /\ Archived(t)
        /\ output[t].seen.env.archs = Unset /\ output[t].seen.env.cap = Unset
        => \A n \in Names : lib[t][n] \notin {None, Torn} =>
               \A g \in Range(output[t].gpus) :
                   ParseArch(g) = Selected(lib[t][n].arch)

\* Whatever was edited, stopped or left behind: who repeats the build gets an
\* up to date library, unless the environment asks for what cannot be built
\* or for a build directory of others.
Buildable(t) == Accepted(SelectedArch(env[t], gpus).kind, env[t])
BuildsFinish ==
    \A t \in Targets :
        <>[](Buildable(t) /\ ~env[t].shared => lib[t] # None /\ UpToDate(t))

\* The inductive invariants.  While a script runs, Cargo has neither output
\* nor library of the target.
Running(t) == script[t].pc \in {"compile", "remove", "pack"}

CargoInv ==
    \A t \in Targets :
        /\ script[t].pc # "idle" => output[t] = None
        /\ output[t] = None => lib[t] = None
        /\ Archived(t) => output[t].kind = "archive"

\* The files of a build directory are of its architecture.
ArchInv ==
    /\ \A d \in Dirs, n \in Names :
           objects[d][n] \in {None, Torn} \cup ObjectsOf(d[2])
    /\ \A d \in Dirs : archive[d] \notin {None, Torn} =>
           \A n \in Names : archive[d][n] \in {None, Torn} \cup ObjectsOf(d[2])

\* At versions p and tr of the package and the checkouts: r is a run of the
\* script, under way or recorded; it selected its architecture, and what it
\* looked at has not gone back.
RunOf(r, p, tr) ==
    /\ SelectedArch(r.seen.env, r.gpus) = Selected(r.arch)
    /\ r.seen.package <= p
    /\ r.seen.listed <= tr[r.seen.env.root].listed

\* o was compiled from source i of run r, since it started.
CompiledIn(r, i, o, p, tr) ==
    /\ o \in ObjectsOf(r.arch)
    /\ o.src = SourceLists[r.arch][r.seen.package][i].src
    /\ o.root = r.seen.env.root
    /\ o.package \in r.seen.package .. p
    /\ o.listed \in r.seen.listed .. tr[r.seen.env.root].listed
    /\ o.headers \in 0 .. tr[r.seen.env.root].headers

\* f is what run r packed.
PackedIn(r, f, p, tr) ==
    LET list == SourceLists[r.arch][r.seen.package]
    IN  /\ {n \in Names : f[n] # None} = NamesIn(list)
        /\ \A i \in DOMAIN list :
               CompiledIn(r, i, f[ObjectName(i, list[i])], p, tr)

\* Script r finds in the objects os what it compiled so far, and no archive
\* when it packs.
ScriptOK(r, os, ar, p, tr) ==
    LET list == SourceLists[r.arch][r.seen.package]
    IN  /\ RunOf(r, p, tr)
        /\ \A i \in DOMAIN list : i < r.next =>
               CompiledIn(r, i, os[ObjectName(i, list[i])], p, tr)
        /\ r.pc # "compile" => r.next > Len(list)
        /\ r.pc = "pack" => ar = None

\* The archive and the library of the recorded run r are what it packed.
OutputOK(r, ar, f, p, tr) ==
    /\ RunOf(r, p, tr)
    /\ ar \notin {None, Torn} => PackedIn(r, ar, p, tr)
    /\ f \notin {None, Stub} => PackedIn(r, f, p, tr)

OutputDir(t) == BuildDir(t, output[t].seen.env, output[t].arch)

\* In a build directory that is not shared what a script compiled stays as it
\* was until it is packed, nothing is added to an old archive, and an archive
\* Cargo knows of is the one the recorded run packed.
ScriptInv ==
    \A t \in Targets : Running(t) /\ ~script[t].seen.env.shared =>
        ScriptOK(script[t], objects[Dir(t)], archive[Dir(t)], package, tree)

OutputInv ==
    \A t \in Targets :
        /\ output[t] # None /\ output[t].kind = "archive"
        /\ ~output[t].seen.env.shared
        =>
        OutputOK(output[t], archive[OutputDir(t)], lib[t], package, tree)

IInv == TypeOK /\ CargoInv /\ ArchInv /\ LibraryIsOfOneArch

\* README.md:35 says that a host with GPUs of different architectures is
\* rejected: no library comes of it.
MixedHostIsRejected ==
    \A t \in Targets :
        output[t] # None => \/ output[t].seen.env.archs # Unset
                            \/ output[t].seen.env.cap # Unset
                            \/ output[t].gpus = Unset
                            \/ Cardinality({ParseArch(g) : g \in Range(output[t].gpus)}) < 2
=============================================================================
