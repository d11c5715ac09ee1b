-------------------------------- MODULE Pod --------------------------------
(***************************************************************************)
(* One pod command: build, install or push (dgr/pod-*.go), with the        *)
(* goroutines --parallel starts for the apps and for the checks of their   *)
(* dependencies (dgr/aci-build.go), and the import of the builder they     *)
(* share (dgr/rkt.go).                                                     *)
(*                                                                         *)
(* The build of one ACI, followed in full by Aci, is reduced here to the   *)
(* steps that touch what the goroutines share.                             *)
(***************************************************************************)
EXTENDS Naturals, FiniteSets

CONSTANTS
  NumApps,   \* the number of apps of the pod
  AppName,   \* the name of each app, after which its directory is called
  OwnBuilder, \* the apps whose manifest names a builder image of its own
  Command,   \* "build", "install" or "push"
  Modes      \* with --parallel, without, or both

Apps == 1..NumApps
Dirs == {AppName[i] : i \in Apps}
Distinct == \A i, j \in Apps : AppName[i] = AppName[j] => i = j

\* Two tar processes that write the same file at once are not modelled.
ASSUME PodAssumption ==
  /\ NumApps \in Nat
  /\ DOMAIN AppName = Apps
  /\ OwnBuilder \subseteq Apps
  /\ Command \in {"build", "install", "push"}
  /\ Modes \subseteq {"parallel", "sequential"}
  /\ "parallel" \in Modes => Distinct

\* image.aci of an app's directory: the app it was built for, 0 when there is
\* no file, and whether tar is done with it.
Image == [by : 0..NumApps, whole : BOOLEAN]
None  == [by |-> 0, whole |-> FALSE]

Checks == {"compatibility", "latest"}

\* Where the goroutine of an app is.
Stages == {"unborn", "deps", "clean", "checks", "target", "import", "locked",
           "importing", "builder", "container", "tar", "extract", "cleanup", "sum", "done"}

VARIABLES
  mode,       \* how this command builds its apps
  main,       \* where the main goroutine is
  next,       \* the app the loop of the main goroutine is at
  pc,         \* per app: where its goroutine is
  failing,    \* per app: whether its build returns an error through cleanupRun
  wg,         \* the WaitGroup of processAcis
  apps,       \* apps[i]: the image whose hash was computed, None for nil
  errors,     \* errors[i]: whether an error was stored
  image,      \* the image in each directory
  mutex,      \* the app whose goroutine holds importMutex, 0 for nobody
  imported,   \* builderImported
  imports,    \* how often the builder was imported into rkt
  temps,      \* the apps whose builder image or pod is in rkt
  checkWg,    \* the WaitGroup of the dependency checks
  checks,     \* the checks that are running
  manifest,   \* the apps listed in pod-manifest.json
  delivered,  \* the images installed or pushed, with the app they went for
  outcome     \* "running", "ok", "error", "fatal" after logs.Fatal, or "panic"

loop    == <<mode, main, next>>
results == <<apps, errors>>
import  == <<mutex, imported, imports>>
checker == <<checkWg, checks>>
output  == <<manifest, delivered, outcome>>
vars == <<loop, pc, failing, wg, results, image, import, temps, checker, output>>

Init ==
  /\ mode \in Modes
  /\ main = "clean" /\ next = 1
  /\ pc = [i \in Apps |-> "unborn"] /\ failing = [i \in Apps |-> FALSE] /\ wg = 0
  /\ apps = [i \in Apps |-> None] /\ errors = [i \in Apps |-> FALSE]
  /\ image \in [Dirs -> {None, [by |-> 0, whole |-> TRUE]}]
  /\ mutex = 0 /\ imported = FALSE /\ imports = 0
  /\ temps = {}
  /\ checkWg = 0 /\ checks = {}
  /\ manifest = <<>> /\ delivered = {} /\ outcome = "running"

Running  == outcome = "running"
Parallel == mode = "parallel"

----------------------------------------------------------------------------
(* The main goroutine *)

\* Pod.Clean removes the pod's target and the target of each app, up to an
\* error in toPodAci; Build then removes the pod's target again.
Clean ==
  /\ Running /\ main = "clean"
  /\ main' = "spawn"
  /\ \E kept \in SUBSET Dirs :
       image' = [d \in Dirs |-> IF d \in kept THEN image[d] ELSE None]
  /\ UNCHANGED <<mode, next, pc, failing, wg, results, import, temps, checker, output>>

\* One turn of the loop of processAcis: the function is started, or called and
\* waited for.
Spawn ==
  /\ Running /\ main = "spawn" /\ next \in Apps
  /\ Parallel \/ \A i \in Apps : i < next => pc[i] = "done"
  /\ wg' = wg + 1
  /\ pc' = [pc EXCEPT ![next] = "deps"]
  /\ next' = next + 1
  /\ UNCHANGED <<mode, main, failing, results, image, import, temps, checker, output>>

SpawnedAll ==
  /\ Running /\ main = "spawn" /\ next = NumApps + 1
  /\ Parallel \/ \A i \in Apps : pc[i] = "done"
  /\ main' = "wait"
  /\ UNCHANGED <<mode, next, pc, failing, wg, results, image, import, temps, checker, output>>

\* wg.Wait of processAcis.
NoWait  == TRUE
AllDone == wg = 0

End(result) == main' = "end" /\ outcome' = result

\* processAcis returns an error when one is stored; otherwise the manifest is
\* written, which may fail.
FinishBuild ==
  /\ Running /\ main = "wait" /\ AllDone
  /\ \/ End("error") /\ UNCHANGED manifest
     \/ /\ \A i \in Apps : ~errors[i]
        /\ manifest' = apps
        /\ main' = "deliver" /\ UNCHANGED outcome
  /\ next' = 1
  /\ UNCHANGED <<mode, pc, failing, wg, results, image, import, temps, checker, delivered>>

\* Install or Push of the next app's ACI, whose image is there: it is used as
\* it is, see Aci.
Deliver ==
  /\ Running /\ main = "deliver" /\ Command # "build" /\ next \in Apps
  /\ \/ /\ image[AppName[next]] # None
        /\ delivered' = delivered \cup {<<next, image[AppName[next]]>>}
        /\ next' = next + 1
        /\ UNCHANGED <<main, outcome>>
     \/ End("error") /\ UNCHANGED <<next, delivered>>
  /\ UNCHANGED <<mode, pc, failing, wg, results, image, import, temps, checker, manifest>>

\* checkWg.Wait of the cobra command.
Finish ==
  /\ Running /\ main = "deliver"
  /\ Command = "build" \/ next = NumApps + 1
  /\ checkWg = 0
  /\ End("ok")
  /\ UNCHANGED <<mode, next, pc, failing, wg, results, image, import, temps, checker,
                 manifest, delivered>>

----------------------------------------------------------------------------
(* The goroutine of app i: processAci *)

At(i, stage) == Running /\ pc[i] = stage
Goto(i, stage) == pc' = [pc EXCEPT ![i] = stage]

\* The function stores what processAci returned and its deferred Done runs.
Done    == wg' = wg - 1

Store(i, app, err) ==
  /\ apps' = [apps EXCEPT ![i] = app]
  /\ errors' = [errors EXCEPT ![i] = err]
  /\ Goto(i, "done")

FailUnreported(i) == Store(i, None, FALSE) /\ Done
Fail(i) == Store(i, None, TRUE) /\ Done

\* Every step of processAci that can fail before cleanupRun is deferred: the
\* dependency's manifest and toPodAci, the copy of the attributes, the target
\* directory, the builder image, the name and the hash.
GiveUp(i) ==
  /\ \E stage \in {"deps", "checks", "target", "builder", "sum"} : At(i, stage)
  /\ Fail(i)
  /\ UNCHANGED <<loop, failing, image, import, temps, checker, output>>

\* fillRuntimeAppFromDependencies and toPodAci.
FillFromDependencies(i) ==
  /\ At(i, "deps") /\ Goto(i, "clean")
  /\ UNCHANGED <<loop, failing, wg, results, image, import, temps, checker, output>>

\* aci.Clean.
CleanAci(i) ==
  /\ At(i, "clean") /\ Goto(i, "checks")
  /\ image' = [image EXCEPT ![AppName[i]] = None]
  /\ UNCHANGED <<loop, failing, wg, results, import, temps, checker, output>>

\* aci.checkDependencies: two goroutines, or two calls when not parallel.
NoneAdded == 0
Added     == 2

CheckDependencies(i) ==
  /\ At(i, "checks") /\ Goto(i, "target")
  /\ IF Parallel THEN checkWg' = checkWg + Added /\ checks' = checks \cup ({i} \X Checks)
                 ELSE UNCHANGED checker
  /\ UNCHANGED <<loop, failing, wg, results, image, import, temps, output>>

\* RunBuilderCommand up to ImportInternalBuilderIfNeeded, which does nothing
\* for a manifest that names a builder.
PrepareTarget(i) ==
  /\ At(i, "target") /\ Goto(i, IF i \in OwnBuilder THEN "builder" ELSE "import")
  /\ UNCHANGED <<loop, failing, wg, results, image, import, temps, checker, output>>

\* importMutex.Lock
NoLock   == TRUE
LockFree == mutex = 0

Lock(i) ==
  /\ At(i, "import") /\ LockFree
  /\ mutex' = i /\ Goto(i, "locked")
  /\ UNCHANGED <<loop, failing, wg, results, image, imported, imports, temps, checker,
                 output>>

\* The deferred Unlock.
NoUnlock == mutex' = mutex
Unlock   == mutex' = 0

\* Another goroutine already imported the builder.
FindImported(i) ==
  /\ At(i, "locked") /\ imported
  /\ Unlock /\ Goto(i, "builder")
  /\ UNCHANGED <<loop, failing, wg, results, image, imported, imports, temps, checker,
                 output>>

\* importInternalAci writes a file and has rkt fetch it, which takes long.
StartImport(i) ==
  /\ At(i, "locked") /\ ~imported
  /\ Goto(i, "importing")
  /\ UNCHANGED <<loop, failing, wg, results, image, import, temps, checker, output>>

Import(i) ==
  /\ At(i, "importing")
  /\ imports' = imports + 1 /\ imported' = TRUE
  /\ Unlock /\ Goto(i, "builder")
  /\ UNCHANGED <<loop, failing, wg, results, image, temps, checker, output>>

\* A failed import is fatal: the process exits, deferred calls do not run.
Fatal(i)    == End("fatal") /\ UNCHANGED <<mutex, imported, pc>>

FailImport(i) ==
  /\ At(i, "importing")
  /\ Fatal(i)
  /\ UNCHANGED <<mode, next, failing, wg, results, image, imports, temps, checker,
                 manifest, delivered>>

\* prepareBuildAci; cleanupRun is deferred from here on.
PrepareBuilder(i) ==
  /\ At(i, "builder") /\ Goto(i, "container")
  /\ temps' = temps \cup {i}
  /\ UNCHANGED <<loop, failing, wg, results, image, import, checker, output>>

\* rkt run: the builder opens image.aci when its run levels are done.
RunBuilder(i) ==
  /\ At(i, "container")
  /\ \/ /\ image' = [image EXCEPT ![AppName[i]] = [by |-> i, whole |-> FALSE]]
        /\ Goto(i, "tar") /\ UNCHANGED failing
     \/ /\ failing' = [failing EXCEPT ![i] = TRUE]
        /\ Goto(i, "cleanup") /\ UNCHANGED image
  /\ UNCHANGED <<loop, wg, results, import, temps, checker, output>>

TarAci(i) ==
  /\ At(i, "tar")
  /\ \/ /\ image' = [image EXCEPT ![AppName[i]] = [by |-> i, whole |-> TRUE]]
        /\ Goto(i, "extract") /\ UNCHANGED failing
     \/ /\ failing' = [failing EXCEPT ![i] = TRUE]
        /\ Goto(i, "cleanup") /\ UNCHANGED image
  /\ UNCHANGED <<loop, wg, results, import, temps, checker, output>>

\* manifest.json and version are written from image.aci.
ExtractManifest(i) ==
  /\ At(i, "extract") /\ Goto(i, "cleanup")
  /\ \E err \in BOOLEAN : failing' = [failing EXCEPT ![i] = err]
  /\ UNCHANGED <<loop, wg, results, image, import, temps, checker, output>>

\* cleanupRun, and the return of aci.Build.
CleanupRun(i) ==
  /\ At(i, "cleanup")
  /\ temps' = temps \ {i}
  /\ IF failing[i] THEN Fail(i) ELSE Goto(i, "sum") /\ UNCHANGED <<wg, results>>
  /\ UNCHANGED <<loop, failing, image, import, checker, output>>

\* The hash of the image, and the return of the goroutine.
ComputeSum(i) ==
  /\ At(i, "sum") /\ image[AppName[i]] # None
  /\ Store(i, image[AppName[i]], FALSE) /\ Done
  /\ UNCHANGED <<loop, failing, image, import, temps, checker, output>>

----------------------------------------------------------------------------
\* A check of dependencies ends; what it finds is only logged.
EndCheck(c) ==
  /\ Running /\ c \in checks
  /\ checks' = checks \ {c} /\ checkWg' = checkWg - 1
  /\ UNCHANGED <<loop, pc, failing, wg, results, image, import, temps, output>>

\* LatestVersion uses the app before it looks at the error: a dependency whose
\* name cannot be parsed panics in the goroutine of the check, or in the call
\* without --parallel, which ends the process.
PanicInCheck ==
  /\ Running
  /\ \/ \E i \in Apps : <<i, "latest">> \in checks
     \/ ~Parallel /\ \E i \in Apps : pc[i] = "checks"
  /\ End("panic")
  /\ UNCHANGED <<mode, next, pc, failing, wg, results, image, import, temps, checker,
                 manifest, delivered>>

Main == Clean \/ Spawn \/ SpawnedAll \/ FinishBuild \/ Deliver \/ Finish

App(i) ==
  \/ GiveUp(i) \/ FillFromDependencies(i) \/ CleanAci(i) \/ CheckDependencies(i)
  \/ PrepareTarget(i) \/ Lock(i) \/ FindImported(i) \/ StartImport(i) \/ Import(i) \/ FailImport(i)
  \/ PrepareBuilder(i) \/ RunBuilder(i) \/ TarAci(i) \/ ExtractManifest(i)
  \/ CleanupRun(i) \/ ComputeSum(i)

Next == \/ Main
        \/ \E i \in Apps : App(i) \/ \E k \in Checks : EndCheck(<<i, k>>)
        \/ PanicInCheck

Spec == Init /\ [][Next]_vars

\* As long as some goroutine can run, the Go scheduler runs one, and what they
\* run in rkt returns.  Every goroutine only moves forward, so it does not matter
\* which one.
LiveSpec == Spec /\ WF_vars(Next)

----------------------------------------------------------------------------
(* Properties *)

Built(i) == [by |-> i, whole |-> TRUE]

\* The program counters are stages, and the WaitGroup counters, which panic
\* below zero, count goroutines.
TypeOK ==
  /\ mode \in {"parallel", "sequential"}
  /\ main \in {"clean", "spawn", "wait", "deliver", "end"} /\ next \in 1..(NumApps + 1)
  /\ pc \in [Apps -> Stages] /\ failing \in [Apps -> BOOLEAN]
  /\ wg \in 0..NumApps
  /\ apps \in [Apps -> Image] /\ errors \in [Apps -> BOOLEAN]
  /\ image \in [Dirs -> Image]
  /\ mutex \in 0..NumApps /\ imported \in BOOLEAN /\ imports \in Nat
  /\ temps \in SUBSET Apps
  /\ checkWg \in 0..(2 * NumApps) /\ checks \in SUBSET (Apps \X Checks)
  /\ manifest = <<>> \/ manifest \in [Apps -> Image]
  /\ delivered \in SUBSET (Apps \X Image)
  /\ outcome \in {"running", "ok", "error", "fatal", "panic"}

\* Once it is written, the pod manifest lists for each app the complete image
\* that is in the app's directory, built for this app: "a group of aci that
\* will build and run together as a single unit" (README.md:492), whatever the
\* order in which the goroutines end (pod-build.go:50-83, 97).
ManifestMatchesImages ==
  manifest # <<>> =>
    \A i \in Apps : manifest[i] = Built(i) /\ image[AppName[i]] = Built(i)

\* What is installed or pushed was built by this command, and nothing goes out
\* before the last ACI of the pod is built (pod-push.go:12-25).
DeliveredWhenComplete ==
  delivered # {} => /\ \A i \in Apps : apps[i] = Built(i)
                    /\ delivered \subseteq {<<i, Built(i)>> : i \in Apps}

\* The builder is imported once for all goroutines, and before any of them
\* that needs it starts a builder (rkt.go:21-34).
ImportedOnce ==
  /\ imports <= 1
  /\ \A i \in Apps \ OwnBuilder :
       pc[i] \in {"container", "tar", "extract", "cleanup"} => imports = 1

\* logs.Fatal skips every deferred cleanupRun.  The only one a goroutine can
\* meet, in importInternalAci, comes before any goroutine that waits for the
\* import has put something into rkt: what stays belongs to apps with a builder
\* of their own (rkt.go:21-34, 52-65).  A panic may come at any time.
FatalLeavesOnlyOwn == outcome = "fatal" => temps \subseteq OwnBuilder

\* When the command returns, no goroutine of its build is left and none of its
\* images or pods is in rkt; after a success the checks have ended as well
\* (pod-build.go:72, command.go:166).
QuietAtEnd ==
  /\ outcome \in {"ok", "error"} =>
       temps = {} /\ mutex = 0 /\ \A i \in Apps : pc[i] = "done"
  /\ outcome = "ok" => checks = {}

\* Without goroutines: see PodBuild.
Promised == INSTANCE PodBuild
              WITH Delivers  <- Command # "build",
                   built     <- {i \in Apps : apps[i] = Built(i)},
                   broken    <- {i \in Apps : errors[i]},
                   listed    <- {i \in DOMAIN manifest : manifest[i] = Built(i)},
                   delivered <- {d[1] : d \in delivered},
                   result    <- IF outcome \in {"running", "ok"} THEN outcome ELSE "failed"

\* With or without goroutines, the pod command implements its promise: no error
\* of an app is lost, and success means all apps built, listed and delivered
\* (pod-build.go:20-84, pod-install.go:5-27, pod-push.go:9-26).
ImplementsPodBuild == Promised!Spec

\* The command returns: no app keeps the import mutex or its place in a
\* WaitGroup (pod-build.go:57, rkt.go:26, aci.go:148-156).
Terminates == <>(outcome # "running")
============================================================================
