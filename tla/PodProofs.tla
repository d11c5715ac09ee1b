----------------------------- MODULE PodProofs -----------------------------
(***************************************************************************)
(* Theorems about Pod, for any number of apps, with and without            *)
(* --parallel, as long as no two apps have the same name: the invariants,  *)
(* and that the pod command implements PodBuild.                           *)
(***************************************************************************)
EXTENDS Pod, FiniteSetTheorems, TLAPS

\* The goroutines that were started and have not called Done.
Busy == {i \in Apps : pc[i] \notin {"unborn", "done"}}

\* The stages in which the builder image or pod of an app is in rkt, and those
\* only reached after the import.
InRkt    == {"container", "tar", "extract", "cleanup"}
Imported == InRkt \cup {"builder", "sum"}

\* The stages of importInternalAci, under the mutex.
Holding == {"locked", "importing"}

Complete == \A i \in Apps : pc[i] = "done" /\ ~errors[i]

\* Who holds the mutex, and what it guards.
LockInv == /\ \A i \in Apps : pc[i] \in Holding <=> mutex = i
           /\ \A i \in Apps : pc[i] = "importing" => ~imported
           /\ \A i \in Apps \ OwnBuilder : pc[i] \in Imported => imported
           /\ imports = IF imported THEN 1 ELSE 0

\* What an app left in rkt, and the image it built.
AppInv == \A i \in Apps :
  /\ i \in temps <=> pc[i] \in InRkt
  /\ pc[i] # "done" => apps[i] = None /\ ~errors[i]
  /\ pc[i] = "done" /\ errors[i] => apps[i] = None
  /\ pc[i] = "done" /\ ~errors[i] => apps[i] = Built(i)
  /\ \/ pc[i] = "done" /\ ~errors[i]
     \/ pc[i] \in {"extract", "sum"}
     \/ pc[i] = "cleanup" /\ ~failing[i]
     => image[AppName[i]] = Built(i)

\* Which apps the loop of the main goroutine has started.
LoopInv ==
  /\ main = "clean" => next = 1
  /\ main \in {"clean", "spawn"} => \A i \in Apps : pc[i] = "unborn" <=> i >= next
  /\ main \in {"wait", "deliver"} => \A i \in Apps : pc[i] # "unborn"
  /\ main = "end" <=> outcome # "running"

\* The two WaitGroups.
CountInv ==
  /\ wg = Cardinality(Busy)
  /\ checkWg = Cardinality(checks)
  /\ \A c \in checks : pc[c[1]] \notin {"unborn", "deps", "clean", "checks"}

\* What the end of the build established.
EndInv ==
  /\ main = "deliver" => Complete /\ manifest = apps
  /\ manifest # <<>> => Complete /\ manifest = apps
  /\ delivered # {} => Complete /\ manifest = apps
  /\ delivered \subseteq {<<i, Built(i)>> : i \in Apps}
  /\ main = "deliver" /\ Command # "build" =>
       \A i \in Apps : i < next => <<i, Built(i)>> \in delivered
  /\ outcome = "ok" => /\ Complete /\ manifest = apps /\ checks = {}
                       /\ Command # "build" =>
                            \A i \in Apps : <<i, Built(i)>> \in delivered
  /\ outcome = "error" => \A i \in Apps : pc[i] = "done"
  /\ outcome = "fatal" => temps \subseteq OwnBuilder

Inv == TypeOK /\ LockInv /\ AppInv /\ LoopInv /\ CountInv /\ EndInv

\* The apps are finitely many, and so are the running goroutines and checks.
LEMMA Finiteness ==
  /\ IsFiniteSet(Apps) /\ Cardinality(Apps) = NumApps
  /\ \A S \in SUBSET Apps : IsFiniteSet(S) /\ Cardinality(S) \in 0..NumApps
  /\ \A S \in SUBSET (Apps \X Checks) :
       IsFiniteSet(S) /\ Cardinality(S) \in 0..(2 * NumApps)
<1>1. IsFiniteSet(Apps) /\ Cardinality(Apps) = NumApps
  BY FS_Interval, PodAssumption DEF Apps
<1>2. ASSUME NEW S \in SUBSET Apps PROVE IsFiniteSet(S) /\ Cardinality(S) \in 0..NumApps
  <2>1. IsFiniteSet(S) /\ Cardinality(S) <= NumApps
    BY <1>1, FS_Subset
  <2>. QED BY <2>1, FS_CardinalityType, PodAssumption
<1>3. IsFiniteSet(Checks) /\ Cardinality(Checks) = 2
  <2>1. IsFiniteSet({"latest"}) /\ Cardinality({"latest"}) = 1
    BY FS_Singleton
  <2>2. Checks = {"latest"} \cup {"compatibility"} /\ "compatibility" \notin {"latest"}
    BY DEF Checks
  <2>. QED BY <2>1, <2>2, FS_AddElement
<1>4. IsFiniteSet(Apps \X Checks) /\ Cardinality(Apps \X Checks) = NumApps * 2
  BY <1>1, <1>3, FS_Product
<1>5. ASSUME NEW S \in SUBSET (Apps \X Checks)
      PROVE  IsFiniteSet(S) /\ Cardinality(S) \in 0..(2 * NumApps)
  <2>1. IsFiniteSet(S) /\ Cardinality(S) <= NumApps * 2
    BY <1>4, FS_Subset
  <2>. QED BY <2>1, FS_CardinalityType, PodAssumption
<1>. QED BY <1>1, <1>2, <1>5

\* The invariants hold before the command does anything.
LEMMA InitInv == Init => Inv
<1>. SUFFICES ASSUME Init PROVE Inv
  OBVIOUS
<1>1. TypeOK
  <2>1. None \in Image /\ [by |-> 0, whole |-> TRUE] \in Image
    BY PodAssumption DEF None, Image
  <2>2. apps \in [Apps -> Image] /\ image \in [Dirs -> Image]
    BY <2>1 DEF Init
  <2>3. pc \in [Apps -> Stages] /\ next \in 1..(NumApps + 1) /\ wg \in 0..NumApps
    BY PodAssumption DEF Init, Stages
  <2>4. mutex \in 0..NumApps /\ checkWg \in 0..(2 * NumApps)
    BY PodAssumption DEF Init
  <2>. QED BY <2>2, <2>3, <2>4, PodAssumption DEF Init, TypeOK
<1>2. LockInv
  BY PodAssumption DEF Init, LockInv, Imported, InRkt, Holding, Apps
<1>3. AppInv
  BY DEF Init, AppInv, InRkt
<1>4. LoopInv
  BY DEF Init, LoopInv, Apps
<1>5. CountInv
  <2>1. Busy = {}
    BY DEF Init, Busy
  <2>. QED BY <2>1, FS_EmptySet DEF Init, CountInv
<1>6. EndInv
  BY DEF Init, EndInv
<1>. QED BY <1>1, <1>2, <1>3, <1>4, <1>5, <1>6 DEF Inv

(***************************************************************************)
(* The steps of the goroutine of one app.                                  *)
(***************************************************************************)

\* What every step of the goroutine of i leaves alone.
LEMMA Frame ==
  ASSUME Inv, Distinct, NEW i \in Apps, App(i)
  PROVE  /\ Running /\ mode' = mode /\ next' = next
         /\ manifest' = manifest /\ delivered' = delivered
         /\ pc[i] \notin {"unborn", "done"}
         /\ \A j \in Apps \ {i} : pc'[j] = pc[j] /\ failing'[j] = failing[j]
         /\ \A j \in Apps \ {i} : apps'[j] = apps[j] /\ errors'[j] = errors[j]
         /\ \A j \in Apps \ {i} : image'[AppName[j]] = image[AppName[j]]
         /\ \A j \in Apps \ {i} : j \in temps' <=> j \in temps
<1>. USE DEF loop, results, import, checker, output, At, Goto, Store, Fail, Done, Added
<1>1. \A j \in Apps \ {i} : AppName[j] # AppName[i]
  BY DEF Distinct
<1>2. /\ pc \in [Apps -> Stages] /\ failing \in [Apps -> BOOLEAN]
      /\ apps \in [Apps -> Image] /\ errors \in [Apps -> BOOLEAN]
      /\ image \in [Dirs -> Image] /\ \A j \in Apps : AppName[j] \in Dirs
  BY DEF Inv, TypeOK, Dirs
<1>3. CASE GiveUp(i)
  BY <1>2, <1>3 DEF GiveUp
<1>4. CASE FillFromDependencies(i) \/ PrepareTarget(i) \/ CheckDependencies(i)
  BY <1>2, <1>4 DEF FillFromDependencies, PrepareTarget, CheckDependencies
<1>5. CASE CleanAci(i)
  BY <1>1, <1>2, <1>5 DEF CleanAci
<1>6. CASE Lock(i) \/ FindImported(i) \/ StartImport(i) \/ Import(i)
  BY <1>2, <1>6 DEF Lock, FindImported, StartImport, Import
<1>7. CASE FailImport(i)
  BY <1>2, <1>7 DEF FailImport, Fatal
<1>8. CASE PrepareBuilder(i) \/ ExtractManifest(i) \/ ComputeSum(i)
  BY <1>2, <1>8 DEF PrepareBuilder, ExtractManifest, ComputeSum
<1>9. CASE RunBuilder(i) \/ TarAci(i)
  BY <1>1, <1>2, <1>9 DEF RunBuilder, TarAci
<1>10. CASE CleanupRun(i)
  BY <1>2, <1>10 DEF CleanupRun
<1>. QED BY <1>3, <1>4, <1>5, <1>6, <1>7, <1>8, <1>9, <1>10 DEF App

\* Nothing was listed, delivered or declared a success while an app was busy.
LEMMA NotComplete ==
  ASSUME Inv, NEW i \in Apps, pc[i] # "done"
  PROVE  main # "deliver" /\ manifest = <<>> /\ delivered = {} /\ outcome \notin {"ok", "error"}
  BY DEF Inv, EndInv, Complete

\* The mutex has one holder, and the builder is imported under it.
LEMMA AppLock ==
  ASSUME Inv, Distinct, NEW i \in Apps, App(i)
  PROVE  LockInv'
<1>. USE DEF import, At, Goto, Unlock
<1>1. pc \in [Apps -> Stages] /\ i # 0 /\ LockInv
  BY DEF Inv, TypeOK, Apps
<1>2. /\ \A j \in Apps \ {i} : pc'[j] = pc[j]
      /\ pc[i] \notin {"unborn", "done"}
  BY Frame
<1>3. CASE Lock(i)
  <2>1. mutex = 0 /\ mutex' = i /\ pc'[i] = "locked" /\ imported' = imported /\ imports' = imports
    BY <1>1, <1>3 DEF Lock, LockFree
  <2>2. \A j \in Apps : pc[j] \notin Holding
    BY <1>1, <2>1 DEF LockInv, Apps
  <2>. QED BY <1>1, <1>2, <2>1, <2>2 DEF LockInv, Imported, InRkt, Holding
<1>4. CASE FindImported(i) \/ Import(i)
  <2>1. pc[i] \in Holding
    BY <1>4 DEF FindImported, Import, Holding
  <2>2. /\ mutex = i /\ mutex' = 0 /\ pc'[i] = "builder" /\ imported' = TRUE
        /\ \/ imported /\ imports' = imports
           \/ ~imported /\ imports' = imports + 1
    BY <1>1, <1>4, <2>1 DEF FindImported, Import, LockInv
  <2>3. \A j \in Apps \ {i} : pc[j] \notin Holding
    BY <1>1, <2>2 DEF LockInv
  <2>4. \A j \in Apps : j # 0
    BY DEF Apps
  <2>5. imports' = 1
    BY <1>1, <2>2 DEF LockInv
  <2>. QED BY <1>2, <2>2, <2>3, <2>4, <2>5 DEF LockInv, Holding
<1>5. CASE StartImport(i)
  <2>1. /\ pc[i] = "locked" /\ pc'[i] = "importing" /\ ~imported
        /\ mutex' = mutex /\ imported' = imported /\ imports' = imports
    BY <1>1, <1>5 DEF StartImport
  <2>. QED BY <1>1, <1>2, <2>1 DEF LockInv, Imported, InRkt, Holding
<1>6. CASE FailImport(i)
  BY <1>1, <1>6 DEF FailImport, Fatal, LockInv
<1>7. CASE ~(Lock(i) \/ FindImported(i) \/ StartImport(i) \/ Import(i) \/ FailImport(i))
  <2>1. /\ mutex' = mutex /\ imported' = imported /\ imports' = imports
        /\ pc[i] \notin Holding /\ pc'[i] \notin Holding
        /\ i \notin OwnBuilder /\ pc'[i] \in Imported => pc[i] \in Imported
    <3>1. GiveUp(i) => pc[i] \notin Holding /\ pc'[i] = "done" /\ UNCHANGED import
      BY <1>1 DEF GiveUp, Fail, Store, Holding
    <3>2. CleanupRun(i) => /\ pc[i] \in Imported /\ pc'[i] \in {"done", "sum"}
                           /\ pc[i] \notin Holding /\ UNCHANGED import
      BY <1>1 DEF CleanupRun, Fail, Store, Imported, InRkt, Holding
    <3>3. ComputeSum(i) => pc[i] \notin Holding /\ pc'[i] = "done" /\ UNCHANGED import
      BY <1>1 DEF ComputeSum, Store, Holding
    <3>4. FillFromDependencies(i) \/ CleanAci(i) \/ CheckDependencies(i)
            => /\ pc[i] \notin Holding /\ pc'[i] \in {"clean", "checks", "target"}
               /\ UNCHANGED import
      BY <1>1 DEF FillFromDependencies, CleanAci, CheckDependencies, Holding
    <3>5. PrepareTarget(i) => /\ pc[i] \notin Holding
                              /\ pc'[i] = IF i \in OwnBuilder THEN "builder" ELSE "import"
                              /\ UNCHANGED import
      BY <1>1 DEF PrepareTarget, Holding
    <3>6. PrepareBuilder(i) \/ RunBuilder(i) \/ TarAci(i) \/ ExtractManifest(i)
            => /\ pc[i] \in Imported /\ pc[i] \notin Holding
               /\ pc'[i] \in {"container", "tar", "extract", "cleanup"} /\ UNCHANGED import
      BY <1>1 DEF PrepareBuilder, RunBuilder, TarAci, ExtractManifest, Imported, InRkt, Holding
    <3>. QED BY <1>7, <3>1, <3>2, <3>3, <3>4, <3>5, <3>6 DEF App, Imported, InRkt, Holding
  <2>. QED BY <1>1, <1>2, <2>1 DEF LockInv, Holding
<1>. QED BY <1>3, <1>4, <1>5, <1>6, <1>7

\* A goroutine changes its own image, its own place in rkt and its own result.
LEMMA AppApp ==
  ASSUME Inv, Distinct, NEW i \in Apps, App(i)
  PROVE  AppInv'
<1>. USE DEF results, At, Goto, Store, Fail
<1>1. /\ pc \in [Apps -> Stages] /\ failing \in [Apps -> BOOLEAN]
      /\ apps \in [Apps -> Image] /\ errors \in [Apps -> BOOLEAN]
      /\ image \in [Dirs -> Image] /\ AppName[i] \in Dirs /\ AppInv
  BY DEF Inv, TypeOK, Dirs
<1> DEFINE Own(j) ==
  /\ j \in temps <=> pc[j] \in InRkt
  /\ pc[j] # "done" => apps[j] = None /\ ~errors[j]
  /\ pc[j] = "done" /\ errors[j] => apps[j] = None
  /\ pc[j] = "done" /\ ~errors[j] => apps[j] = Built(j)
  /\ \/ pc[j] = "done" /\ ~errors[j]
     \/ pc[j] \in {"extract", "sum"}
     \/ pc[j] = "cleanup" /\ ~failing[j]
     => image[AppName[j]] = Built(j)
<1>2. \A j \in Apps \ {i} : Own(j)'
  <2>. SUFFICES ASSUME NEW j \in Apps \ {i} PROVE Own(j)'
    OBVIOUS
  <2>1. /\ pc'[j] = pc[j] /\ failing'[j] = failing[j] /\ apps'[j] = apps[j]
        /\ errors'[j] = errors[j] /\ image'[AppName[j]] = image[AppName[j]]
        /\ j \in temps' <=> j \in temps
    BY Frame
  <2>2. Own(j)
    BY <1>1 DEF AppInv
  <2>. QED BY <2>1, <2>2 DEF Built
<1>3. Own(i)
  BY <1>1 DEF AppInv
<1>4. Own(i)'
  <2>1. CASE GiveUp(i)
    BY <1>1, <1>3, <2>1 DEF GiveUp, InRkt
  <2>2. CASE FillFromDependencies(i) \/ PrepareTarget(i) \/ CheckDependencies(i)
    BY <1>1, <1>3, <2>2 DEF FillFromDependencies, PrepareTarget, CheckDependencies, InRkt
  <2>3. CASE CleanAci(i)
    BY <1>1, <1>3, <2>3 DEF CleanAci, InRkt
  <2>4. CASE Lock(i) \/ FindImported(i) \/ StartImport(i) \/ Import(i)
    BY <1>1, <1>3, <2>4 DEF Lock, FindImported, StartImport, Import, InRkt
  <2>5. CASE FailImport(i)
    BY <1>1, <1>3, <2>5 DEF FailImport, Fatal, InRkt
  <2>6. CASE PrepareBuilder(i) \/ ExtractManifest(i)
    BY <1>1, <1>3, <2>6 DEF PrepareBuilder, ExtractManifest, InRkt, Built
  <2>7. CASE RunBuilder(i) \/ TarAci(i)
    BY <1>1, <1>3, <2>7 DEF RunBuilder, TarAci, InRkt, Built
  <2>8. CASE CleanupRun(i)
    BY <1>1, <1>3, <2>8 DEF CleanupRun, InRkt, Built
  <2>9. CASE ComputeSum(i)
    BY <1>1, <1>3, <2>9 DEF ComputeSum, InRkt, Built
  <2>. QED BY <2>1, <2>2, <2>3, <2>4, <2>5, <2>6, <2>7, <2>8, <2>9 DEF App
<1>. QED BY <1>2, <1>4 DEF AppInv

\* The loop of the main goroutine does not move; only a fatal import ends it.
LEMMA AppLoop ==
  ASSUME Inv, Distinct, NEW i \in Apps, App(i)
  PROVE  LoopInv'
<1>. USE DEF loop, output, results, At, Goto, Store, Fail, Done
<1>1. pc \in [Apps -> Stages] /\ LoopInv
  BY DEF Inv, TypeOK
<1>2. /\ Running /\ next' = next /\ pc[i] # "unborn"
      /\ \A j \in Apps \ {i} : pc'[j] = pc[j]
  BY Frame
<1>3. pc'[i] # "unborn"
  <2>1. CASE GiveUp(i) BY <1>1, <2>1 DEF GiveUp
  <2>2. CASE FillFromDependencies(i) \/ PrepareTarget(i) \/ CheckDependencies(i) \/ CleanAci(i)
    BY <1>1, <2>2 DEF FillFromDependencies, PrepareTarget, CheckDependencies, CleanAci
  <2>3. CASE Lock(i) \/ FindImported(i) \/ StartImport(i) \/ Import(i)
    BY <1>1, <2>3 DEF Lock, FindImported, StartImport, Import
  <2>4. CASE FailImport(i) BY <1>1, <2>4 DEF FailImport, Fatal
  <2>5. CASE PrepareBuilder(i) \/ RunBuilder(i) \/ TarAci(i) \/ ExtractManifest(i)
    BY <1>1, <2>5 DEF PrepareBuilder, RunBuilder, TarAci, ExtractManifest
  <2>6. CASE CleanupRun(i) \/ ComputeSum(i)
    BY <1>1, <2>6 DEF CleanupRun, ComputeSum
  <2>. QED BY <2>1, <2>2, <2>3, <2>4, <2>5, <2>6 DEF App
<1>4. \/ main' = main /\ outcome' = outcome
      \/ main' = "end" /\ outcome' = "fatal"
  BY DEF App, GiveUp, FillFromDependencies, PrepareTarget, CheckDependencies, CleanAci,
         Lock, FindImported, StartImport, Import, FailImport, Fatal, End, PrepareBuilder, RunBuilder,
         TarAci, ExtractManifest, CleanupRun, ComputeSum
<1>. QED BY <1>1, <1>2, <1>3, <1>4 DEF LoopInv

\* The goroutine leaves the WaitGroup when it is done; its checks join theirs.
LEMMA AppCount ==
  ASSUME Inv, Distinct, NEW i \in Apps, App(i)
  PROVE  CountInv'
<1>. USE DEF checker, At, Goto, Store, Fail, Done
<1>1. /\ pc \in [Apps -> Stages] /\ checks \in SUBSET (Apps \X Checks) /\ CountInv
      /\ IsFiniteSet(Busy) /\ IsFiniteSet(checks) /\ Busy \in SUBSET Apps
  BY Finiteness DEF Inv, TypeOK, Busy
<1>2. /\ pc[i] \notin {"unborn", "done"} /\ i \in Busy
      /\ \A j \in Apps \ {i} : pc'[j] = pc[j]
  BY Frame DEF Busy
<1>3. wg' = Cardinality(Busy')
  <2>1. \/ pc'[i] = "done" /\ wg' = wg - 1
        \/ pc'[i] \notin {"unborn", "done"} /\ wg' = wg
    <3>1. CASE GiveUp(i) BY <1>1, <3>1 DEF GiveUp
    <3>2. CASE FillFromDependencies(i) \/ PrepareTarget(i) \/ CheckDependencies(i) \/ CleanAci(i)
      BY <1>1, <3>2 DEF FillFromDependencies, PrepareTarget, CheckDependencies, CleanAci
    <3>3. CASE Lock(i) \/ FindImported(i) \/ StartImport(i) \/ Import(i)
      BY <1>1, <3>3 DEF Lock, FindImported, StartImport, Import
    <3>4. CASE FailImport(i) BY <1>1, <3>4 DEF FailImport, Fatal
    <3>5. CASE PrepareBuilder(i) \/ RunBuilder(i) \/ TarAci(i) \/ ExtractManifest(i)
      BY <1>1, <3>5 DEF PrepareBuilder, RunBuilder, TarAci, ExtractManifest
    <3>6. CASE CleanupRun(i) \/ ComputeSum(i)
      BY <1>1, <3>6 DEF CleanupRun, ComputeSum
    <3>. QED BY <3>1, <3>2, <3>3, <3>4, <3>5, <3>6 DEF App
  <2>2. CASE pc'[i] = "done" /\ wg' = wg - 1
    <3>1. Busy' = Busy \ {i}
      BY <1>2, <2>2 DEF Busy
    <3>. QED BY <1>1, <1>2, <2>2, <3>1, FS_RemoveElement DEF CountInv
  <2>3. CASE pc'[i] \notin {"unborn", "done"} /\ wg' = wg
    <3>1. Busy' = Busy
      BY <1>2, <2>3 DEF Busy
    <3>. QED BY <1>1, <2>3, <3>1 DEF CountInv
  <2>. QED BY <2>1, <2>2, <2>3
<1>4. /\ checkWg' = Cardinality(checks')
      /\ \A c \in checks' : pc'[c[1]] \notin {"unborn", "deps", "clean", "checks"}
  <2>1. CASE CheckDependencies(i) /\ Parallel
    <3> DEFINE a == <<i, "compatibility">>
               b == <<i, "latest">>
    <3>1. checks' = (checks \cup {a}) \cup {b} /\ checkWg' = checkWg + 2
      BY <2>1 DEF CheckDependencies, Added, Checks
    <3>2. a \notin checks /\ b \notin checks \cup {a}
      BY <1>1, <2>1 DEF CheckDependencies, CountInv
    <3>3. Cardinality(checks \cup {a}) = checkWg + 1 /\ IsFiniteSet(checks \cup {a})
      BY <1>1, <3>2, FS_AddElement DEF CountInv
    <3>4. Cardinality(checks') = checkWg + 1 + 1
      BY <3>1, <3>2, <3>3, FS_AddElement
    <3>5. checkWg \in Nat
      BY DEF Inv, TypeOK
    <3>6. pc'[i] = "target"
      BY <1>1, <2>1 DEF CheckDependencies
    <3>. QED BY <1>1, <1>2, <3>1, <3>4, <3>5, <3>6 DEF CountInv
  <2>2. CASE ~(CheckDependencies(i) /\ Parallel)
    <3>1. checks' = checks /\ checkWg' = checkWg
      BY <2>2 DEF App, GiveUp, FillFromDependencies, PrepareTarget, CheckDependencies,
         CleanAci, Lock, FindImported, StartImport, Import, FailImport, Fatal, PrepareBuilder,
         RunBuilder, TarAci, ExtractManifest, CleanupRun, ComputeSum
    <3>2. \/ pc[i] \in {"deps", "clean", "checks"}
          \/ pc'[i] \notin {"unborn", "deps", "clean", "checks"}
      <4>1. CASE GiveUp(i) BY <1>1, <4>1 DEF GiveUp
      <4>2. CASE FillFromDependencies(i) \/ PrepareTarget(i) \/ CheckDependencies(i) \/ CleanAci(i)
        BY <1>1, <4>2 DEF FillFromDependencies, PrepareTarget, CheckDependencies, CleanAci
      <4>3. CASE Lock(i) \/ FindImported(i) \/ StartImport(i) \/ Import(i)
        BY <1>1, <4>3 DEF Lock, FindImported, StartImport, Import
      <4>4. CASE FailImport(i) BY <1>1, <4>4 DEF FailImport, Fatal
      <4>5. CASE PrepareBuilder(i) \/ RunBuilder(i) \/ TarAci(i) \/ ExtractManifest(i)
        BY <1>1, <4>5 DEF PrepareBuilder, RunBuilder, TarAci, ExtractManifest
      <4>6. CASE CleanupRun(i) \/ ComputeSum(i)
        BY <1>1, <4>6 DEF CleanupRun, ComputeSum
      <4>. QED BY <4>1, <4>2, <4>3, <4>4, <4>5, <4>6 DEF App
    <3>. QED BY <1>1, <1>2, <3>1, <3>2 DEF CountInv
  <2>. QED BY <2>1, <2>2
<1>. QED BY <1>3, <1>4 DEF CountInv

\* Nothing is listed, delivered or finished while an app is busy; a failing
\* import finds nothing in rkt that waited for the import.
LEMMA AppEnd ==
  ASSUME Inv, Distinct, NEW i \in Apps, App(i)
  PROVE  EndInv'
<1>1. /\ Running /\ manifest' = <<>> /\ delivered' = {} /\ main # "deliver"
  BY Frame, NotComplete
<1>2. CASE FailImport(i)
  <2>1. outcome' = "fatal" /\ main' = "end" /\ temps' = temps
    BY <1>2 DEF FailImport, Fatal, End
  <2>2. temps \subseteq OwnBuilder
    <3>1. ~imported
      BY <1>2 DEF FailImport, At, Inv, LockInv
    <3>2. temps \in SUBSET Apps /\ \A j \in Apps : j \in temps => pc[j] \in Imported
      BY DEF Inv, TypeOK, AppInv, Imported
    <3>. QED BY <3>1, <3>2 DEF Inv, LockInv
  <2>. QED BY <1>1, <2>1, <2>2 DEF EndInv
<1>3. CASE ~FailImport(i)
  <2>1. outcome' = outcome /\ main' = main
    BY <1>3 DEF App, GiveUp, FillFromDependencies, PrepareTarget, CheckDependencies,
       CleanAci, Lock, FindImported, StartImport, Import, PrepareBuilder, RunBuilder, TarAci,
       ExtractManifest, CleanupRun, ComputeSum, loop, output
  <2>. QED BY <1>1, <2>1 DEF EndInv, Running
<1>. QED BY <1>2, <1>3

\* The steps of an app keep the types.
LEMMA AppType ==
  ASSUME Inv, Distinct, NEW i \in Apps, App(i)
  PROVE  TypeOK'
<1>. USE DEF loop, results, import, checker, output, At, Goto, Store, Fail, End
<1>1. TypeOK
  BY DEF Inv
<1>2. None \in Image /\ \A w \in BOOLEAN : [by |-> i, whole |-> w] \in Image
  BY PodAssumption DEF None, Image, Apps
<1>3. AppName[i] \in Dirs
  BY DEF Dirs
<1>4. \A stage \in Stages : [pc EXCEPT ![i] = stage] \in [Apps -> Stages]
  BY <1>1 DEF TypeOK
<1>5. /\ checks' \in SUBSET (Apps \X Checks)
      /\ pc' \in [Apps -> Stages] /\ failing' \in [Apps -> BOOLEAN]
      /\ apps' \in [Apps -> Image] /\ errors' \in [Apps -> BOOLEAN]
      /\ image' \in [Dirs -> Image] /\ mutex' \in 0..NumApps /\ imported' \in BOOLEAN
      /\ temps' \in SUBSET Apps
      /\ main' \in {"clean", "spawn", "wait", "deliver", "end"}
      /\ outcome' \in {"running", "ok", "error", "fatal", "panic"}
  <2>1. CASE GiveUp(i)
    BY <1>1, <1>2, <1>4, <2>1 DEF GiveUp, TypeOK, Stages
  <2>2. CASE FillFromDependencies(i) \/ PrepareTarget(i)
    BY <1>1, <1>4, <2>2 DEF FillFromDependencies, PrepareTarget, TypeOK, Stages
  <2>3. CASE CheckDependencies(i)
    BY <1>1, <1>4, <2>3 DEF CheckDependencies, TypeOK, Stages
  <2>4. CASE CleanAci(i)
    BY <1>1, <1>2, <1>3, <1>4, <2>4 DEF CleanAci, TypeOK, Stages
  <2>5. CASE Lock(i) \/ FindImported(i) \/ StartImport(i) \/ Import(i)
    <3>1. mutex' \in 0..NumApps
      BY <1>1, <2>5, PodAssumption DEF Lock, FindImported, StartImport, Import, Unlock, Apps,
         TypeOK
    <3>2. imported' \in BOOLEAN
      BY <1>1, <2>5 DEF Lock, FindImported, StartImport, Import, TypeOK
    <3>3. \E stage \in Stages : pc' = [pc EXCEPT ![i] = stage]
      BY <2>5 DEF Lock, FindImported, StartImport, Import, Stages
    <3>4. UNCHANGED <<main, failing, results, image, temps, checks, outcome>>
      BY <2>5 DEF Lock, FindImported, StartImport, Import
    <3>. QED BY <1>1, <1>4, <3>1, <3>2, <3>3, <3>4 DEF TypeOK
  <2>6. CASE FailImport(i)
    BY <1>1, <2>6 DEF FailImport, Fatal, TypeOK
  <2>7. CASE PrepareBuilder(i) \/ ExtractManifest(i)
    BY <1>1, <1>4, <2>7 DEF PrepareBuilder, ExtractManifest, TypeOK, Stages
  <2>8. CASE RunBuilder(i) \/ TarAci(i)
    <3>1. image' \in [Dirs -> Image]
      BY <1>1, <1>2, <1>3, <2>8 DEF RunBuilder, TarAci, TypeOK
    <3>2. failing' \in [Apps -> BOOLEAN]
      BY <1>1, <2>8 DEF RunBuilder, TarAci, TypeOK
    <3>3. \E stage \in Stages : pc' = [pc EXCEPT ![i] = stage]
      BY <2>8 DEF RunBuilder, TarAci, Stages
    <3>4. UNCHANGED <<main, results, mutex, imported, temps, checks, outcome>>
      BY <2>8 DEF RunBuilder, TarAci
    <3>. QED BY <1>1, <1>4, <3>1, <3>2, <3>3, <3>4 DEF TypeOK
  <2>9. CASE CleanupRun(i)
    <3>1. apps' \in [Apps -> Image] /\ errors' \in [Apps -> BOOLEAN]
      BY <1>1, <1>2, <2>9 DEF CleanupRun, TypeOK
    <3>2. \E stage \in Stages : pc' = [pc EXCEPT ![i] = stage]
      BY <2>9 DEF CleanupRun, Stages
    <3>3. temps' \in SUBSET Apps
      BY <1>1, <2>9 DEF CleanupRun, TypeOK
    <3>4. UNCHANGED <<main, failing, image, mutex, imported, checks, outcome>>
      BY <2>9 DEF CleanupRun
    <3>. QED BY <1>1, <1>4, <3>1, <3>2, <3>3, <3>4 DEF TypeOK
  <2>10. CASE ComputeSum(i)
    BY <1>1, <1>3, <1>4, <2>10 DEF ComputeSum, TypeOK, Stages
  <2>. QED
    BY <2>1, <2>2, <2>3, <2>4, <2>5, <2>6, <2>7, <2>8, <2>9, <2>10 DEF App
<1>6. wg' \in 0..NumApps /\ checkWg' \in 0..(2 * NumApps)
  BY <1>5, AppCount, Finiteness DEF CountInv, Busy
<1>7. imports' \in Nat
  BY AppLock DEF LockInv
<1>8. mode' = mode /\ next' = next /\ manifest' = manifest /\ delivered' = delivered
  BY Frame
<1>. QED BY <1>1, <1>5, <1>6, <1>7, <1>8 DEF TypeOK

\* Every step of an app preserves the invariants.
LEMMA AppInvariant ==
  ASSUME Inv, Distinct, NEW i \in Apps, App(i)
  PROVE  Inv'
  BY AppType, AppLock, AppApp, AppLoop, AppCount, AppEnd DEF Inv

(***************************************************************************)
(* The steps of the main goroutine and of the checks.                      *)
(***************************************************************************)

\* Once nobody is busy and everyone was started, every app is done.
LEMMA WaitLemma ==
  ASSUME Inv, wg = 0, main = "wait"
  PROVE  \A i \in Apps : pc[i] = "done"
<1>1. IsFiniteSet(Busy) /\ Cardinality(Busy) = 0
  BY Finiteness DEF Inv, CountInv, Busy
<1>2. Busy = {}
  BY <1>1, FS_EmptySet
<1>. QED BY <1>2 DEF Busy, Inv, LoopInv

\* Every step of the main goroutine preserves the invariants.
LEMMA MainInvariant ==
  ASSUME Inv, Distinct, Main
  PROVE  Inv'
<1>. USE DEF loop, results, import, checker, output, End
<1>1. TypeOK /\ LockInv /\ AppInv /\ LoopInv /\ CountInv /\ EndInv
  BY DEF Inv
<1>2. CASE Clean
  <2>1. /\ main = "clean" /\ main' = "spawn" /\ Running /\ next' = next /\ pc' = pc
        /\ UNCHANGED <<mode, failing, wg, results, import, temps, checker, output>>
    BY <1>2 DEF Clean
  <2>2. \A i \in Apps : pc[i] = "unborn"
    BY <1>1, <2>1, PodAssumption DEF LoopInv, TypeOK, Apps
  <2>3. TypeOK'
    <3>1. None \in Image
      BY PodAssumption DEF None, Image
    <3>2. image' \in [Dirs -> Image]
      BY <1>1, <1>2, <3>1 DEF Clean, TypeOK
    <3>. QED BY <1>1, <2>1, <3>2 DEF TypeOK
  <2>4. LockInv' /\ CountInv'
    BY <1>1, <2>1 DEF LockInv, CountInv, Busy
  <2>5. AppInv'
    BY <1>1, <2>1, <2>2 DEF AppInv
  <2>6. LoopInv' /\ EndInv'
    BY <1>1, <2>1 DEF LoopInv, EndInv, Running, Complete
  <2>. QED BY <2>3, <2>4, <2>5, <2>6 DEF Inv
<1>3. CASE Spawn
  <2>1. /\ main = "spawn" /\ main' = main /\ Running /\ next \in Apps /\ next' = next + 1
        /\ pc' = [pc EXCEPT ![next] = "deps"] /\ wg' = wg + 1
        /\ UNCHANGED <<mode, failing, results, image, import, temps, checker, output>>
    BY <1>3 DEF Spawn
  <2>2. /\ pc[next] = "unborn" /\ pc'[next] = "deps"
        /\ \A j \in Apps \ {next} : pc'[j] = pc[j]
        /\ pc' \in [Apps -> Stages]
    BY <1>1, <2>1 DEF LoopInv, TypeOK, Apps, Stages
  <2>3. CountInv'
    <3>1. Busy' = Busy \cup {next} /\ next \notin Busy /\ IsFiniteSet(Busy)
      BY <2>1, <2>2, Finiteness DEF Busy
    <3>. QED BY <1>1, <2>1, <2>2, <3>1, FS_AddElement DEF CountInv, TypeOK
  <2>4. LockInv' /\ AppInv'
    BY <1>1, <2>1, <2>2 DEF LockInv, AppInv, Imported, InRkt, Holding, Built
  <2>5. LoopInv'
    BY <1>1, <2>1, <2>2, PodAssumption DEF LoopInv, TypeOK, Apps
  <2>6. EndInv'
    BY <1>1, <2>1, <2>2 DEF EndInv, Running, Complete
  <2>7. TypeOK'
    <3>1. wg' \in 0..NumApps
      BY <2>1, <2>3, Finiteness DEF CountInv, Busy
    <3>2. next' \in 1..(NumApps + 1)
      BY <2>1, PodAssumption DEF Apps
    <3>. QED BY <1>1, <2>1, <2>2, <3>1, <3>2 DEF TypeOK
  <2>. QED BY <2>3, <2>4, <2>5, <2>6, <2>7 DEF Inv
<1>4. CASE SpawnedAll
  <2>1. /\ main = "spawn" /\ main' = "wait" /\ Running /\ next = NumApps + 1
        /\ UNCHANGED <<mode, next, pc, failing, wg, results, image, import, temps, checker, output>>
    BY <1>4 DEF SpawnedAll
  <2>2. \A i \in Apps : pc[i] # "unborn"
    BY <1>1, <2>1, PodAssumption DEF LoopInv, Apps
  <2>3. TypeOK' /\ LockInv' /\ AppInv' /\ CountInv'
    BY <1>1, <2>1 DEF TypeOK, LockInv, AppInv, CountInv, Busy, Built
  <2>4. LoopInv' /\ EndInv'
    BY <1>1, <2>1, <2>2 DEF LoopInv, EndInv, Running, Complete
  <2>. QED BY <2>3, <2>4 DEF Inv
<1>5. CASE FinishBuild
  <2>1. /\ main = "wait" /\ Running /\ wg = 0 /\ next' = 1
        /\ UNCHANGED <<mode, pc, failing, wg, results, image, import, temps, checker, delivered>>
        /\ \/ main' = "end" /\ outcome' = "error" /\ manifest' = manifest
           \/ /\ \A i \in Apps : ~errors[i]
              /\ manifest' = apps /\ main' = "deliver" /\ outcome' = outcome
    BY <1>5 DEF FinishBuild, AllDone
  <2>2. \A i \in Apps : pc[i] = "done"
    BY <2>1, WaitLemma
  <2>3. TypeOK'
    BY <1>1, <2>1, PodAssumption DEF TypeOK
  <2>4. LockInv' /\ AppInv' /\ CountInv'
    BY <1>1, <2>1 DEF LockInv, AppInv, CountInv, Busy, Built
  <2>5. LoopInv'
    BY <1>1, <2>1, <2>2 DEF LoopInv, Running
  <2>6. EndInv'
    <3>1. \A i \in Apps : ~(i < 1)
      BY DEF Apps
    <3>2. delivered \subseteq {<<i, Built(i)>> : i \in Apps}
      BY <1>1 DEF EndInv
    <3>3. CASE main' = "end" /\ outcome' = "error" /\ manifest' = manifest
      BY <1>1, <2>1, <2>2, <3>3 DEF EndInv, Complete, Built
    <3>4. CASE /\ \A i \in Apps : ~errors[i]
               /\ manifest' = apps /\ main' = "deliver" /\ outcome' = outcome
      BY <1>1, <2>1, <2>2, <3>1, <3>2, <3>4 DEF EndInv, Complete, Built, Running
    <3>. QED BY <2>1, <3>3, <3>4
  <2>. QED BY <2>3, <2>4, <2>5, <2>6 DEF Inv
<1>6. CASE Deliver
  <2>1. /\ main = "deliver" /\ Running /\ Command # "build" /\ next \in Apps
        /\ UNCHANGED <<mode, pc, failing, wg, results, image, import, temps, checker, manifest>>
        /\ \/ /\ delivered' = delivered \cup {<<next, image[AppName[next]]>>}
              /\ next' = next + 1 /\ main' = main /\ outcome' = outcome
           \/ main' = "end" /\ outcome' = "error" /\ next' = next /\ delivered' = delivered
    BY <1>6 DEF Deliver
  <2>2. /\ Complete /\ manifest = apps
        /\ image[AppName[next]] = Built(next) /\ Built(next) \in Image
    BY <1>1, <2>1, PodAssumption DEF EndInv, Complete, AppInv, Built, Image, Apps
  <2>3. TypeOK'
    <3>1. next' \in 1..(NumApps + 1)
      BY <1>1, <2>1, PodAssumption DEF Apps, TypeOK
    <3>2. delivered' \in SUBSET (Apps \X Image)
      BY <1>1, <2>1, <2>2 DEF TypeOK
    <3>. QED BY <1>1, <2>1, <3>1, <3>2 DEF TypeOK
  <2>4. LockInv' /\ AppInv' /\ CountInv'
    BY <1>1, <2>1 DEF LockInv, AppInv, CountInv, Busy, Built
  <2>5. LoopInv'
    BY <1>1, <2>1, <2>2 DEF LoopInv, Running
  <2>6. EndInv'
    <3>1. \A i \in Apps : i < next + 1 => i < next \/ i = next
      BY <2>1 DEF Apps
    <3>. QED BY <1>1, <2>1, <2>2, <3>1 DEF EndInv, Complete, Built, Running
  <2>. QED BY <2>3, <2>4, <2>5, <2>6 DEF Inv
<1>7. CASE Finish
  <2>1. /\ main = "deliver" /\ Running /\ main' = "end" /\ outcome' = "ok"
        /\ Command = "build" \/ next = NumApps + 1
        /\ checkWg = 0
        /\ UNCHANGED <<mode, next, pc, failing, wg, results, image, import, temps, checker,
                       manifest, delivered>>
    BY <1>7 DEF Finish
  <2>2. checks = {}
    BY <1>1, <2>1, Finiteness, FS_EmptySet DEF CountInv, TypeOK
  <2>3. TypeOK' /\ LockInv' /\ AppInv' /\ CountInv'
    BY <1>1, <2>1 DEF TypeOK, LockInv, AppInv, CountInv, Busy, Built
  <2>4. LoopInv' /\ EndInv'
    <3>1. \A i \in Apps : i < NumApps + 1
      BY PodAssumption DEF Apps
    <3>. QED BY <1>1, <2>1, <2>2, <3>1 DEF LoopInv, EndInv, Complete, Built
  <2>. QED BY <2>3, <2>4 DEF Inv
<1>. QED BY <1>2, <1>3, <1>4, <1>5, <1>6, <1>7 DEF Main

\* The end of a check of dependencies preserves the invariants.
LEMMA CheckInvariant ==
  ASSUME Inv, NEW c, EndCheck(c)
  PROVE  Inv'
<1>. USE DEF loop, results, import, checker, output
<1>1. /\ c \in checks /\ checks' = checks \ {c} /\ checkWg' = checkWg - 1 /\ Running
      /\ UNCHANGED <<mode, main, next, pc, failing, wg, results, image, import, temps, output>>
  BY DEF EndCheck
<1>2. CountInv'
  <2>1. IsFiniteSet(checks)
    BY Finiteness DEF Inv, TypeOK
  <2>. QED BY <1>1, <2>1, FS_RemoveElement DEF Inv, CountInv, Busy
<1>3. TypeOK'
  <2>1. checks' \in SUBSET (Apps \X Checks)
    BY <1>1 DEF Inv, TypeOK
  <2>2. checkWg' \in 0..(2 * NumApps)
    BY <1>2, <2>1, Finiteness DEF CountInv
  <2>. QED BY <1>1, <2>1, <2>2 DEF Inv, TypeOK
<1>4. LockInv' /\ AppInv' /\ LoopInv' /\ EndInv'
  BY <1>1 DEF Inv, LockInv, AppInv, LoopInv, EndInv, Complete, Built, Running
<1>. QED BY <1>2, <1>3, <1>4 DEF Inv

\* A panic ends the process where it is.
LEMMA PanicInvariant ==
  ASSUME Inv, PanicInCheck
  PROVE  Inv'
<1>. USE DEF loop, results, import, checker, output
<1>1. /\ Running /\ main' = "end" /\ outcome' = "panic"
      /\ UNCHANGED <<mode, next, pc, failing, wg, results, image, import, temps, checker,
                     manifest, delivered>>
  BY DEF PanicInCheck, End
<1>2. TypeOK' BY <1>1 DEF Inv, TypeOK
<1>3. LockInv' /\ AppInv' /\ CountInv'
  BY <1>1 DEF Inv, LockInv, AppInv, CountInv, Busy, Built
<1>4. LoopInv' BY <1>1 DEF Inv, LoopInv
<1>5. EndInv' BY <1>1 DEF Inv, EndInv, Complete, Built
<1>. QED BY <1>2, <1>3, <1>4, <1>5 DEF Inv

(***************************************************************************)
(* The theorems.                                                           *)
(***************************************************************************)

\* Every step preserves the invariants.
LEMMA NextInvariant ==
  ASSUME Inv, Distinct, [Next]_vars
  PROVE  Inv'
<1>1. CASE Main BY <1>1, MainInvariant
<1>2. CASE \E i \in Apps : App(i) BY <1>2, AppInvariant
<1>3. CASE \E i \in Apps : \E k \in Checks : EndCheck(<<i, k>>)
  BY <1>3, CheckInvariant
<1>4. CASE UNCHANGED vars
  BY <1>4 DEF vars, loop, results, import, checker, output, Inv, TypeOK, LockInv, AppInv,
     LoopInv, CountInv, EndInv, Busy, Complete, Built
<1>5. CASE PanicInCheck BY <1>5, PanicInvariant
<1>. QED BY <1>1, <1>2, <1>3, <1>4, <1>5 DEF Next

\* The inductive invariant holds in every reachable state when the apps have
\* different names.
THEOREM PodInvCorrect ==
  ASSUME Distinct
  PROVE  Spec => []Inv
<1>1. Init => Inv
  BY InitInv
<1>2. Inv /\ [Next]_vars => Inv'
  BY NextInvariant
<1>. QED BY <1>1, <1>2, PTL DEF Spec

\* The types hold, and with them the WaitGroup counters, which count
\* goroutines and never go below zero.
THEOREM TypeCorrect ==
  ASSUME Distinct
  PROVE  Spec => []TypeOK
<1>1. Inv => TypeOK
  BY DEF Inv
<1>. QED BY <1>1, PodInvCorrect, PTL

\* The pod manifest lists the complete image of every app, however the
\* goroutines of processAcis interleave.
THEOREM ManifestCorrect ==
  ASSUME Distinct
  PROVE  Spec => []ManifestMatchesImages
<1>1. Inv => ManifestMatchesImages
  BY DEF Inv, EndInv, AppInv, Complete, ManifestMatchesImages
<1>. QED BY <1>1, PodInvCorrect, PTL

\* Only complete images of this build are installed or pushed, all of them
\* built first.
THEOREM DeliveryCorrect ==
  ASSUME Distinct
  PROVE  Spec => []DeliveredWhenComplete
<1>1. Inv => DeliveredWhenComplete
  BY DEF Inv, EndInv, AppInv, Complete, DeliveredWhenComplete
<1>. QED BY <1>1, PodInvCorrect, PTL

\* importMutex and builderImported: one import, before any builder runs.
THEOREM ImportCorrect ==
  ASSUME Distinct
  PROVE  Spec => []ImportedOnce
<1>1. Inv => ImportedOnce
  BY DEF Inv, LockInv, Imported, InRkt, ImportedOnce
<1>. QED BY <1>1, PodInvCorrect, PTL

\* A fatal error leaves no image and no pod of a builder in rkt.
THEOREM FatalCorrect ==
  ASSUME Distinct
  PROVE  Spec => []FatalLeavesOnlyOwn
<1>1. Inv => FatalLeavesOnlyOwn
  BY DEF Inv, EndInv, FatalLeavesOnlyOwn
<1>. QED BY <1>1, PodInvCorrect, PTL

\* When the command has returned nothing of its build is left.
THEOREM QuietCorrect ==
  ASSUME Distinct
  PROVE  Spec => []QuietAtEnd
<1>1. ASSUME Inv, outcome \in {"ok", "error"}
      PROVE  temps = {} /\ mutex = 0 /\ \A i \in Apps : pc[i] = "done"
  <2>1. \A i \in Apps : pc[i] = "done"
    BY <1>1 DEF Inv, EndInv, Complete
  <2>2. temps = {}
    BY <1>1, <2>1 DEF Inv, AppInv, TypeOK, InRkt
  <2>3. mutex = 0
    BY <1>1, <2>1, PodAssumption DEF Inv, LockInv, Holding, TypeOK, Apps
  <2>. QED BY <2>1, <2>2, <2>3
<1>2. Inv => QuietAtEnd
  BY <1>1 DEF QuietAtEnd, Inv, EndInv
<1>. QED BY <1>2, PodInvCorrect, PTL

(***************************************************************************)
(* The pod command implements PodBuild.                                    *)
(***************************************************************************)

\* What an app that is not done shows of itself in PodBuild: nothing.
LEMMA Undecided ==
  ASSUME Inv, NEW i \in Apps, pc[i] # "done"
  PROVE  apps[i] = None /\ ~errors[i] /\ None # Built(i)
  BY PodAssumption DEF Inv, AppInv, None, Built

\* A goroutine that returns an error breaks its app in PodBuild.
LEMMA FailBreaks ==
  ASSUME Inv, NEW i \in Apps, pc[i] # "done", Fail(i), Running, output' = output
  PROVE  Promised!Break(i)
<1>1. apps[i] = None /\ ~errors[i] /\ None # Built(i)
  BY Undecided
<1>2. apps' = [apps EXCEPT ![i] = None] /\ errors' = [errors EXCEPT ![i] = TRUE]
  BY DEF Fail, Store
<1>3. apps \in [Apps -> Image] /\ errors \in [Apps -> BOOLEAN]
  BY DEF Inv, TypeOK
<1>4. \A j \in Apps : apps'[j] = apps[j]
  BY <1>1, <1>2, <1>3
<1>5. {j \in Apps : apps'[j] = Built(j)} = {j \in Apps : apps[j] = Built(j)}
  BY <1>4
<1>6. {j \in Apps : errors'[j]} = {j \in Apps : errors[j]} \cup {i}
  BY <1>2, <1>3
<1>. QED BY <1>1, <1>5, <1>6 DEF Promised!Break, Built, output, Running

\* A step of an app builds it, breaks it, ends the command or is not seen.
LEMMA AppImplements ==
  ASSUME Inv, Distinct, NEW i \in Apps, App(i)
  PROVE  Promised!Next \/ UNCHANGED Promised!vars
<1>1. CASE GiveUp(i)
  <2>1. Promised!Break(i)
    BY <1>1, FailBreaks DEF GiveUp, At
  <2>. QED BY <2>1 DEF Promised!Next
<1>2. CASE CleanupRun(i) /\ failing[i]
  <2>1. Promised!Break(i)
    BY <1>2, FailBreaks DEF CleanupRun, At
  <2>. QED BY <2>1 DEF Promised!Next
<1>3. CASE ComputeSum(i)
  <2>1. /\ Running /\ pc[i] = "sum" /\ output' = output
        /\ apps' = [apps EXCEPT ![i] = image[AppName[i]]]
        /\ errors' = [errors EXCEPT ![i] = FALSE]
    BY <1>3 DEF ComputeSum, At, Store
  <2>2. apps[i] = None /\ ~errors[i] /\ None # Built(i)
    BY <2>1, Undecided
  <2>3. image[AppName[i]] = Built(i)
    BY <2>1 DEF Inv, AppInv
  <2>4. apps \in [Apps -> Image] /\ errors \in [Apps -> BOOLEAN]
    BY DEF Inv, TypeOK
  <2>5. {j \in Apps : apps'[j] = Built(j)} = {j \in Apps : apps[j] = Built(j)} \cup {i}
    BY <2>1, <2>3, <2>4
  <2>6. {j \in Apps : errors'[j]} = {j \in Apps : errors[j]}
    BY <2>1, <2>2, <2>4
  <2>7. Promised!Build(i)
    BY <2>1, <2>2, <2>5, <2>6 DEF Promised!Build, Built, output, Running
  <2>. QED BY <2>7 DEF Promised!Next
<1>4. CASE FailImport(i)
  <2>1. Running /\ outcome' = "fatal" /\ UNCHANGED <<apps, errors, manifest, delivered>>
    BY <1>4 DEF FailImport, At, Fatal, End, results
  <2>2. Promised!GiveUp
    BY <2>1 DEF Promised!GiveUp, Built, Running
  <2>. QED BY <2>2 DEF Promised!Next
<1>5. CASE ~(GiveUp(i) \/ (CleanupRun(i) /\ failing[i]) \/ ComputeSum(i) \/ FailImport(i))
  <2>1. UNCHANGED <<apps, errors, manifest, delivered, outcome>>
    BY <1>5 DEF App, FillFromDependencies, PrepareTarget, CheckDependencies, CleanAci,
       Lock, FindImported, StartImport, Import, PrepareBuilder, RunBuilder, TarAci, ExtractManifest,
       CleanupRun, results, output
  <2>. QED BY <2>1 DEF Promised!vars, Built
<1>. QED BY <1>1, <1>2, <1>3, <1>4, <1>5

\* The main goroutine lists, delivers, succeeds, gives up or is not seen.
LEMMA MainImplements ==
  ASSUME Inv, Main
  PROVE  Promised!Next \/ UNCHANGED Promised!vars
<1>. USE DEF End, results, output
<1>1. CASE Clean \/ Spawn \/ SpawnedAll
  BY <1>1 DEF Clean, Spawn, SpawnedAll, Promised!vars, Built
<1>2. ASSUME outcome = "running", outcome' = "error",
             UNCHANGED <<apps, errors, manifest, delivered>>
      PROVE  Promised!Next
  BY <1>2 DEF Promised!GiveUp, Promised!Next, Built
<1>3. ASSUME Complete
      PROVE  /\ {i \in Apps : apps[i] = Built(i)} = Apps
             /\ {i \in Apps : errors[i]} = {}
             /\ {i \in DOMAIN apps : apps[i] = Built(i)} = Apps
  BY <1>3 DEF Complete, Inv, AppInv, TypeOK
<1>4. CASE FinishBuild
  <2>1. /\ main = "wait" /\ Running /\ wg = 0 /\ UNCHANGED <<apps, errors, delivered>>
        /\ \/ outcome' = "error" /\ manifest' = manifest
           \/ /\ \A i \in Apps : ~errors[i]
              /\ manifest' = apps /\ outcome' = outcome
    BY <1>4 DEF FinishBuild, AllDone
  <2>2. CASE outcome' = "error" /\ manifest' = manifest
    BY <1>2, <2>1, <2>2 DEF Running
  <2>3. CASE (\A i \in Apps : ~errors[i]) /\ manifest' = apps /\ outcome' = outcome
    <3>1. Complete
      BY <2>1, <2>3, WaitLemma DEF Complete
    <3>2. {i \in DOMAIN manifest' : manifest'[i] = Built(i)} = Apps
      BY <1>3, <2>3, <3>1
    <3>3. Promised!List
      BY <1>3, <2>1, <2>3, <3>1, <3>2 DEF Promised!List, Built, Running
    <3>. QED BY <3>3 DEF Promised!Next
  <2>. QED BY <2>1, <2>2, <2>3
<1>5. CASE Deliver
  <2>1. /\ main = "deliver" /\ Running /\ Command # "build" /\ next \in Apps
        /\ UNCHANGED <<apps, errors, manifest>>
        /\ \/ /\ delivered' = delivered \cup {<<next, image[AppName[next]]>>}
              /\ outcome' = outcome
           \/ outcome' = "error" /\ delivered' = delivered
    BY <1>5 DEF Deliver
  <2>2. CASE outcome' = "error" /\ delivered' = delivered
    BY <1>2, <2>1, <2>2 DEF Running
  <2>3. CASE delivered' = delivered \cup {<<next, image[AppName[next]]>>} /\ outcome' = outcome
    <3>1. Complete /\ manifest = apps
      BY <2>1 DEF Inv, EndInv
    <3>2. {i \in DOMAIN manifest : manifest[i] = Built(i)} = Apps
      BY <1>3, <3>1
    <3>. PICK i \in Apps : i = next
      BY <2>1
    <3>. DEFINE sent == <<i, image[AppName[i]]>>
    <3>3. \A d : d \in delivered' <=> d \in delivered \/ d = sent
      BY <2>3
    <3>4. sent[1] = i
      OBVIOUS
    <3>. HIDE DEF sent
    <3>5. {d[1] : d \in delivered'} = {d[1] : d \in delivered} \cup {i}
      BY <3>3, <3>4
    <3>6. Promised!Deliver(i)
      BY <2>1, <2>3, <3>2, <3>5 DEF Promised!Deliver, Built, Running
    <3>. QED BY <3>6 DEF Promised!Next
  <2>. QED BY <2>1, <2>2, <2>3
<1>6. CASE Finish
  <2>1. /\ main = "deliver" /\ Running /\ outcome' = "ok"
        /\ Command = "build" \/ next = NumApps + 1
        /\ UNCHANGED <<apps, errors, manifest, delivered>>
    BY <1>6 DEF Finish
  <2>2. Complete /\ manifest = apps
    BY <2>1 DEF Inv, EndInv
  <2>3. ASSUME Command # "build" PROVE {d[1] : d \in delivered} = Apps
    <3>1. \A i \in Apps : i < next
      BY <2>1, <2>3, PodAssumption DEF Apps
    <3>2. \A i \in Apps : <<i, Built(i)>> \in delivered
      BY <2>1, <2>3, <3>1 DEF Inv, EndInv
    <3>3. \A d \in delivered : d[1] \in Apps
      BY DEF Inv, EndInv
    <3>4. \A i \in Apps : \E d \in delivered : d[1] = i
      BY <3>2
    <3>. QED BY <3>3, <3>4
  <2>4. Promised!Succeed
    BY <1>3, <2>1, <2>2, <2>3 DEF Promised!Succeed, Built, Running
  <2>. QED BY <2>4 DEF Promised!Next
<1>. QED BY <1>1, <1>4, <1>5, <1>6 DEF Main

\* Every step of the pod command is a step of PodBuild or is not seen there.
LEMMA StepImplements ==
  ASSUME Inv, Distinct, [Next]_vars
  PROVE  Promised!Next \/ UNCHANGED Promised!vars
<1>1. CASE \E i \in Apps : \E k \in Checks : EndCheck(<<i, k>>)
  BY <1>1 DEF EndCheck, Promised!vars, Built, results, output
<1>2. CASE UNCHANGED vars
  BY <1>2 DEF vars, Promised!vars, Built, results, output
<1>3. CASE PanicInCheck
  <2>1. /\ outcome = "running" /\ outcome' = "panic"
        /\ UNCHANGED <<apps, errors, manifest, delivered>>
    BY <1>3 DEF PanicInCheck, End, Running, results
  <2>2. Promised!GiveUp BY <2>1 DEF Promised!GiveUp, Built
  <2>. QED BY <2>2 DEF Promised!Next
<1>. QED BY <1>1, <1>2, <1>3, AppImplements, MainImplements DEF Next

\* With any number of apps of different names, with and without goroutines,
\* the pod command implements PodBuild: no error is lost, and success means
\* that every app was built, listed and delivered.
THEOREM PodBuildImplemented ==
  ASSUME Distinct
  PROVE  Spec => ImplementsPodBuild
<1>1. Init => Promised!Init
  <2>. SUFFICES ASSUME Init PROVE Promised!Init
    OBVIOUS
  <2>1. \A i \in Apps : apps[i] # Built(i) /\ ~errors[i]
    BY PodAssumption DEF Init, None, Built
  <2>2. DOMAIN manifest = {}
    BY DEF Init
  <2>. QED BY <2>1, <2>2 DEF Init, Promised!Init, Built
<1>2. Inv /\ [Next]_vars => [Promised!Next]_(Promised!vars)
  BY StepImplements
<1>. QED BY <1>1, <1>2, PodInvCorrect, PTL DEF Spec, ImplementsPodBuild, Promised!Spec
============================================================================
