----------------------------- MODULE AciProofs -----------------------------
(***************************************************************************)
(* Theorems about Aci, for all values of its constants: the types, the     *)
(* agreement of the files of the target directory, and that the target     *)
(* directory implements Builds.                                            *)
(***************************************************************************)
EXTENDS Aci, SequenceTheorems, TLAPS

\* The bodies of the methods and of the cobra commands are sequences of calls.
LEMMA BodiesAreCalls ==
  /\ SignCalls \in Seq(Calls) /\ InstallCalls \in Seq(Calls)
  /\ PushCalls \in Seq(Calls) /\ TestCalls \in Seq(Calls)
  /\ <<>> \in Seq(Calls)
  /\ Unwind \in Seq(Calls)
  /\ \A op \in Calls : <<op>> \in Seq(Calls)
  /\ \A c \in CommandType : CommandCalls(c) \in Seq(Calls) /\ CleanFirst(c) \in Seq(Calls)
<1>1. /\ SignCalls \in Seq(Calls) /\ InstallCalls \in Seq(Calls)
      /\ PushCalls \in Seq(Calls) /\ TestCalls \in Seq(Calls)
  BY DEF SignCalls, InstallCalls, PushCalls, TestCalls, Calls
<1>2. /\ <<"Clean">> \in Seq(Calls) /\ <<"CleanAndRun">> \in Seq(Calls)
      /\ <<"CleanAndRun", "Clean">> \in Seq(Calls)
      /\ <<"Sign">> \in Seq(Calls) /\ <<"Install">> \in Seq(Calls)
      /\ <<"Push">> \in Seq(Calls) /\ <<"Test">> \in Seq(Calls)
  BY DEF Calls
<1>3. <<>> \in Seq(Calls) /\ \A op \in Calls : <<op>> \in Seq(Calls)
  OBVIOUS
<1>4. Unwind \in Seq(Calls)
  <2>1. CASE command.name = "init" BY <2>1, <1>2, Zenon DEF Unwind
  <2>2. CASE command.name # "init" BY <2>2, <1>3, Zenon DEF Unwind
  <2>. QED BY <2>1, <2>2
<1>5. ASSUME NEW c \in CommandType
      PROVE  CommandCalls(c) \in Seq(Calls) /\ CleanFirst(c) \in Seq(Calls)
  <2>1. CleanFirst(c) \in Seq(Calls)
    <3>1. CASE c.clean /\ c.name \notin {"build", "try"}
      BY <3>1, <1>2, Zenon DEF CleanFirst
    <3>2. CASE ~(c.clean /\ c.name \notin {"build", "try"})
      BY <3>2, <1>3, Zenon DEF CleanFirst
    <3>. QED BY <3>1, <3>2
  <2>2. c.name \in Names BY DEF CommandType
  <2>3. CASE c.name \in {"build", "try"} BY <2>3, <1>2, <2>1, SMT DEF CommandCalls
  <2>4. CASE c.name = "init"    BY <2>4, <1>2, <2>1, SMT DEF CommandCalls
  <2>5. CASE c.name = "clean"   BY <2>5, <1>2, <2>1, SMT DEF CommandCalls
  <2>6. CASE c.name = "sign"    BY <2>6, <1>2, <2>1, SMT DEF CommandCalls
  <2>7. CASE c.name = "install" BY <2>7, <1>2, <2>1, SMT DEF CommandCalls
  <2>8. CASE c.name = "push"    BY <2>8, <1>2, <2>1, SMT DEF CommandCalls
  <2>9. CASE c.name = "test"    BY <2>9, <1>2, <2>1, SMT DEF CommandCalls
  <2>. QED BY <2>1, <2>2, <2>3, <2>4, <2>5, <2>6, <2>7, <2>8, <2>9 DEF Names
<1>. QED BY <1>1, <1>3, <1>4, <1>5

\* Returning from a call, and making one, leave a sequence of calls.
LEMMA TailType == ASSUME NEW S, NEW s \in Seq(S), s # <<>> PROVE Tail(s) \in Seq(S)
  BY HeadTailProperties

\* A body put in front of the pending calls gives a sequence of calls.
LEMMA ConcatType == ASSUME NEW S, NEW s \in Seq(S), NEW t \in Seq(S) PROVE s \o t \in Seq(S)
  BY ConcatProperties

\* A method that only calls other methods keeps the types.
LEMMA ExpandType ==
  ASSUME TypeOK, NEW op \in Calls, NEW body \in Seq(Calls), Expand(op, body)
  PROVE TypeOK'
<1>1. calls' \in Seq(Calls)
  BY TailType, ConcatType DEF Expand, Calling, TypeOK
<1>. QED BY <1>1 DEF Expand, TypeOK, disk, store, session, tests, Artifact, Upload

\* The first command is typed in a state of the declared types.
LEMMA InitType == Init => TypeOK
<1>. SUFFICES ASSUME Init PROVE TypeOK
  OBVIOUS
<1>1. command \in CommandType
  BY DEF Init, CommandType, Names
<1>2. target \in [Files -> Artifact] /\ results \in [Tests -> Verdicts]
  BY DEF Init, Files, Artifact, Absent, Verdicts
<1>3. 1 \in 1..(NumTests + 1)
  BY AciAssumption
<1>. QED BY <1>1, <1>2, <1>3, BodiesAreCalls DEF Init, TypeOK, Phases

\* Typing a command keeps the types.
LEMMA StartType == ASSUME TypeOK, NEW c \in Commands, Start(c) PROVE TypeOK'
<1>1. c \in CommandType BY AciAssumption
<1>2. CleanFirst(c) \o CommandCalls(c) \in Seq(Calls)
  BY <1>1, BodiesAreCalls, ConcatType
<1>3. c.test \in BOOLEAN
  BY <1>1 DEF CommandType
<1>4. 1 \in 1..(NumTests + 1) /\ issued + 1 \in Nat
  BY AciAssumption DEF TypeOK
<1>. QED
  BY <1>1, <1>2, <1>3, <1>4 DEF Start, TypeOK, disk, store, Phases

\* Removing some of the target's files keeps the types of the files.
LEMMA LeaveType ==
  ASSUME TypeOK, NEW files \in SUBSET Files, NEW keep \in BOOLEAN, Leave(files, keep)
  PROVE /\ target' \in [Files -> Artifact] /\ results' \in [Tests -> Verdicts]
        /\ ended' \in BOOLEAN
  BY DEF Leave, TypeOK, Artifact, Absent, Verdicts

\* So does os.RemoveAll, whether it completes or not.
LEMMA RemoveTargetType ==
  ASSUME TypeOK, RemoveTarget
  PROVE /\ target' \in [Files -> Artifact] /\ results' \in [Tests -> Verdicts]
        /\ ended' \in BOOLEAN
  BY LeaveType DEF RemoveTarget

\* A method that returns leaves a sequence of pending calls.
LEMMA ReturnType ==
  ASSUME TypeOK, calls # <<>>
  PROVE Tail(calls) \in Seq(Calls)
  BY TailType DEF TypeOK

\* So does an error, which leaves what Init still has to do.
LEMMA FailType == ASSUME TypeOK, Fail
  PROVE /\ calls' \in Seq(Calls) /\ phase' \in Phases /\ at' \in {"main", "tests"}
        /\ failed' \in BOOLEAN
  BY BodiesAreCalls DEF Fail, Phases

\* The methods that only call others, and the ones that clean, keep the types.
LEMMA CallsType ==
  ASSUME TypeOK,
         \/ Sign \/ Install \/ Push \/ Test \/ EnsureBuilt \/ EnsureSign
         \/ EnsureZip \/ EnsureZipSign
  PROVE TypeOK'
<1>1. /\ <<"CleanAndRun">> \in Seq(Calls) /\ <<"Sign">> \in Seq(Calls)
      /\ <<"EnsureBuilt", "Zip">> \in Seq(Calls)
      /\ <<"EnsureZip", "SignZip">> \in Seq(Calls)
  BY DEF Calls
<1>2. {"Sign", "Install", "Push", "Test", "EnsureBuilt", "EnsureSign",
       "EnsureZip", "EnsureZipSign"} \subseteq Calls
  BY DEF Calls
<1>. USE ExpandType, BodiesAreCalls, <1>1, <1>2
<1>3. CASE Sign BY <1>3 DEF Sign
<1>4. CASE Install BY <1>4 DEF Install
<1>5. CASE Push BY <1>5 DEF Push
<1>6. CASE Test BY <1>6 DEF Test
<1>7. CASE EnsureBuilt BY <1>7 DEF EnsureBuilt
<1>8. CASE EnsureSign BY <1>8 DEF EnsureSign
<1>9. CASE EnsureZip BY <1>9 DEF EnsureZip
<1>10. CASE EnsureZipSign BY <1>10 DEF EnsureZipSign
<1>. QED BY <1>3, <1>4, <1>5, <1>6, <1>7, <1>8, <1>9, <1>10

\* What rkt rm and rkt image rm leave has the declared type.
LEMMA RemoveTempsType ==
  ASSUME TypeOK, NEW ks \in SUBSET Kinds, RemoveTemps(ks)
  PROVE temps' \in SUBSET Kinds
  BY DEF RemoveTemps, TypeOK

\* The steps of RunBuilderCommand keep the types.
LEMMA BuilderType ==
  ASSUME TypeOK,
         \/ Clean \/ CleanAndRun \/ BuildTest \/ PrepareStage1 \/ PrepareBuilder
         \/ RunBuilder \/ RunLevels \/ TarAci \/ ExtractManifest \/ CleanupRun
  PROVE TypeOK'
<1>. USE DEF disk, store, session, tests
<1>1. CASE Clean
  <2>1. RemoveTarget /\ calls # <<>> /\ Return BY <1>1 DEF Clean, Calling
  <2>. QED BY <2>1, <1>1, RemoveTargetType, ReturnType DEF Clean, Return, TypeOK
<1>2. CASE CleanAndRun
  <2>1. RemoveTarget /\ calls # <<>> BY <1>2 DEF CleanAndRun, Calling
  <2>. QED BY <2>1, <1>2, RemoveTargetType, ReturnType DEF CleanAndRun, TypeOK, Phases
<1>3. CASE BuildTest
  <2>1. calls # <<>> BY <1>3 DEF BuildTest, Calling
  <2>2. temps' \in SUBSET Kinds BY <1>3 DEF BuildTest, Kinds, TypeOK
  <2>. QED BY <2>1, <2>2, <1>3, FailType, ReturnType DEF BuildTest, TestTarget, TypeOK, Phases
<1>4. CASE PrepareStage1
  <2>1. temps' \in SUBSET Kinds
    BY <1>4 DEF PrepareStage1, Kinds, TypeOK
  <2>. QED BY <2>1, <1>4, FailType DEF PrepareStage1, Advance, TypeOK, Phases
<1>5. CASE PrepareBuilder
  <2>1. temps' \in SUBSET Kinds
    BY <1>5 DEF PrepareBuilder, Kinds, TypeOK
  <2>. QED BY <2>1, <1>5, FailType DEF PrepareBuilder, Advance, TypeOK, Phases
<1>6. CASE RunBuilder
  <2>1. temps' \in SUBSET Kinds
    BY <1>6 DEF RunBuilder, Kinds, TypeOK
  <2>. QED BY <2>1, <1>6 DEF RunBuilder, Advance, Abort, TypeOK, Phases
<1>7. CASE RunLevels
  <2>1. [id |-> issued, from |-> Verb, content |-> "truncated"] \in Artifact
    BY DEF Artifact, Verb, TypeOK
  <2>2. target' \in [Files -> Artifact]
    BY <2>1, <1>7 DEF RunLevels, TypeOK
  <2>. QED BY <2>2, <1>7 DEF RunLevels, Advance, Abort, TypeOK, Phases
<1>8. CASE TarAci
  <2>1. [target["image"] EXCEPT !.content = "whole"] \in Artifact
    BY DEF Artifact, Files, TypeOK
  <2>2. target' \in [Files -> Artifact]
    BY <2>1, <1>8 DEF TarAci, TypeOK
  <2>. QED BY <2>2, <1>8 DEF TarAci, Advance, Abort, TypeOK, Phases
<1>9. CASE ExtractManifest
  BY <1>9 DEF ExtractManifest, Advance, Abort, TypeOK, Phases
<1>10. CASE CleanupRun
  <2>1. temps' \in SUBSET Kinds
    <3>. DEFINE ks == BuilderImages \cup (IF command.keep THEN {} ELSE {"buildpod"})
    <3>1. ks \in SUBSET Kinds BY DEF BuilderImages, Kinds
    <3>2. RemoveTemps(ks) BY <1>10 DEF CleanupRun
    <3>. QED BY <3>1, <3>2, RemoveTempsType
  <2>. QED BY <2>1, <1>10, FailType DEF CleanupRun, Advance, TypeOK, Phases
<1>. QED BY <1>1, <1>2, <1>3, <1>4, <1>5, <1>6, <1>7, <1>8, <1>9, <1>10

\* Signing and zipping keep the types.
LEMMA SignType ==
  ASSUME TypeOK, SignImage \/ SignZip \/ Gpg \/ Zip \/ ZipCopy PROVE TypeOK'
<1>. USE DEF disk, store, session, tests
<1>1. ASSUME NEW op, NEW f \in Files, NEW sig \in Files, SignFile(op, f, sig)
      PROVE TypeOK'
  <2>1. calls # <<>> BY <1>1 DEF SignFile, Calling
  <2>2. [target[f] EXCEPT !.content = "cut"] \in Artifact
    BY DEF Artifact, TypeOK
  <2>3. target' \in [Files -> Artifact]
    BY <1>1, <2>2 DEF SignFile, TypeOK
  <2>4. /\ calls' \in Seq(Calls) /\ phase' \in Phases /\ at' \in {"main", "tests"}
        /\ failed' \in BOOLEAN
    <3>1. CASE Advance("gpg") BY <3>1 DEF Advance, TypeOK, Phases
    <3>2. CASE Return BY <2>1, <3>2, ReturnType DEF Return, TypeOK
    <3>3. CASE Fail BY <3>3, FailType
    <3>. QED BY <1>1, <3>1, <3>2, <3>3 DEF SignFile
  <2>. QED BY <1>1, <2>3, <2>4 DEF SignFile, TypeOK
<1>2. CASE SignImage \/ SignZip
  BY <1>1, <1>2 DEF SignImage, SignZip, Files
<1>5. ASSUME NEW op, NEW f \in Files, NEW sig \in Files, GpgFile(op, f, sig)
      PROVE TypeOK'
  <2>1. Absent \in Artifact BY DEF Absent, Artifact
  <2>2. target' \in [Files -> Artifact]
    BY <1>5, <2>1 DEF GpgFile, TypeOK
  <2>. QED BY <1>5, <2>2, FailType, ReturnType DEF GpgFile, TypeOK, Phases
<1>6. CASE Gpg
  BY <1>5, <1>6 DEF Gpg, Files
<1>3. CASE Zip
  <2>1. [target["image"] EXCEPT !.content = "truncated"] \in Artifact
    BY DEF Artifact, Files, TypeOK
  <2>2. target' \in [Files -> Artifact]
    BY <2>1, <1>3 DEF Zip, TypeOK
  <2>3. calls # <<>> BY <1>3 DEF Zip, Calling
  <2>4. /\ calls' \in Seq(Calls) /\ phase' \in Phases /\ at' \in {"main", "tests"}
        /\ failed' \in BOOLEAN
    BY <1>3, <2>3, FailType, ReturnType DEF Zip, Return, TypeOK, Phases
  <2>. QED BY <1>3, <2>2, <2>4 DEF Zip, TypeOK
<1>4. CASE ZipCopy
  <2>1. target' \in [Files -> Artifact]
    BY <1>4 DEF ZipCopy, TypeOK, Files
  <2>. QED BY <1>4, <2>1, FailType DEF ZipCopy, Advance, TypeOK, Phases
<1>. QED BY <1>2, <1>3, <1>4, <1>6

\* Installing, testing, pushing, the end of a command and a kill keep the types.
LEMMA UseType ==
  ASSUME TypeOK,
         \/ TestFirst \/ Fetch \/ FetchTest \/ RunTest \/ RunTestFile \/ EndTests
         \/ StopTests \/ CleanupTest \/ CheckResult \/ UploadAci \/ Finish \/ Kill
  PROVE TypeOK'
<1>. USE DEF disk, store, session, tests
<1>1. CASE TestFirst
  <2>1. calls # <<>> BY <1>1 DEF TestFirst, Calling
  <2>2. calls' \in Seq(Calls)
    <3>1. <<"Test">> \in Seq(Calls) BY BodiesAreCalls DEF Calls
    <3>. QED BY <2>1, <3>1, <1>1, BodiesAreCalls, ReturnType, ConcatType DEF TestFirst
  <2>. QED BY <2>2, <1>1 DEF TestFirst, FlagAfterTest, TypeOK
<1>2. CASE Fetch
  <2>1. calls # <<>> BY <1>2 DEF Fetch, Calling
  <2>2. installed' \in SUBSET Artifact
    BY <1>2 DEF Fetch, TypeOK, Files
  <2>. QED BY <1>2, <2>1, <2>2, FailType, ReturnType DEF Fetch, Return, TypeOK
<1>3. CASE FetchTest
  <2>1. calls # <<>> BY <1>3 DEF FetchTest, Calling
  <2>2. temps' \in SUBSET Kinds
    BY <1>3 DEF FetchTest, Kinds, TypeOK
  <2>. QED BY <1>3, <2>1, <2>2, FailType, ReturnType DEF FetchTest, TypeOK
<1>4. CASE RunTest
  <2>1. calls # <<>> BY <1>4 DEF RunTest, Calling
  <2>2. temps' \in SUBSET Kinds
    BY <1>4 DEF RunTest, Kinds, TypeOK
  <2>3. 1 \in 1..(NumTests + 1) BY AciAssumption
  <2>. QED BY <1>4, <2>1, <2>2, <2>3, ReturnType DEF RunTest, TypeOK, Phases
<1>5. CASE RunTestFile
  <2>1. nextTest \in Tests
    BY <1>5, AciAssumption DEF RunTestFile, MoreTests, Tests, TypeOK
  <2>2. results' \in [Tests -> Verdicts]
    BY <1>5, <2>1 DEF RunTestFile, Verdicts, TypeOK
  <2>3. nextTest' \in 1..(NumTests + 1)
    BY <1>5, <2>1, AciAssumption DEF RunTestFile, Tests
  <2>. QED BY <1>5, <2>2, <2>3 DEF RunTestFile, machine, TypeOK
<1>6. CASE EndTests
  BY <1>6 DEF EndTests, Advance, TypeOK, Phases
<1>7. CASE StopTests
  BY <1>7 DEF StopTests, Advance, Abort, TypeOK, Phases
<1>8. CASE CleanupTest
  <2>1. temps' \in SUBSET Kinds
    BY <1>8, RemoveTempsType DEF CleanupTest, Kinds
  <2>2. installed' \in SUBSET Artifact
    BY <1>8 DEF CleanupTest, TypeOK
  <2>. QED BY <1>8, <2>1, <2>2, FailType DEF CleanupTest, Advance, TypeOK, Phases
<1>9. CASE CheckResult
  <2>1. calls # <<>> BY <1>9 DEF CheckResult, Calling
  <2>. QED BY <1>9, <2>1, FailType, ReturnType DEF CheckResult, Return, TypeOK
<1>10. CASE UploadAci
  <2>1. calls # <<>> BY <1>10 DEF UploadAci, Calling
  <2>2. [name |-> target["image"].id, payload |-> target["gz"],
         sig |-> target["gzasc"]] \in Upload
    BY DEF Upload, Artifact, Files, TypeOK
  <2>3. remote' \in SUBSET Upload
    BY <1>10, <2>2 DEF UploadAci, TypeOK
  <2>. QED BY <1>10, <2>1, <2>3, FailType, ReturnType DEF UploadAci, Return, TypeOK
<1>11. CASE Finish
  BY <1>11 DEF Finish, machine, TypeOK
<1>12. CASE Kill
  <2>1. /\ target' \in [Files -> Artifact] /\ results' \in [Tests -> Verdicts]
        /\ ended' \in BOOLEAN
    BY <1>12, LeaveType DEF Kill, TypeOK
  <2>. QED BY <1>12, <2>1, BodiesAreCalls DEF Kill, TypeOK, Phases
<1>. QED BY <1>1, <1>2, <1>3, <1>4, <1>5, <1>6, <1>7, <1>8, <1>9, <1>10, <1>11, <1>12

\* Every reachable state has the declared types (TypeOK), whatever the
\* commands, the faults and the number of tests.
THEOREM TypeCorrect == Spec => []TypeOK
<1>1. Init => TypeOK
  BY InitType
<1>2. TypeOK /\ [Next]_vars => TypeOK'
  <2>. SUFFICES ASSUME TypeOK, [Next]_vars PROVE TypeOK'
    OBVIOUS
  <2>1. CASE \E c \in Commands : Start(c) BY <2>1, StartType
  <2>2. CASE Step BY <2>2, CallsType, BuilderType, SignType, UseType DEF Step
  <2>3. CASE Kill BY <2>3, UseType
  <2>4. CASE UNCHANGED vars
    BY <2>4 DEF vars, disk, store, session, machine, tests, TypeOK
  <2>. QED BY <2>1, <2>2, <2>3, <2>4 DEF Next
<1>. QED BY <1>1, <1>2, PTL DEF Spec

(***************************************************************************)
(* SameBuild.  What makes it inductive is that the target is empty in      *)
(* every phase of RunBuilderCommand before the one that writes image.aci;  *)
(* this needs os.RemoveAll not to fail halfway while dgr goes on.          *)
(***************************************************************************)

\* There is no file before the first command.
LEMMA InitBuild == Init => BuildInv
  BY DEF Init, BuildInv, SameBuild, EmptyBeforeTar, TarHasImage, Numbered, Exists,
         Running

\* A step that leaves the files alone and enters no phase that speaks of them.
LEMMA SameTargetBuild ==
  ASSUME BuildInv, target' = target, issued' = issued, Running' => Running,
         \/ phase' = "none" \/ at' = "tests"
         \/ phase' \notin {"stage1", "builder", "prepared", "container", "tar"}
         \/ /\ phase \in {"stage1", "builder", "prepared", "container"} /\ at' = at
            /\ phase' \in {"stage1", "builder", "prepared", "container"}
  PROVE BuildInv'
  BY DEF BuildInv, SameBuild, EmptyBeforeTar, TarHasImage, Numbered, Exists, Running

\* Removing files, all of them before a run of the builder, some in any other
\* situation.
LEMMA LeaveBuild ==
  ASSUME BuildInv, \A f \in Files : target'[f] \in {target[f], Absent},
         issued' = issued, Running' => Running,
         \/ phase' = "none"
         \/ phase' = "stage1" /\ \A f \in Files : target'[f] = Absent
  PROVE BuildInv'
  BY DEF BuildInv, SameBuild, EmptyBeforeTar, TarHasImage, Numbered, Exists, Running

\* Every step preserves the strengthened invariant.
LEMMA StepBuild ==
  ASSUME TypeOK, BuildInv, "rm" \notin Faults, [Next]_vars
  PROVE  BuildInv'
<1>. USE DEF disk, store, session, tests
<1>1. CASE \E c \in Commands : Start(c)
  BY <1>1 DEF Start, TypeOK, BuildInv, SameBuild, EmptyBeforeTar, TarHasImage,
              Numbered, Exists, Running
<1>2. CASE Finish
  BY <1>2 DEF Finish, machine, BuildInv, SameBuild, EmptyBeforeTar, TarHasImage,
              Numbered, Exists, Running
<1>3. CASE \/ Sign \/ Install \/ Push \/ Test \/ EnsureBuilt \/ EnsureSign
           \/ EnsureZip \/ EnsureZipSign \/ TestFirst
  <2>1. /\ phase' = "none" /\ target' = target /\ issued' = issued
        /\ outcome' = outcome
    BY <1>3 DEF Sign, Install, Push, Test, EnsureBuilt, EnsureSign, EnsureZip,
                EnsureZipSign, TestFirst, Expand, Calling
  <2>. QED BY <2>1, SameTargetBuild DEF Running
<1>4. CASE Clean \/ CleanAndRun
  <2>1. /\ Leave({}, FALSE) /\ issued' = issued /\ outcome' = outcome
        /\ phase' \in {"none", "stage1"}
    BY <1>4 DEF Clean, CleanAndRun, RemoveTarget, Return, Calling
  <2>2. \A f \in Files : target'[f] = Absent
    BY <2>1 DEF Leave
  <2>. QED BY <2>1, <2>2, LeaveBuild DEF Running
<1>5. CASE \/ BuildTest \/ Fetch \/ FetchTest \/ RunTest \/ CheckResult \/ UploadAci
  <2>1. /\ target' = target /\ issued' = issued /\ outcome' = outcome
        /\ phase' \in {"none", "testing", "testcleanup"} \/ at' = "tests"
    BY <1>5 DEF BuildTest, Fetch, FetchTest, RunTest, CheckResult, UploadAci,
                Return, Fail, Calling, TestTarget
  <2>. QED BY <2>1, SameTargetBuild DEF Running
<1>6. CASE PrepareStage1 \/ PrepareBuilder \/ RunBuilder
  <2>1. target' = target /\ issued' = issued /\ outcome' = outcome
    BY <1>6 DEF PrepareStage1, PrepareBuilder, RunBuilder
  <2>2. \/ phase' \in {"none", "cleanup"}
        \/ /\ phase \in {"stage1", "builder", "prepared"} /\ at' = at
           /\ phase' \in {"builder", "prepared", "container"}
    BY <1>6 DEF PrepareStage1, PrepareBuilder, RunBuilder, Builder, Advance,
                Abort, Fail
  <2>. QED BY <2>1, <2>2, SameTargetBuild DEF Running
<1>7. CASE \/ ExtractManifest \/ CleanupRun \/ RunTestFile \/ EndTests \/ StopTests
           \/ CleanupTest
  <2>1. /\ target' = target /\ issued' = issued /\ outcome' = outcome
        /\ phase' \in {"none", "cleanup", "testing", "testcleanup"}
    BY <1>7 DEF ExtractManifest, CleanupRun, RunTestFile, EndTests, StopTests,
                CleanupTest, Builder, Advance, Abort, Fail, machine
  <2>. QED BY <2>1, SameTargetBuild DEF Running
<1>8. CASE RunLevels
  <2>1. CASE at = "main" /\ phase' = "tar"
    <3>1. /\ target' = [target EXCEPT !["image"] =
                          [id |-> issued, from |-> Verb, content |-> "truncated"]]
          /\ issued' = issued /\ at' = at /\ issued \in Nat \ {0}
          /\ \A f \in Files : target[f] = Absent
      BY <1>8, <2>1 DEF RunLevels, Builder, Advance, Abort, BuildInv,
                        EmptyBeforeTar, Exists, Numbered, TypeOK
    <3>2. /\ target'["image"].id = issued
          /\ \A f \in Files \ {"image"} : target'[f] = Absent
      BY <3>1 DEF TypeOK, Files
    <3>3. target'["image"] # Absent
      BY <3>1, <3>2 DEF Absent
    <3>. QED
      BY <2>1, <3>1, <3>2, <3>3 DEF BuildInv, SameBuild, EmptyBeforeTar,
         TarHasImage, Numbered, Exists, Running, Files
  <2>2. CASE target' = target /\ (at = "tests" \/ phase' = "cleanup")
    <3>1. issued' = issued /\ outcome' = outcome /\ at' = at
      BY <1>8 DEF RunLevels, Advance, Abort
    <3>. QED BY <2>2, <3>1, SameTargetBuild DEF Running
  <2>3. at \in {"main", "tests"} BY DEF TypeOK
  <2>. QED BY <1>8, <2>1, <2>2, <2>3 DEF RunLevels, Advance, Abort
<1>9. CASE TarAci
  <2>1. CASE at = "main" /\ phase' = "extract"
    <3>1. /\ target' = [target EXCEPT !["image"] = [@ EXCEPT !.content = "whole"]]
          /\ issued' = issued /\ outcome' = outcome /\ Exists("image")
      BY <1>9, <2>1 DEF TarAci, Builder, Advance, Abort, BuildInv, TarHasImage
    <3>2. /\ target'["image"].id = target["image"].id
          /\ \A f \in Files \ {"image"} : target'[f] = target[f]
      BY <3>1 DEF TypeOK, Files, Artifact
    <3>. QED
      BY <2>1, <3>1, <3>2 DEF BuildInv, SameBuild, EmptyBeforeTar,
         TarHasImage, Numbered, Exists, Running, Files
  <2>2. CASE target' = target /\ phase' \in {"extract", "cleanup"}
    <3>1. issued' = issued /\ outcome' = outcome
      BY <1>9 DEF TarAci
    <3>. QED BY <2>2, <3>1, SameTargetBuild DEF Running
  <2>. QED BY <1>9, <2>1, <2>2 DEF TarAci, Advance, Abort
<1>10. CASE SignImage \/ SignZip
  <2>1. ASSUME NEW op, NEW f \in Files, NEW sig \in Files, SignFile(op, f, sig)
        PROVE BuildInv'
    <3>1. /\ issued' = issued /\ outcome' = outcome /\ phase' \in {"none", "gpg"}
          /\ \/ target' = target
             \/ /\ Exists(f)
                /\ target' = [target EXCEPT ![sig] = [target[f] EXCEPT !.content = "cut"]]
      BY <2>1 DEF SignFile, Return, Advance, Fail, Calling
    <3>2. CASE target' = target
      BY <3>1, <3>2, SameTargetBuild DEF Running
    <3>3. CASE /\ Exists(f)
               /\ target' = [target EXCEPT ![sig] = [target[f] EXCEPT !.content = "cut"]]
      <4>1. /\ target'[sig].id = target[f].id
            /\ \A g \in Files \ {sig} : target'[g] = target[g]
        BY <3>3 DEF TypeOK, Artifact
      <4>. QED BY <3>1, <3>3, <4>1 DEF BuildInv, SameBuild, EmptyBeforeTar, TarHasImage,
                        Numbered, Exists, Running
    <3>. QED BY <3>1, <3>2, <3>3
  <2>. QED BY <1>10, <2>1 DEF SignImage, SignZip, Files
<1>15. CASE Gpg
  <2>1. ASSUME NEW op, NEW f \in Files, NEW sig \in {"asc", "gzasc"}, GpgFile(op, f, sig)
        PROVE BuildInv'
    <3>1. /\ issued' = issued /\ outcome' = outcome /\ phase' = "none"
          /\ target' \in {target, [target EXCEPT ![sig] = target[f]],
                            [target EXCEPT ![sig] = Absent]}
      BY <2>1 DEF GpgFile, Fail
    <3>2. target'[sig] \in {target[sig], target[f], Absent}
          /\ \A g \in Files \ {sig} : target'[g] = target[g]
      BY <3>1 DEF TypeOK, Files
    <3>. QED BY <3>1, <3>2 DEF BuildInv, SameBuild, EmptyBeforeTar, TarHasImage,
                        Numbered, Exists, Running, Files
  <2>. QED BY <1>15, <2>1 DEF Gpg, Files
<1>11. CASE Zip
  <2>1. /\ issued' = issued /\ outcome' = outcome /\ phase' \in {"none", "zip"}
    BY <1>11 DEF Zip, Return, Fail, Calling
  <2>2. CASE target' = target
    BY <2>1, <2>2, SameTargetBuild DEF Running
  <2>3. CASE /\ Exists("image")
             /\ target' = [target EXCEPT !["gz"] = [target["image"] EXCEPT !.content = "truncated"]]
    <3>1. /\ target'["gz"].id = target["image"].id
          /\ \A f \in Files \ {"gz"} : target'[f] = target[f]
      BY <2>3 DEF TypeOK, Files, Artifact
    <3>. QED
      BY <2>1, <2>3, <3>1 DEF BuildInv, SameBuild, EmptyBeforeTar, TarHasImage,
                              Numbered, Exists, Running, Files
  <2>. QED BY <1>11, <2>2, <2>3 DEF Zip
<1>12. CASE ZipCopy
  <2>1. /\ issued' = issued /\ outcome' = outcome /\ phase' = "none"
        /\ target' = target \/ target' = [target EXCEPT !["gz"] = target["image"]]
    BY <1>12 DEF ZipCopy, Advance, Fail
  <2>2. CASE target' = target
    BY <2>1, <2>2, SameTargetBuild DEF Running
  <2>3. CASE target' = [target EXCEPT !["gz"] = target["image"]]
    <3>1. /\ target'["gz"] = target["image"]
          /\ \A f \in Files \ {"gz"} : target'[f] = target[f]
      BY <2>3 DEF TypeOK, Files
    <3>. QED
      BY <2>1, <3>1 DEF BuildInv, SameBuild, EmptyBeforeTar, TarHasImage,
                        Numbered, Exists, Running, Files
  <2>. QED BY <2>1, <2>2, <2>3
<1>13. CASE Kill
  <2>1. phase' = "none" /\ issued' = issued /\ ~Running'
    BY <1>13 DEF Kill, Running
  <2>2. CASE target' = target
    BY <2>1, <2>2, SameTargetBuild
  <2>3. CASE \E files \in SUBSET Files, keep \in BOOLEAN : Leave(files, keep)
    <3>1. \A f \in Files : target'[f] \in {target[f], Absent}
      BY <2>3 DEF Leave
    <3>. QED BY <2>1, <3>1, LeaveBuild
  <2>. QED BY <1>13, <2>2, <2>3 DEF Kill
<1>14. CASE UNCHANGED vars
  BY <1>14 DEF vars, machine, BuildInv, SameBuild, EmptyBeforeTar, TarHasImage,
               Numbered, Exists, Running
<1>. QED
  BY <1>1, <1>2, <1>3, <1>4, <1>5, <1>6, <1>7, <1>8, <1>9, <1>10, <1>11, <1>12,
     <1>13, <1>14, <1>15 DEF Next, Step

\* As long as os.RemoveAll does not fail halfway, RunBuilderCommand only ever
\* writes image.aci into an emptied target (EmptyBeforeTar), and the files in
\* the target agree (SameBuild): for any commands, any other faults and any
\* number of tests.
THEOREM BuildInvCorrect ==
  ASSUME "rm" \notin Faults
  PROVE  Spec => []BuildInv
<1>1. Init => BuildInv
  BY InitBuild
<1>2. TypeOK /\ BuildInv /\ [Next]_vars => BuildInv'
  BY StepBuild
<1>. QED BY <1>1, <1>2, TypeCorrect, PTL DEF Spec

\* As long as os.RemoveAll does not fail halfway, no sequence of commands,
\* errors, truncated writes and kills leaves files of different builds in the
\* target (SameBuild).
THEOREM SameBuildCorrect ==
  ASSUME "rm" \notin Faults
  PROVE  Spec => []SameBuild
<1>1. BuildInv => SameBuild
  BY DEF BuildInv
<1>. QED BY <1>1, BuildInvCorrect, PTL

(***************************************************************************)
(* The implementation of Builds.  Every step that leaves image.aci and the *)
(* remote storage alone stutters; the four kinds of steps that do not are  *)
(* the four actions of Builds.                                             *)
(***************************************************************************)

\* A step that changes neither what is built nor what was pushed.
LEMMA Stutter ==
  ASSUME issued' = issued, target'["image"].id = target["image"].id, remote' = remote
  PROVE  UNCHANGED Promised!vars
  BY DEF Promised!vars

\* A step that removes the image, or keeps it.
LEMMA LeaveImage ==
  ASSUME target'["image"] \in {target["image"], Absent},
         issued' = issued, remote' = remote
  PROVE  [Promised!Next]_(Promised!vars)
<1>1. CASE target'["image"] = target["image"]
  BY <1>1, Stutter
<1>2. CASE target'["image"] = Absent
  BY <1>2 DEF Absent, Promised!Next, Promised!Clean
<1>. QED BY <1>1, <1>2

\* Every step of the commands is a step of the promise, or changes nothing of it.
LEMMA StepPromised ==
  ASSUME TypeOK, BuildInv, "rm" \notin Faults, [Next]_vars
  PROVE  [Promised!Next]_(Promised!vars)
<1>. USE DEF disk, store, session, tests
<1>1. CASE \E c \in Commands : Start(c)
  BY <1>1 DEF Start, Promised!Next, Promised!Request
<1>2. CASE Clean \/ CleanAndRun
  <2>1. target' = [f \in Files |-> Absent] /\ issued' = issued /\ remote' = remote
    BY <1>2 DEF Clean, CleanAndRun, RemoveTarget, Leave
  <2>. QED BY <2>1, LeaveImage DEF Files
<1>3. CASE Kill
  <2>1. target'["image"] \in {target["image"], Absent}
    BY <1>3 DEF Kill, Leave, Files
  <2>. QED BY <1>3, <2>1, LeaveImage DEF Kill
<1>4. CASE RunLevels
  <2>1. issued' = issued /\ remote' = remote
    BY <1>4 DEF RunLevels
  <2>2. CASE target' = target
    BY <2>1, <2>2, Stutter
  <2>3. CASE target' # target
    <3>1. /\ at = "main" /\ phase = "container"
          /\ target' = [target EXCEPT !["image"] =
                          [id |-> issued, from |-> Verb, content |-> "truncated"]]
      BY <1>4, <2>3 DEF RunLevels, Builder
    <3>2. target["image"].id = 0
      BY <3>1 DEF BuildInv, EmptyBeforeTar, Exists, Absent, Files
    <3>3. target'["image"].id = issued
      BY <3>1 DEF TypeOK, Files
    <3>. QED BY <2>1, <3>2, <3>3 DEF Promised!Next, Promised!Build
  <2>. QED BY <2>2, <2>3
<1>5. CASE UploadAci
  <2>1. issued' = issued /\ target' = target
    BY <1>5 DEF UploadAci
  <2>2. CASE remote' = remote
    BY <2>1, <2>2, Stutter
  <2>3. CASE /\ Exists("image") /\ Exists("gz")
             /\ remote' = remote \cup {[name |-> target["image"].id,
                                       payload |-> target["gz"], sig |-> target["gzasc"]]}
    <3>1. target["gz"].id = target["image"].id /\ target["image"].id # 0
      BY <2>3 DEF BuildInv, SameBuild, Numbered, Files
    <3>2. {u.payload.id : u \in remote'}
            = {u.payload.id : u \in remote} \cup {target["image"].id}
      <4> DEFINE new == [name |-> target["image"].id, payload |-> target["gz"],
                         sig |-> target["gzasc"]]
      <4>1. remote' = remote \cup {new} /\ new.payload.id = target["image"].id
        BY <2>3, <3>1
      <4> HIDE DEF new
      <4>. QED BY <4>1
    <3>. QED BY <2>1, <3>1, <3>2 DEF Promised!Next, Promised!Push
  <2>. QED BY <1>5, <2>2, <2>3 DEF UploadAci
<1>6. CASE TarAci
  <2>1. issued' = issued /\ remote' = remote
    BY <1>6 DEF TarAci
  <2>2. target'["image"].id = target["image"].id
    BY <1>6 DEF TarAci, TypeOK, Files, Artifact
  <2>. QED BY <2>1, <2>2, Stutter
<1>7. CASE SignImage \/ SignZip \/ Gpg \/ Zip \/ ZipCopy
  <2>1. issued' = issued /\ remote' = remote /\ target'["image"] = target["image"]
    BY <1>7 DEF SignImage, SignZip, SignFile, Gpg, GpgFile, Zip, ZipCopy, TypeOK, Files
  <2>. QED BY <2>1, Stutter
<1>8. CASE \/ Sign \/ Install \/ Push \/ Test \/ EnsureBuilt \/ EnsureSign
           \/ EnsureZip \/ EnsureZipSign
  <2>1. issued' = issued /\ remote' = remote /\ target' = target
    BY <1>8 DEF Sign, Install, Push, Test, EnsureBuilt, EnsureSign, EnsureZip,
                EnsureZipSign, Expand
  <2>. QED BY <2>1, Stutter
<1>9. CASE \/ Finish \/ TestFirst \/ BuildTest \/ PrepareStage1 \/ PrepareBuilder
           \/ RunBuilder \/ ExtractManifest \/ CleanupRun \/ Fetch \/ FetchTest
           \/ RunTest \/ RunTestFile \/ EndTests \/ StopTests \/ CleanupTest
           \/ CheckResult \/ UNCHANGED vars
  <2>1. issued' = issued /\ remote' = remote /\ target' = target
    BY <1>9 DEF Finish, TestFirst, BuildTest, PrepareStage1, PrepareBuilder,
                RunBuilder, ExtractManifest, CleanupRun, Fetch, FetchTest, RunTest,
                RunTestFile, EndTests, StopTests, CleanupTest, CheckResult, vars
  <2>. QED BY <2>1, Stutter
<1>. QED
  BY <1>1, <1>2, <1>3, <1>4, <1>5, <1>6, <1>7, <1>8, <1>9 DEF Next, Step

\* As long as os.RemoveAll does not fail halfway, the target directory keeps the
\* promise of Builds: only a build makes an image appear, by the command that
\* runs and where there was none, and what is pushed is the build that is there.
THEOREM BuildsImplemented ==
  ASSUME "rm" \notin Faults
  PROVE  Spec => ImplementsBuilds
<1>1. Init => Promised!Init
  BY DEF Init, Files, Absent, Promised!Init
<1>2. TypeOK /\ BuildInv /\ [Next]_vars => [Promised!Next]_(Promised!vars)
  BY StepPromised
<1>. QED
  BY <1>1, <1>2, TypeCorrect, BuildInvCorrect, PTL
     DEF Spec, ImplementsBuilds, Promised!Spec
============================================================================
