-------------------------------- MODULE Aci --------------------------------
(***************************************************************************)
(* The life of one ACI's target directory under a sequence of dgr          *)
(* commands (dgr/aci.go, dgr/aci-*.go, dgr/command.go).                    *)
(*                                                                         *)
(* Nothing but the files in the target directory tells one dgr process     *)
(* what an earlier one did: EnsureBuilt, EnsureSign, EnsureZip and         *)
(* EnsureZipSign look only at whether a file exists.  The module follows   *)
(* those files, the rkt store and the remote storage through every method  *)
(* a command runs, with the errors, the deferred clean-ups, a kill at any  *)
(* point and the partial results of tar, gzip, rm and the test container.  *)
(*                                                                         *)
(* A command is executed by a stack of pending method calls; a run of the  *)
(* builder, of gzip, of gpg or of the tests is followed by phase.          *)
(***************************************************************************)
EXTENDS Naturals, Sequences

CONSTANTS
  Commands,     \* the command lines the user may type
  MaxCommands,  \* bound on the number of commands typed
  Faults,       \* what may go wrong beyond a reported error
  NumTests,     \* how many bats files the ACI's tests directory has
  BuilderDeps   \* whether the manifest gives the builder dependencies

Names == {"build", "try", "init", "clean", "sign", "install", "push", "test"}

\* A command line: the verb, whether it is a sub-command of "clean", the
\* flags --test, --no-test-fail and --keep-builder, and whether config.yml
\* enables signing for the domain when it runs.
CommandType ==
  {c \in [name : Names, clean : BOOLEAN, test : BOOLEAN, noTestFail : BOOLEAN,
          keep : BOOLEAN, sign : BOOLEAN] :
     /\ c.clean => c.name \in {"install", "push", "test", "build", "try", "sign"}
     /\ c.test => c.name \in {"install", "push"}
     /\ c.noTestFail => c.name \in {"install", "push", "test"}
     /\ c.keep => c.name \in {"build", "test"}}

(***************************************************************************)
(* Faults: "kill" ends the process at any point; "tar" and "gzip" leave a  *)
(* truncated file; "gpg" leaves a signature that is cut off when it fails; *)
(* "rm" makes os.RemoveAll remove only part of the target;                 *)
(* "imageRm" makes the removal from rkt fail; "stop" ends the test         *)
(* container early with a status rkt reports as success.                   *)
(***************************************************************************)
FaultKinds == {"kill", "tar", "gzip", "gpg", "rm", "imageRm", "stop"}

ASSUME AciAssumption == /\ Commands \subseteq CommandType
                        /\ MaxCommands \in Nat
                        /\ Faults \subseteq FaultKinds
                        /\ NumTests \in Nat
                        /\ BuilderDeps \in BOOLEAN

\* image.aci, image.aci.asc, image.gz.aci and image.gz.aci.asc
Files == {"image", "asc", "gz", "gzasc"}

\* What a file holds: the builder run it stems from (numbered by the command
\* that made it), the builder command of that run, and whether all of it was
\* written.  A signature holds what it signs, or is "cut": gpg has not written
\* all of it.
Artifact == [id : Nat, from : {"none", "build", "try", "init"},
             content : {"none", "truncated", "whole", "cut"}]
Absent   == [id |-> 0, from |-> "none", content |-> "none"]

\* What a command leaves in rkt for its own use, and must remove.  "tested" is
\* the image under test, which Test had Install fetch.
Kinds     == {"stage1", "builder", "buildpod", "tested", "tester", "testpod"}

Upload == [name : Nat, payload : Artifact, sig : Artifact]

\* The test files, in the order test.sh runs them.
Tests    == 1..NumTests
Verdicts == {"none", "empty", "pass", "fail"}

Calls == {"Clean", "CleanAndRun", "Sign", "Install", "Push",
          "Test", "EnsureBuilt", "EnsureSign", "EnsureZip", "EnsureZipSign",
          "TestFirst", "SignImage", "SignZip", "Zip", "Fetch", "Upload",
          "BuildTest", "FetchTest", "RunTest", "CheckResult"}

Phases == {"none", "stage1", "builder", "prepared", "container", "tar",
           "extract", "cleanup", "zip", "gpg", "testing", "testcleanup"}

VARIABLES
  target,     \* the four image files of the target directory
  results,    \* target/tests-result: the result and status of each test file
  ended,      \* whether target/tests-result/end-of-tests exists
  temps,      \* what the command has put into rkt for itself
  installed,  \* images installed in the rkt store
  remote,     \* what the remote storage received
  command,    \* the command line of the last command
  issued,     \* how many commands were typed
  testFlag,   \* aci.args.Test
  outcome,    \* state of the last command
  calls,      \* the pending method calls, the next one first
  phase,      \* where the running builder, gzip, gpg or test container is
  at,         \* target of the running builder: the ACI's or the test ACI's
  failed,     \* whether an error is being returned up the calls
  nextTest,   \* the test file the test container runs next
  testRun     \* how the last test container of this command ended

disk    == <<target, results, ended>>
store   == <<temps, installed>>
session == <<command, issued, testFlag, outcome>>
machine == <<calls, phase, at, failed>>
tests   == <<nextTest, testRun>>
vars    == <<disk, store, remote, session, machine, tests>>

Exists(f) == target[f] # Absent
Running   == outcome = "running"

\* BuilderCommand of RunBuilderCommand: only try and init ask for another
\* command than build.
Verb == IF command.name \in {"try", "init"} THEN command.name ELSE "build"

(***************************************************************************)
(* The bodies of the methods, as the calls they make.  A definition that   *)
(* stands just above another one and changes it by one detail is a         *)
(* mutation of the code, used to check that a property notices it.         *)
(***************************************************************************)
SignCalls    == <<"EnsureBuilt", "SignImage">>
InstallCallsFetchFirst == <<"EnsureSign", "Fetch", "TestFirst">>
InstallCalls == <<"EnsureSign", "TestFirst", "Fetch">>
PushCalls    == <<"EnsureBuilt", "TestFirst", "EnsureZipSign", "Upload">>
TestCalls    == <<"Install", "BuildTest", "FetchTest", "RunTest", "CheckResult">>

\* What the cobra command of c runs.
CommandCalls(c) ==
  CASE c.name \in {"build", "try"} -> <<"CleanAndRun">>
    [] c.name = "init"             -> <<"CleanAndRun", "Clean">>
    [] c.name = "clean"            -> <<"Clean">>
    [] c.name = "sign"             -> <<"Sign">>
    [] c.name = "install"          -> <<"Install">>
    [] c.name = "push"             -> <<"Push">>
    [] c.name = "test"             -> <<"Test">>

\* "dgr clean X" cleans before X; "clean build" and "clean try" are the plain
\* build and try, which clean anyway.
NoCleanFirst(c) == <<>>
CleanFirst(c) ==
  IF c.clean /\ c.name \notin {"build", "try"} THEN <<"Clean">> ELSE <<>>

\* aci.args.Test once Install or Push has decided to test.
FlagKept      == testFlag
FlagAfterTest == FALSE

\* The directory under which buildTestAci builds.
SameTarget == "main"
TestTarget == "tests"

\* The images cleanupRun removes from rkt.
OnlyBuilderImage == {"builder"}
BuilderImages    == {"builder", "stage1"}

\* The calls left after an error: Init cleans whatever RunBuilderCommand says.
Unwind == IF command.name = "init" THEN <<"Clean">> ELSE <<>>

----------------------------------------------------------------------------
Init == /\ target = [f \in Files |-> Absent]
        /\ results = [t \in Tests |-> "none"] /\ ended = FALSE
        /\ temps = {} /\ installed = {} /\ remote = {}
        /\ command = [name |-> "clean", clean |-> FALSE, test |-> FALSE,
                      noTestFail |-> FALSE, keep |-> FALSE, sign |-> FALSE]
        /\ issued = 0 /\ testFlag = FALSE /\ outcome = "none"
        /\ calls = <<>> /\ phase = "none" /\ at = "main" /\ failed = FALSE
        /\ nextTest = 1 /\ testRun = "none"

\* The user types a command.
Start(c) ==
  /\ ~Running /\ issued < MaxCommands
  /\ command' = c /\ issued' = issued + 1 /\ testFlag' = c.test
  /\ outcome' = "running"
  /\ calls' = CleanFirst(c) \o CommandCalls(c)
  /\ phase' = "none" /\ at' = "main" /\ failed' = FALSE
  /\ nextTest' = 1 /\ testRun' = "none"
  /\ temps' = {}
  /\ UNCHANGED <<disk, installed, remote>>

\* The command returns: nil, or an error that main reports and exits 1 with.
Finish ==
  /\ Running /\ calls = <<>> /\ phase = "none"
  /\ outcome' = IF failed THEN "error" ELSE "ok"
  /\ UNCHANGED <<disk, store, remote, command, issued, testFlag, machine, tests>>

----------------------------------------------------------------------------
(* Calls *)

Calling(op) == Running /\ phase = "none" /\ calls # <<>> /\ Head(calls) = op

Return == calls' = Tail(calls) /\ UNCHANGED <<phase, at, failed>>

\* An error returned by a method: every caller returns it in turn.
Fail == /\ calls' = Unwind /\ phase' = "none" /\ at' = "main" /\ failed' = TRUE

\* A method that only calls other methods.
Expand(op, body) ==
  /\ Calling(op)
  /\ calls' = body \o Tail(calls)
  /\ UNCHANGED <<phase, at, failed, disk, store, remote, session, tests>>

Sign          == Expand("Sign", SignCalls)
Install       == Expand("Install", InstallCalls)
Push          == Expand("Push", PushCalls)
Test          == Expand("Test", TestCalls)
EnsureBuilt   == Expand("EnsureBuilt",
                        IF Exists("image") THEN <<>> ELSE <<"CleanAndRun">>)
EnsureSign    == Expand("EnsureSign",
                        IF Exists("asc") THEN <<>> ELSE <<"Sign">>)
EnsureZip     == Expand("EnsureZip",
                        IF Exists("gz") THEN <<>> ELSE <<"EnsureBuilt", "Zip">>)
EnsureZipSign == Expand("EnsureZipSign",
                        IF Exists("gzasc") THEN <<>> ELSE <<"EnsureZip", "SignZip">>)

\* Install and Push under --test: the flag is reset before Test, which calls
\* Install again.
TestFirst ==
  /\ Calling("TestFirst")
  /\ testFlag' = FlagAfterTest
  /\ calls' = (IF testFlag THEN <<"Test">> ELSE <<>>) \o Tail(calls)
  /\ UNCHANGED <<phase, at, failed, disk, store, remote, command, issued, outcome, tests>>

(***************************************************************************)
(* os.RemoveAll of the target.  It removes everything; when it cannot      *)
(* ("rm"), or when the process is killed on the way, some files stay.      *)
(***************************************************************************)
Leave(files, keepResults) ==
  /\ target' = [f \in Files |-> IF f \in files THEN target[f] ELSE Absent]
  /\ IF keepResults
       THEN UNCHANGED <<results, ended>>
       ELSE results' = [t \in Tests |-> "none"] /\ ended' = FALSE

RemoveImageOnly       == Leave({"asc", "gz", "gzasc"}, FALSE)
RemoveKeepsSignatures == Leave({"asc", "gzasc"}, FALSE)
RemoveKeepsZips       == Leave({"gz", "gzasc"}, FALSE)

RemoveTarget == \/ Leave({}, FALSE)
                \/ /\ "rm" \in Faults
                   /\ \E files \in SUBSET Files, keep \in BOOLEAN : Leave(files, keep)

\* Clean: a failure to remove is only logged.
Clean ==
  /\ Calling("Clean")
  /\ RemoveTarget
  /\ Return
  /\ UNCHANGED <<store, remote, session, tests>>

----------------------------------------------------------------------------
(* RunBuilderCommand *)

Builder(ps) == Running /\ phase = ps

Advance(ps) == phase' = ps /\ UNCHANGED <<calls, at, failed>>

\* The error paths between the registration of the deferred cleanupRun and
\* its execution.
RetryContainer(ps) == phase' = "prepared" /\ UNCHANGED <<calls, at, failed>>
Abort(ps) == phase' = ps /\ failed' = TRUE /\ UNCHANGED <<calls, at>>

\* CleanAndBuild, CleanAndTry and Init: Clean, then RunBuilderCommand.
CleanAndRun ==
  /\ Calling("CleanAndRun")
  /\ RemoveTarget
  /\ calls' = Tail(calls) /\ phase' = "stage1" /\ at' = "main"
  /\ UNCHANGED <<failed, store, remote, session, tests>>

\* buildTestAci: the manifest of image.aci, then CleanAndBuild of an ACI whose
\* target is tests-target.  From here on it is for Test to remove the image its
\* Install fetched; cleanupTest, which does, is deferred by runTestAci only.
BuildTest ==
  /\ Calling("BuildTest")
  /\ temps' = temps \cup {"tested"}
  /\ \/ /\ Exists("image")
        /\ calls' = Tail(calls) /\ phase' = "stage1" /\ at' = TestTarget
        /\ UNCHANGED failed
     \/ Fail
  /\ UNCHANGED <<disk, installed, remote, session, tests>>

\* The target directory, the manifest template and prepareStage1aci.
PrepareStage1 ==
  /\ Builder("stage1")
  /\ \/ /\ temps' = IF BuilderDeps THEN temps \cup {"stage1"} ELSE temps
        /\ Advance("builder")
     \/ Fail /\ UNCHANGED temps
  /\ UNCHANGED <<disk, installed, remote, session, tests>>

\* prepareBuildAci.  cleanupRun is deferred only once it has succeeded.
PrepareBuilder ==
  /\ Builder("builder")
  /\ \/ temps' = temps \cup {"builder"} /\ Advance("prepared")
     \/ Fail /\ UNCHANGED temps
  /\ UNCHANGED <<disk, installed, remote, session, tests>>

\* rkt run: the build pod exists from here on.
RunBuilder ==
  /\ Builder("prepared")
  /\ \/ temps' = temps \cup {"buildpod"} /\ Advance("container")
     \/ Abort("cleanup") /\ UNCHANGED temps
  /\ UNCHANGED <<disk, installed, remote, session, tests>>

\* The builder command ran; tar opens image.aci whatever the command was.
RunLevels ==
  /\ Builder("container")
  /\ \/ /\ target' = IF at = "main"
                       THEN [target EXCEPT !["image"] =
                               [id |-> issued, from |-> Verb, content |-> "truncated"]]
                       ELSE target
        /\ Advance("tar")
     \/ Abort("cleanup") /\ UNCHANGED target
  /\ UNCHANGED <<results, ended, store, remote, session, tests>>

TarAci ==
  /\ Builder("tar")
  /\ \/ /\ target' = IF at = "main"
                       THEN [target EXCEPT !["image"] = [@ EXCEPT !.content = "whole"]]
                       ELSE target
        /\ Advance("extract")
     \/ "tar" \in Faults /\ Abort("cleanup") /\ UNCHANGED target
  /\ UNCHANGED <<results, ended, store, remote, session, tests>>

\* manifest.json and version are written from the manifest of image.aci.
ExtractManifest ==
  /\ Builder("extract")
  /\ Advance("cleanup") \/ Abort("cleanup")
  /\ UNCHANGED <<disk, store, remote, session, tests>>

\* rkt rm and rkt image rm: a failure is only logged.
RemoveTemps(ks) ==
  \E gone \in SUBSET ks :
    /\ gone = ks \/ "imageRm" \in Faults
    /\ temps' = temps \ gone

\* The deferred cleanupRun, and the return of RunBuilderCommand.
CleanupRun ==
  /\ Builder("cleanup")
  /\ RemoveTemps(BuilderImages \cup (IF command.keep THEN {} ELSE {"buildpod"}))
  /\ IF failed THEN Fail ELSE Advance("none")
  /\ UNCHANGED <<disk, installed, remote, session, tests>>

----------------------------------------------------------------------------
(* Signing and zipping *)

\* signFile(f) up to where gpg --output has created the file for the
\* signature.  gpg fails on a file that is not there.
SignFile(op, f, sig) ==
  /\ Calling(op)
  /\ \/ /\ command.sign /\ Exists(f)
        /\ target' = [target EXCEPT ![sig] = [target[f] EXCEPT !.content = "cut"]]
        /\ Advance("gpg")
     \/ ~command.sign /\ Return /\ UNCHANGED target
     \/ command.sign /\ Fail /\ UNCHANGED target
  /\ UNCHANGED <<results, ended, store, remote, session, tests>>

SignImage == SignFile("SignImage", "image", "asc")
SignZip   == SignFile("SignZip", "gz", "gzasc")

\* gpg completes the signature; when it fails it takes its output away, unless
\* it was interrupted itself.
GpgFile(op, f, sig) ==
  /\ Builder("gpg") /\ calls # <<>> /\ Head(calls) = op
  /\ \/ /\ target' = [target EXCEPT ![sig] = target[f]]
        /\ calls' = Tail(calls) /\ phase' = "none" /\ UNCHANGED <<at, failed>>
     \/ /\ target' = [target EXCEPT ![sig] = Absent]
        /\ Fail
     \/ "gpg" \in Faults /\ Fail /\ UNCHANGED target
  /\ UNCHANGED <<results, ended, store, remote, session, tests>>

Gpg == GpgFile("SignImage", "image", "asc") \/ GpgFile("SignZip", "gz", "gzasc")

\* zipAci up to os.Create, which leaves an empty image.gz.aci.
Zip ==
  /\ Calling("Zip")
  /\ \/ Exists("gz") /\ Return /\ UNCHANGED target
     \/ /\ ~Exists("gz") /\ Exists("image")
        /\ target' = [target EXCEPT !["gz"] = [target["image"] EXCEPT !.content = "truncated"]]
        /\ calls' = Tail(calls) /\ phase' = "zip" /\ UNCHANGED <<at, failed>>
     \/ ~Exists("gz") /\ Fail /\ UNCHANGED target
  /\ UNCHANGED <<results, ended, store, remote, session, tests>>

\* io.Copy and the deferred Close calls.  An error of io.Copy is returned and
\* the file stays; an error of Close is dropped.
ZipCopy ==
  /\ Builder("zip")
  /\ \/ /\ target' = [target EXCEPT !["gz"] = target["image"]]
        /\ Advance("none")
     \/ "gzip" \in Faults /\ (Advance("none") \/ Fail) /\ UNCHANGED target
  /\ UNCHANGED <<results, ended, store, remote, session, tests>>

----------------------------------------------------------------------------
(* Installing, testing and pushing *)

\* rkt fetch of image.aci.
Fetch ==
  /\ Calling("Fetch")
  /\ \/ /\ Exists("image") /\ installed' = installed \cup {target["image"]}
        /\ Return
     \/ Fail /\ UNCHANGED installed
  /\ UNCHANGED <<disk, temps, remote, session, tests>>

\* rkt fetch of tests-target/image.aci.
FetchTest ==
  /\ Calling("FetchTest")
  /\ \/ /\ temps' = temps \cup {"tester"}
        /\ calls' = Tail(calls) /\ at' = "main" /\ UNCHANGED <<phase, failed>>
     \/ Fail /\ UNCHANGED temps
  /\ UNCHANGED <<disk, installed, remote, session, tests>>

\* runTestAci: tests-result is created, never emptied.  cleanupTest is deferred.
RunTest ==
  /\ Calling("RunTest")
  /\ calls' = Tail(calls)
  /\ \/ /\ temps' = temps \cup {"testpod"}
        /\ phase' = "testing" /\ nextTest' = 1 /\ testRun' = "running"
        /\ UNCHANGED failed
     \/ /\ phase' = "testcleanup" /\ failed' = TRUE
        /\ UNCHANGED <<temps, nextTest, testRun>>
  /\ UNCHANGED <<at, disk, installed, remote, session>>

\* Whether the loop of test.sh over the test files goes on.
MoreTestsOffByOne == nextTest <= NumTests + 1
MoreTests         == nextTest <= NumTests

\* test.sh runs one bats file and writes its result and its status.
RunTestFile ==
  /\ Builder("testing") /\ MoreTests
  /\ \E v \in {"empty", "pass", "fail"} : results' = [results EXCEPT ![nextTest] = v]
  /\ nextTest' = nextTest + 1
  /\ UNCHANGED <<target, ended, store, remote, session, machine, testRun>>

\* test.sh ends with touch end-of-tests, whatever the results.
EndTests ==
  /\ Builder("testing") /\ ~MoreTests
  /\ ended' = TRUE
  /\ testRun' = IF \E t \in Tests : results[t] = "fail" THEN "failed" ELSE "passed"
  /\ Advance("testcleanup")
  /\ UNCHANGED <<target, results, store, remote, session, nextTest>>

\* The test container stops before the end.
StopTests ==
  /\ Builder("testing")
  /\ testRun' = "stopped"
  /\ Abort("testcleanup") \/ ("stop" \in Faults /\ Advance("testcleanup"))
  /\ UNCHANGED <<disk, store, remote, session, nextTest>>

\* The deferred cleanupTest: the image Install put in the store goes as well.
CleanupTest ==
  /\ Builder("testcleanup")
  /\ RemoveTemps({"tested", "tester"} \cup (IF command.keep THEN {} ELSE {"testpod"}))
  /\ installed' = IF "tested" \in temps' THEN installed ELSE installed \ {target["image"]}
  /\ IF failed THEN Fail ELSE Advance("none")
  /\ UNCHANGED <<disk, remote, session, tests>>

\* checkResult reads every file of tests-result; it fails as well when it cannot.
ResultIgnoresStatus == ended
ResultIgnoresEnd    == \A t \in Tests : results[t] # "fail"
ResultAccepted ==
  /\ \A t \in Tests : results[t] # "fail"
  /\ ended
  /\ command.noTestFail => \E t \in Tests : results[t] \in {"pass", "fail"}

CheckResult ==
  /\ Calling("CheckResult")
  /\ (ResultAccepted /\ Return) \/ Fail
  /\ UNCHANGED <<disk, store, remote, session, tests>>

\* The name comes from the manifest of image.aci, the payload is image.gz.aci,
\* with image.gz.aci.asc when it exists.  An upload that fails may have been
\* accepted none the less: see Uploader.
UploadAci ==
  /\ Calling("Upload")
  /\ \/ /\ Exists("image") /\ Exists("gz")
        /\ remote' = remote \cup {[name |-> target["image"].id,
                                  payload |-> target["gz"], sig |-> target["gzasc"]]}
        /\ Return \/ Fail
     \/ Fail /\ UNCHANGED remote
  /\ UNCHANGED <<disk, store, session, tests>>

----------------------------------------------------------------------------
\* The process is killed: nothing deferred runs, and a removal under way
\* stops where it is.
Cleaning == phase = "none" /\ calls # <<>> /\ Head(calls) \in {"Clean", "CleanAndRun"}

Kill ==
  /\ "kill" \in Faults /\ Running
  /\ \/ UNCHANGED disk
     \/ Cleaning /\ \E files \in SUBSET Files, keep \in BOOLEAN : Leave(files, keep)
  /\ outcome' = "killed"
  /\ calls' = <<>> /\ phase' = "none" /\ at' = "main" /\ failed' = FALSE
  /\ UNCHANGED <<store, remote, command, issued, testFlag, tests>>

\* A step of the running command.
Step ==
  \/ Finish \/ Sign \/ Install \/ Push \/ Test
  \/ EnsureBuilt \/ EnsureSign \/ EnsureZip \/ EnsureZipSign \/ TestFirst
  \/ Clean \/ CleanAndRun \/ BuildTest
  \/ PrepareStage1 \/ PrepareBuilder \/ RunBuilder \/ RunLevels \/ TarAci
  \/ ExtractManifest \/ CleanupRun
  \/ SignImage \/ SignZip \/ Gpg \/ Zip \/ ZipCopy
  \/ Fetch \/ FetchTest \/ RunTest \/ RunTestFile \/ EndTests \/ StopTests
  \/ CleanupTest \/ CheckResult \/ UploadAci

Next == (\E c \in Commands : Start(c)) \/ Step \/ Kill

Spec     == Init /\ [][Next]_vars
LiveSpec == Spec /\ WF_vars(Step)

----------------------------------------------------------------------------
(* Properties *)

\* Every variable holds what the code can put there; the call stack is a
\* sequence of pending method calls and nextTest stays within the test files.
TypeOK ==
  /\ target \in [Files -> Artifact]
  /\ results \in [Tests -> Verdicts] /\ ended \in BOOLEAN
  /\ temps \in SUBSET Kinds /\ installed \in SUBSET Artifact
  /\ remote \in SUBSET Upload
  /\ command \in CommandType /\ issued \in Nat /\ testFlag \in BOOLEAN
  /\ outcome \in {"none", "running", "ok", "error", "killed"}
  /\ calls \in Seq(Calls) /\ phase \in Phases /\ at \in {"main", "tests"}
  /\ failed \in BOOLEAN
  /\ nextTest \in 1..(NumTests + 1)
  /\ testRun \in {"none", "running", "stopped", "failed", "passed"}

\* All the image files of the target stem from one run of the builder: no
\* sequence of commands, errors, truncated writes and kills leaves the
\* signature or the zip of one build next to the image of another, although
\* every Ensure method trusts a file because it exists (aci-build.go:237-275).
SameBuild ==
  \A f, g \in Files : Exists(f) /\ Exists(g) => target[f].id = target[g].id

\* RunBuilderCommand always works on an emptied target: whichever way a command
\* came to build, image.aci is written when none of the four files is there
\* (aci-build.go:115-123, aci-try.go:5-8, aci-init.go:10-11).
EmptyBeforeTar ==
  at = "main" /\ phase \in {"stage1", "builder", "prepared", "container"}
  => \A f \in Files : ~Exists(f)

TarHasImage == at = "main" /\ phase = "tar" => Exists("image")

\* Files are numbered by a command that was typed.
Numbered == /\ Running => issued > 0
            /\ \A f \in Files : Exists(f) => target[f].id \in 1..issued

\* Why SameBuild is preserved: its inductive strengthening.
BuildInv == SameBuild /\ EmptyBeforeTar /\ TarHasImage /\ Numbered

\* gpg may be stopped before the signature is complete, by a kill of dgr and of
\* what it started, or on its own.
GpgInterrupted == Faults \cap {"kill", "gpg"} # {}

Verified(sig, f) ==
  IF target[sig].content = "cut"
    THEN GpgInterrupted \/ phase = "gpg"
    ELSE Exists(sig) /\ Exists(f) => target[sig] = target[f]

\* A detached signature next to its file is a signature of that very content,
\* truncated or not, although EnsureSign and EnsureZipSign never look at the
\* content (aci-build.go:246-262); only an interrupted gpg leaves one that is cut
\* off (aci-sign.go:37-38).
SignaturesVerify == Verified("asc", "image") /\ Verified("gzasc", "gz")

\* What a push sends belongs together: the name read in image.aci, the payload
\* read in image.gz.aci and the signature, if gpg completed it
\* (aci-push.go:27-36).
RemoteConsistent ==
  \A u \in remote :
    /\ u.name = u.payload.id
    /\ u.sig \in {Absent, u.payload} \/ (GpgInterrupted /\ u.sig.content = "cut")

\* "dgr push: use already built aci in target directory" (README.md:53): what
\* is pushed was made by the build command of the builder.
PublishedBuilt == \A u \in remote : u.payload.from = "build"

\* What an error may leave in rkt: the stage1 image, because RunBuilderCommand
\* defers cleanupRun after prepareBuildAci, too late for a failure of the latter
\* (aci-build.go:58-69), and the image under test when the ACI that tests it
\* was not built, because cleanupTest is deferred by runTestAci
\* (aci-test.go:33-36, 91).
Leaked == {"stage1"} \cup (IF testRun = "none" THEN {"tested"} ELSE {})

\* A command leaves none of its own images and pods in rkt, but what Leaked says
\* when it returns an error.
CleanedUp ==
  LET kept == IF command.keep THEN {"buildpod", "testpod"} ELSE {}
  IN /\ outcome = "ok" => temps \subseteq kept
     /\ outcome = "error" => temps \subseteq kept \cup Leaked

\* "dgr install" that succeeds leaves the image in the store, also with --test,
\* where Test removes the image again from the store (aci-install.go:10-24).
InstallPersists ==
  outcome = "ok" /\ command.name = "install" => target["image"] \in installed

\* The mutual recursion of Install, Push and Test ends: the stack of pending
\* calls stays below the depth of the deepest legal nesting (aci-push.go:20-22,
\* aci-install.go:13-15, aci-test.go:23).
NestingBounded == Len(calls) <= 10

\* "dgr clean push", "clean install" and "clean test" work on an image built by
\* this very command and push nothing older (README.md:48-51), and "dgr build"
\* that succeeds leaves a complete one.
FreshAfterClean ==
  [][/\ command.clean => \A u \in remote' \ remote : u.payload.id = issued
     /\ /\ Running /\ outcome' = "ok"
        /\ command.name = "build" \/ (command.clean /\ command.name # "try")
        => target["image"] = [id |-> issued, from |-> "build", content |-> "whole"]
    ]_vars

\* "Something goes wrong while running tests" (aci-test.go:79) is returned when
\* the test container did not get to the end.
IncompleteRunReported ==
  [][Calling("CheckResult") /\ testRun = "stopped" => failed']_vars

\* Under --test, and for "dgr test", nothing is pushed and no success is
\* reported unless a test container of this command ran all the tests and none
\* failed (aci-push.go:20-25, aci-install.go:13-18, aci-test.go:50-86).
GatedByTests ==
  [][/\ remote' # remote /\ command.test => testRun = "passed"
     /\ /\ Running /\ outcome' = "ok"
        /\ command.test \/ command.name = "test"
        => testRun = "passed"
    ]_vars

\* Without clean, install, push, test and sign use the image that is there
\* (README.md:52-54): they never touch one an earlier command made, although
\* test builds another ACI below the same target.
AlreadyBuiltKept ==
  [][/\ Running /\ ~command.clean
     /\ command.name \in {"install", "push", "test", "sign"}
     /\ Exists("image") /\ target["image"].id # issued
     => target'["image"] = target["image"]]_vars

\* What the commands promise about builds, whatever the files: see Builds.
Promised == INSTANCE Builds
              WITH last    <- issued,
                   built   <- target["image"].id,
                   shipped <- {u.payload.id : u \in remote}

\* The target directory implements the promise: only a build makes an image
\* appear, and what is pushed is the build that is there (aci-push.go:16-36).
ImplementsBuilds == Promised!Spec

\* Every command returns, provided what it runs in rkt, gpg and curl returns.
Terminates == Running ~> ~Running
============================================================================
