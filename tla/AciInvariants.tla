---------------------------- MODULE AciInvariants ----------------------------
(***************************************************************************)
(* Why the properties of Aci hold: what is true at every step of a         *)
(* command, told from the calls that are still pending.  Each invariant    *)
(* here is inductive together with the ones above it and TypeOK.           *)
(***************************************************************************)
EXTENDS Aci

Pending(ops) == \E n \in DOMAIN calls : calls[n] \in ops
NextIs(ops)  == phase = "none" /\ calls # <<>> /\ Head(calls) \in ops

----------------------------------------------------------------------------
(* The stack of calls *)

\* How high the stack gets, counted from a call, until that call has returned.
Depth(op) ==
  IF op \in {"Sign", "EnsureSign", "EnsureZip"}     THEN 2
  ELSE IF op = "EnsureZipSign"                      THEN 3
  ELSE IF op = "Test"                               THEN 8
  ELSE IF op = "TestFirst" /\ testFlag              THEN 8
  ELSE IF op = "Install"                            THEN IF testFlag THEN 9 ELSE 4
  ELSE IF op = "Push"                               THEN IF testFlag THEN 10 ELSE 4
  ELSE 1

\* Whether a call will start a test container.
MayTest(op) == \/ op \in {"Test", "RunTest"}
               \/ testFlag /\ op \in {"TestFirst", "Install", "Push"}

\* What the next call in the body of Test is.
Follows(op) == IF op = "BuildTest" THEN "FetchTest" ELSE "RunTest"

\* The calls below a call of Push, and the calls beside one of Test.
InPlace(n) ==
  /\ calls[n] \in {"Push", "Upload"} => n = Len(calls)
  /\ calls[n] \in {"EnsureZipSign", "SignZip"} => n = Len(calls) - 1
  /\ calls[n] \in {"EnsureZip", "Zip"} => n = Len(calls) - 2
  /\ calls[n] \in {"BuildTest", "FetchTest"} =>
       n < Len(calls) /\ calls[n + 1] = Follows(calls[n])
  /\ calls[n] = "CheckResult" /\ n > 1 => calls[n - 1] = "RunTest"

\* No call that is pending needs more room than there is, a command runs at
\* most one test container, and the bodies of Push and Test stay in order.
StackInv ==
  /\ \A n \in DOMAIN calls : Len(calls) - n + Depth(calls[n]) <= 10
  /\ testFlag => ~Pending({"Test"})
  /\ \A m, n \in DOMAIN calls : MayTest(calls[m]) /\ MayTest(calls[n]) => m = n
  /\ \A n \in DOMAIN calls : InPlace(n)

\* An error is on its way up: what is called then are the deferred clean-ups,
\* and the Clean of Init.
FailInv ==
  /\ failed => phase \in {"none", "cleanup", "testcleanup"}
  /\ failed /\ phase = "none" => \A n \in DOMAIN calls : calls[n] = "Clean"

----------------------------------------------------------------------------
(* Signatures and uploads *)

\* A signature is only cut off while gpg writes it, or after that was interrupted.
CutBy(sig, op) ==
  target[sig].content = "cut" =>
    GpgInterrupted \/ (phase = "gpg" /\ calls # <<>> /\ Head(calls) = op)

\* image.gz.aci is only written while it has no signature, and image.aci while
\* nothing else is there.
SignInv ==
  /\ SignaturesVerify
  /\ CutBy("asc", "SignImage") /\ CutBy("gzasc", "SignZip")
  /\ target["image"].content # "cut" /\ target["gz"].content # "cut"
  /\ phase = "gpg" => Running
  /\ phase = "tar" /\ at = "main" => ~Exists("asc")
  /\ phase = "zip" \/ Pending({"EnsureZip", "Zip"}) => ~Exists("gzasc")

----------------------------------------------------------------------------
(* The gate of the tests *)

\* A call that sees to the tests, and says when they have not passed.
Gate(op) == \/ op \in {"Test", "CheckResult"}
            \/ testFlag /\ op \in {"TestFirst", "Install", "Push"}

\* Whether the command promises tests.
Promises == command.test \/ command.name = "test"

\* What checkResult is called on.
Judged == \/ testRun = "passed"
          \/ testRun = "failed" /\ \E t \in Tests : results[t] = "fail"
          \/ testRun = "stopped" /\ ~ended

\* No end-of-tests is left from an earlier command.
CleanTests == /\ command.clean
              /\ testRun \in {"none", "running"} => ~ended \/ NextIs({"Clean"})

\* What early ends of the test container demand for GatedByTests: see
\* aci_stale_end for what happens otherwise.
GateAssumption ==
  "stop" \in Faults => /\ "rm" \notin Faults
                       /\ \A c \in Commands : c.test \/ c.name = "test" => c.clean

TestPending == \E n \in DOMAIN calls : MayTest(calls[n])
GatePending == \E n \in DOMAIN calls : Gate(calls[n])
JudgeNext   == calls # <<>> /\ Head(calls) = "CheckResult"

\* A command starts at most one test container, after it has built the ACI that
\* tests.
OnceInv == /\ phase = "testing" => testRun # "none"
           /\ testRun # "none" => ~TestPending
           /\ at = "tests" => Pending({"RunTest"}) /\ calls # <<>> /\ calls[1] = "FetchTest"

\* A command that promises tests has passed them, or has a call pending that
\* sees to them; only such a command tests.
GateInv ==
  /\ phase = "testing" \/ TestPending => Promises
  /\ phase = "testing" => testRun = "running"
  /\ Running /\ Promises /\ ~failed => testRun = "passed" \/ GatePending
  /\ Running /\ ~failed /\ phase # "testing" =>
       (phase = "testcleanup" \/ JudgeNext => Judged)
  /\ Running /\ Promises /\ "stop" \in Faults => CleanTests

----------------------------------------------------------------------------
(* What stays in rkt *)

\* When an image or a pod of the command may be in rkt.
Used(k) ==
  \/ k = "stage1" /\ \/ phase \in {"builder", "prepared", "container", "tar", "extract", "cleanup"}
                     \/ phase = "none" /\ failed
  \/ k = "builder"  /\ phase \in {"prepared", "container", "tar", "extract", "cleanup"}
  \/ k = "buildpod" /\ phase \in {"container", "tar", "extract", "cleanup"}
  \/ k = "tested"   /\ \/ phase \in {"testing", "testcleanup"} \/ NextIs({"RunTest"})
                       \/ at = "tests"
                       \/ phase = "none" /\ failed /\ testRun = "none"
  \/ k = "tester"   /\ (phase \in {"testing", "testcleanup"} \/ NextIs({"RunTest"}))
  \/ k = "testpod"  /\ phase \in {"testing", "testcleanup"}

Kept == IF command.keep THEN {"buildpod", "testpod"} ELSE {}

TempsInv == /\ CleanedUp
            /\ Running => \A k \in temps : k \in Kept \/ Used(k)

\* "dgr install" ends with rkt fetch.
FetchInv ==
  Running /\ command.name = "install" /\ ~failed =>
    IF calls = <<>> THEN phase = "none" /\ target["image"] \in installed
                    ELSE calls[Len(calls)] \in {"Install", "Fetch"}

----------------------------------------------------------------------------
(* Which image a command works on *)

\* Calls that make the image or fail without one.
Needs == {"CleanAndRun", "EnsureBuilt", "Sign", "Install", "Push", "Test", "BuildTest",
          "Fetch", "Upload"}

Building == at = "main" /\ phase \in {"stage1", "builder", "prepared", "container"}

\* A command that is to end with an image has one, is making one, or has a
\* call pending that will see to it; Clean only comes first.
ImageInv ==
  Running /\ ~failed /\ command.name \notin {"clean", "init"} =>
    /\ Exists("image") \/ Building \/ Pending(Needs)
    /\ Pending({"Clean"}) => Len(calls) = 2 /\ calls[1] = "Clean" /\ calls[2] \in Needs

\* After the clean of "dgr clean X" or of build, every file is made by the
\* command, and its image is complete.
FreshFiles ==
  /\ \A f \in Files : Exists(f) => target[f].id = issued /\ target[f].from = Verb
  /\ Exists("image") /\ ~failed /\ ~(phase = "tar" /\ at = "main") => target["image"].content = "whole"

FreshInv ==
  Running /\ (command.clean \/ command.name = "build") =>
    FreshFiles \/ NextIs({"Clean", "CleanAndRun"})

\* A command that uses what is there cleans and builds only without an image.
UsesBuilt == ~command.clean /\ command.name \in {"install", "push", "test", "sign"}

KeptInv ==
  Running /\ UsesBuilt =>
  /\ ~Pending({"Clean"})
  /\ \A n \in DOMAIN calls :
       calls[n] = "CleanAndRun" => n = 1 /\ phase = "none" /\ ~Exists("image")
  /\ Building => ~Exists("image")
  /\ phase = "tar" /\ at = "main" => target["image"].id = issued
=============================================================================
