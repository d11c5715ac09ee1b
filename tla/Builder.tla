------------------------------- MODULE Builder -------------------------------
(***************************************************************************)
(* One run of the builder: the stage1 program aci-builder/bin-run and the  *)
(* scripts it starts under systemd-nspawn, up to image.aci.                *)
(*                                                                         *)
(* What is built depends on the run levels: which of them have scripts,    *)
(* who brought these (the ACI, its dependencies, the builder's image or a  *)
(* script of the builder run level), in which root they run and in which   *)
(* order.  The module follows the scripts through the two roots, with an   *)
(* error possible at every command, as all the shell scripts use set -e.   *)
(***************************************************************************)
EXTENDS Naturals, Sequences, FiniteSets

Levels == {"builder", "build", "build-late", "inherit-build-early",
           "inherit-build-late", "prestart-early", "prestart-late"}

\* A script of a run level; the shell expands a directory in the order of names.
Script == [level : Levels, name : Nat, by : {"aci", "dependency", "builder", "added"}]

CONSTANT Inputs  \* what a run may be started on: see InputType

(***************************************************************************)
(* A run: the command, the run levels that exist in the home of the ACI,   *)
(* even empty (the tests directory is the home of a test ACI), its         *)
(* scripts, those in /dgr/runlevels of its dependencies and of the         *)
(* builder's image, and those that the ACI's builder scripts put into      *)
(* ROOTFS/dgr/runlevels.  Its builder scripts and its files may also have  *)
(* something below ROOTFS/dgr/builder, as the files of aci-builder do.     *)
(***************************************************************************)
Inheritable == {s \in Script : s.level \in {"inherit-build-early", "inherit-build-late",
                                            "prestart-early", "prestart-late"}}

InputType == [command : {"build", "test", "try", "init"}, dirs : SUBSET Levels,
              home : SUBSET Script, deps : SUBSET Inheritable,
              builder : SUBSET Inheritable, added : SUBSET Inheritable,
              below : SUBSET {"scripts", "files"}]

\* Scripts of one level and name: the one replaces the other where both are copied.
Same(s, t) == s.level = t.level /\ s.name = t.name

\* A directory: so many files, each with a name of its own.
IsDirectory(scripts) == /\ IsFiniteSet(scripts)
                        /\ \A s, t \in scripts : Same(s, t) => s = t

ASSUME BuilderAssumption ==
  /\ Inputs \subseteq InputType
  /\ \A i \in Inputs :
       /\ {s.level : s \in i.home} \subseteq i.dirs
       /\ i.added # {} \/ "scripts" \in i.below => \E s \in i.home : s.level = "builder"
       /\ \A dir \in {i.home, i.deps, i.builder, i.added} : IsDirectory(dir)
       /\ \A s \in i.home : s.by = "aci"
       /\ \A s \in i.added : s.by = "added"
       /\ \A s \in i.deps : s.by = "dependency"

VARIABLES
  input,   \* the run
  pc,      \* where it is: the root in which, and what it does next
  todo,    \* the scripts of the running level that are still to run
  upper,   \* scripts in ROOTFS/dgr/runlevels, in the layer the image is made of
  staged,  \* scripts in /dgr/builder/runlevels
  mount,   \* ROOTFS/dgr/builder: "none", "empty" or "used", with something in it
  done,    \* what was run and copied so far
  image,   \* image.aci: "none", "partial" or "whole"
  result   \* "running", "ok" or "error"

vars == <<input, pc, todo, upper, staged, mount, done, image, result>>

----------------------------------------------------------------------------
(* Directories *)

\* What is copied replaces what is there, with cp -Rf and in the layers of the
\* overlay under ROOTFS.
Layer(over, under) == over \cup {s \in under : \A t \in over : ~Same(s, t)}

OfLevels(scripts, levels) == {s \in scripts : s.level \in levels}

\* "${fdir}"/*
Glob(scripts, level) ==
  LET dir == OfLevels(scripts, {level})
  IN [i \in 1..Cardinality(dir) |->
        CHOOSE s \in dir : Cardinality({t \in dir : t.name < s.name}) = i - 1]

Rootfs == Layer(upper, input.deps)

\* [ -d ROOTFS/dgr/runlevels/level ]
InRootfs(level) == level \in input.dirs \/ OfLevels(Rootfs, {level}) # {}

\* Whether builder.sh enters ROOTFS before, and after, the copy of the files.
NeedsBuildOwn == input.dirs \cap {"build", "build-late"} # {}
NeedsBuild    == input.dirs \cap {"build", "build-late"} # {} \/ InRootfs("inherit-build-early")
NeedsLate     == input.dirs \cap {"build", "build-late"} # {} \/ InRootfs("inherit-build-late")

\* The directory that execute_files runs at a step.
Directory(root, level) ==
  CASE root = "rootfs" /\ level \in {"build", "build-late"} -> staged
    [] root = "rootfs" /\ level \in {"inherit-build-early", "inherit-build-late"} -> Rootfs
    [] root = "builder" /\ level = "builder" -> input.home
    [] OTHER -> input.builder

\* A script run in a root, and a copy.
Ran(root, s) == [root |-> root, what |-> s.level, name |-> s.name, by |-> s.by]
Copied(what) == [root |-> "rootfs", what |-> what, name |-> 0, by |-> "aci"]

----------------------------------------------------------------------------
Init == /\ input \in Inputs
        /\ pc = <<"program", "prepare">> /\ todo = <<>>
        /\ upper = {} /\ staged = {} /\ mount = "none"
        /\ done = <<>> /\ image = "none" /\ result = "running"

At(root, what) == result = "running" /\ pc = <<root, what>>
Goto(root, what) == pc' = <<root, what>>
Begin(root, level) == Goto(root, level) /\ todo' = Glob(Directory(root, level), level)

Files == <<upper, staged, mount>>
Image == <<image, result>>

\* Build, runBuild: the command of the manifest, and the nspawn that runs it.
Prepare ==
  /\ At("program", "prepare")
  /\ \/ input.command = "build" /\ Begin("builder", "prestart-early")
     \/ input.command = "test" /\ Begin("builder", "inherit-build-early")
     \/ input.command \in {"try", "init"} /\ Goto("home", input.command) /\ UNCHANGED todo
  /\ UNCHANGED <<input, Files, done, Image>>

\* What the ACI itself puts below the mount point stays in it.
Fill(what) == mount' = IF what \in input.below THEN "used" ELSE mount

\* execute_files runs the next script of the level.  Those of the builder
\* level may leave scripts in ROOTFS.
RunScript ==
  /\ result = "running" /\ todo # <<>>
  /\ done' = Append(done, Ran(pc[1], Head(todo)))
  /\ todo' = Tail(todo)
  /\ IF pc = <<"builder", "builder">>
       THEN upper' = Layer(input.added, upper) /\ Fill("scripts")
       ELSE UNCHANGED <<upper, mount>>
  /\ UNCHANGED <<input, pc, staged, Image>>

\* All scripts of a level have run.
Ended(root, level) ==
  /\ At(root, level) /\ todo = <<>>
  /\ UNCHANGED <<input, Files, done, Image>>

\* A command without state of its own between two levels.
Then(what) == Goto("builder", what) /\ UNCHANGED todo

EndBuilderLevel ==
  \/ Ended("builder", "prestart-early") /\ Then("template")
  \/ Ended("builder", "prestart-late") /\ Begin("builder", "inherit-build-early")
  \/ Ended("builder", "inherit-build-early") /\ Begin("builder", "builder")
  \/ Ended("builder", "builder") /\ Then("inherit")
  \/ Ended("builder", "inherit-build-late") /\ Then("rmdir")

\* step-build.sh and step-build-late.sh.
EndRootfsLevel ==
  \/ Ended("rootfs", "inherit-build-early") /\ Begin("rootfs", "build")
  \/ Ended("rootfs", "build") /\ Then("copy")
  \/ Ended("rootfs", "build-late") /\ Begin("rootfs", "inherit-build-late")
  \/ Ended("rootfs", "inherit-build-late") /\ Begin("builder", "inherit-build-late")

\* The templater of the builder's own prestart.
TemplateBuilder ==
  /\ At("builder", "template")
  /\ Begin("builder", "prestart-late")
  /\ UNCHANGED <<input, Files, done, Image>>

\* What step-build and step-build-late find in /dgr/builder/runlevels.
StageAll == input.home
Stage    == OfLevels(input.home, {"build", "build-late"})

\* The internals, inherit and build run levels are copied.
CopyInherit ==
  /\ At("builder", "inherit")
  /\ upper' = Layer(OfLevels(input.home, {"inherit-build-early", "inherit-build-late"}), upper)
  /\ staged' = Stage
  /\ Then("enter-build")
  /\ UNCHANGED <<input, mount, done, Image>>

\* systemd-nspawn --bind makes /dgr/builder in ROOTFS where it is not there;
\* what the scripts in ROOTFS write below it is not in the layer.
Bind == mount' = IF mount = "none" THEN "empty" ELSE mount

EnterBuild ==
  /\ At("builder", "enter-build")
  /\ IF NeedsBuild THEN Bind /\ Begin("rootfs", "inherit-build-early")
                   ELSE UNCHANGED mount /\ Then("copy")
  /\ UNCHANGED <<input, upper, staged, done, Image>>

\* prestart, attributes, files and templates.
CopyFiles ==
  /\ At("builder", "copy")
  /\ upper' = Layer(OfLevels(input.home, {"prestart-early", "prestart-late"}), upper)
  /\ done' = Append(done, Copied("files"))
  /\ Fill("files")
  /\ Then("enter-build-late")
  /\ UNCHANGED <<input, staged, Image>>

EnterBuildLate ==
  /\ At("builder", "enter-build-late")
  /\ IF NeedsLate THEN Bind /\ Begin("rootfs", "build-late")
                  ELSE UNCHANGED mount /\ Begin("builder", "inherit-build-late")
  /\ UNCHANGED <<input, upper, staged, done, Image>>

\* rmdir takes the mount point away, unless there is something in it: its error
\* is ignored.  The command of the tester then adds the tests.
MountKept == UNCHANGED mount
MountGone == mount' = IF mount = "used" THEN "used" ELSE "none"

Rmdir ==
  /\ At("builder", "rmdir")
  /\ MountGone
  /\ IF input.command = "test" THEN Then("tests")
                               ELSE Goto("program", "manifest") /\ UNCHANGED todo
  /\ UNCHANGED <<input, upper, staged, done, Image>>

CopyTests ==
  /\ At("builder", "tests")
  /\ done' = Append(done, Copied("tests"))
  /\ Goto("program", "manifest")
  /\ UNCHANGED <<input, todo, Files, Image>>

\* The commands try and init work on the home of the ACI and its target.
RunHomeCommand ==
  /\ result = "running" /\ pc[1] = "home"
  /\ done' = Append(done, Copied(input.command))
  /\ Goto("program", "manifest")
  /\ UNCHANGED <<input, todo, Files, Image>>

WriteManifest ==
  /\ At("program", "manifest")
  /\ Goto("program", "tar")
  /\ UNCHANGED <<input, todo, Files, done, Image>>

\* tar "sometimes silently fails".
TarAci ==
  /\ At("program", "tar")
  /\ image' \in {"none", "whole"}
  /\ Goto("program", "stat")
  /\ UNCHANGED <<input, todo, Files, done, result>>

\* What is done when the image is not there.
TarAgain   == Goto("program", "tar") /\ UNCHANGED result
NotCreated == result' = "error" /\ UNCHANGED pc

StatAci ==
  /\ At("program", "stat")
  /\ \/ image # "none" /\ result' = "ok" /\ UNCHANGED pc
     \/ image = "none" /\ NotCreated
  /\ UNCHANGED <<input, todo, Files, done, image>>

\* A script of a run level fails: execute_files returns 1, and onError exits
\* with 1, after the shell it opens under CATCH_ON_ERROR.
FailScript ==
  /\ result = "running" /\ todo # <<>>
  /\ result' = "error"
  /\ UNCHANGED <<input, pc, todo, Files, done, image>>

\* Any other command of the program or of the scripts fails.
Fail ==
  /\ result = "running" /\ todo = <<>> /\ pc # <<"program", "stat">>
  /\ image' \in IF pc = <<"program", "tar">> THEN {"none", "partial"} ELSE {image}
  /\ result' = "error"
  /\ UNCHANGED <<input, pc, todo, Files, done>>

Next ==
  \/ Prepare \/ RunScript \/ EndBuilderLevel \/ EndRootfsLevel \/ TemplateBuilder
  \/ CopyInherit \/ EnterBuild \/ CopyFiles \/ EnterBuildLate \/ Rmdir \/ CopyTests
  \/ RunHomeCommand \/ WriteManifest \/ TarAci \/ StatAci \/ FailScript \/ Fail

Spec     == Init /\ [][Next]_vars
LiveSpec == Spec /\ WF_vars(Next)

----------------------------------------------------------------------------
(* Properties *)

TypeOK ==
  /\ input \in InputType
  /\ pc[1] \in {"program", "home", "builder", "rootfs"}
  /\ \A i \in DOMAIN todo : todo[i] \in Script /\ todo[i].level = pc[2]
  /\ upper \subseteq Inheritable
  /\ staged \subseteq OfLevels(input.home, {"build", "build-late"})
  /\ mount \in {"none", "empty", "used"}
  /\ image \in {"none", "partial", "whole"} /\ result \in {"running", "ok", "error"}

(***************************************************************************)
(* The work of a run as README.md:156-164 lists it, told from the scripts  *)
(* alone: no directory, no condition and no intermediate copy.             *)
(***************************************************************************)
All(root, scripts, level) ==
  LET glob == Glob(scripts, level) IN [i \in DOMAIN glob |-> Ran(root, glob[i])]

OwnInherit == OfLevels(input.home, {"inherit-build-early", "inherit-build-late"})
OwnPrestart == OfLevels(input.home, {"prestart-early", "prestart-late"})

\* Of two scripts with one name in ROOTFS, the ACI's own is the one that runs,
\* before one a builder script put there, before one of a dependency.
Before(s, t) == s.by = t.by \/ s.by = "aci" \/ t.by = "dependency"

InRoot == LET scripts == OwnInherit \cup input.added \cup input.deps
          IN {s \in scripts : \A t \in scripts : Same(s, t) => Before(s, t)}

BuilderSh ==
  All("builder", input.builder, "inherit-build-early") \o
  All("builder", input.home, "builder") \o
  All("rootfs", InRoot, "inherit-build-early") \o
  All("rootfs", input.home, "build") \o
  <<Copied("files")>> \o
  All("rootfs", input.home, "build-late") \o
  All("rootfs", InRoot, "inherit-build-late") \o
  All("builder", input.builder, "inherit-build-late")

Plan ==
  CASE input.command = "build" -> All("builder", input.builder, "prestart-early") \o
                                  All("builder", input.builder, "prestart-late") \o BuilderSh
    [] input.command = "test"  -> BuilderSh \o <<Copied("tests")>>
    [] OTHER                   -> <<Copied(input.command)>>

Promised == INSTANCE BuildRun WITH plan <- Plan

\* A run implements BuildRun: every script that its level has in its root runs
\* exactly once, in its place in the order, although builder.sh decides from the
\* presence of directories whether to enter ROOTFS (builder.sh:92, 129).  Of the
\* scripts with one name in ROOTFS it is the ACI's that runs, and no dependency's
\* (builder.sh:76, 81).  After an error nothing more runs, and success means that
\* image.aci was made after all of it (builder.go:65-90).
ImplementsBuildRun == Promised!Spec

\* README.md:128, 130: the inherit scripts of an ACI are "stored in ACI and
\* executed while used as a dependency".
InheritedExecuted ==
  result = "ok" /\ input.command \in {"build", "test"} =>
    \A s \in OfLevels(input.deps, {"inherit-build-early", "inherit-build-late"}) :
      \E i \in DOMAIN done : done[i] = Ran("rootfs", s)

\* What other ACIs inherit from an image: the layer the image is made of holds
\* the run levels of the ACI, complete, those of its own taking the place of
\* what the builder scripts added (builder.sh:73-82, 100-109).  The mount point
\* of the build is in it only when the ACI itself put something there, since
\* the error of rmdir is ignored (builder.sh:138): never because one of the two
\* nspawn made it (builder.sh:94, 130) after the other or after the copy.
ImageComplete ==
  image = "whole" /\ input.command \in {"build", "test"} =>
    LET own == OwnInherit \cup OwnPrestart
    IN /\ mount = IF input.below = {} THEN "none" ELSE "used"
       /\ own \subseteq upper
       /\ upper \ own = {s \in input.added : \A t \in own : ~Same(s, t)}

\* A run ends, with whatever error (builder.go:65-90).
Terminates == <>(result # "running")
=============================================================================
