------------------------------ MODULE Container ------------------------------
(***************************************************************************)
(* The start of a container of an ACI: the pre-start handler               *)
(* aci-builder/files/dgr/usr/bin/prestart with the templater, and, in a    *)
(* test container, the script made of aci-tester's test.tmpl.  "dgr try"   *)
(* runs the same templater with -c, and no scripts.                        *)
(*                                                                         *)
(* The templates are rendered in the order in which the file system lists  *)
(* them, every step may fail, and the service under test comes up, or not, *)
(* while wait.sh is run.                                                   *)
(***************************************************************************)
EXTENDS Attributes

CONSTANTS
  Inputs,     \* what is started: see InputAssumption
  Templates,  \* the template files
  Uses,       \* the attribute each template file prints
  LongLines,  \* those that print it in, or after, a line too long for a Scanner
  MaxTries    \* how often the test script tries wait.sh: 60 in test.tmpl

(***************************************************************************)
(* An input: whether an ACI is started, tested or tried; the trees of its  *)
(* attribute files, in the order in which listFiles finds them, directory  *)
(* by directory; how many of them it lists, as it stops silently at an     *)
(* entry it cannot read; the JSON in the environment; whether there is a   *)
(* wait.sh.                                                                *)
(***************************************************************************)
\* No value is the word for a target from before, a truncated one or the one
\* that a template prints for nothing.
IsFile(tree) == /\ IsTree(tree)
                /\ \A p \in DOMAIN tree : tree[p] \notin {"old", "", "<no value>"}

ASSUME InputAssumption ==
  /\ MaxTries \in Nat \ {0}
  /\ \A t \in Templates : Uses[t] \in Seq(Keys) \ {<<>>}
  /\ \A text \in DOMAIN Yaml : \A p \in DOMAIN Yaml[text] : Yaml[text][p] \notin {"old", ""}
  /\ \A i \in Inputs : /\ i.mode \in {"start", "test", "try"}
                       /\ i.listed \in 0..Len(i.files)
                       /\ \A n \in 1..i.listed : IsFile(i.files[n])
                       /\ IsFile(i.env)
                       /\ i.wait \in BOOLEAN

VARIABLES
  input,    \* what is started
  pc,       \* what is done next
  loaded,   \* how many attribute files are merged
  tree,     \* the attributes, while files are read below "default" and "override"
  pending,  \* templates still to render
  broken,   \* templates that failed and were passed over, with -c
  file,     \* per template: the target: "old", "" once truncated, or what it shows
  service,  \* the service under test: "down", "starting", "up"
  tries,    \* how often wait.sh failed
  status    \* "running", "ok" or "error"

templater == <<loaded, tree, pending, broken, file>>
tester    == <<service, tries>>
vars      == <<input, pc, templater, tester, status>>

Continue == input.mode = "try"  \* -c

----------------------------------------------------------------------------
Init == /\ input \in Inputs
        /\ pc = (IF Continue THEN "files" ELSE "early")
        /\ loaded = 0 /\ tree = [p \in {<<"default">>} |-> "map"]
        /\ pending = Templates /\ broken = {}
        /\ file = [t \in Templates |-> "old"]
        /\ service = "down" /\ tries = 0 /\ status = "running"

Doing(step) == status = "running" /\ pc = step

\* A script, the templater or a part of it fails: set -e, Fatal or a panic.
FailAt(steps) ==
  /\ status = "running" /\ pc \in steps
  /\ status' = "error"
  /\ UNCHANGED <<input, pc, templater, tester>>

Fail == FailAt({"early", "files", "environment", "partials", "late"})

\* runlevels/prestart-early and prestart-late.
EarlyScripts == /\ Doing("early")
                /\ pc' = "files"
                /\ UNCHANGED <<input, templater, tester, status>>

\* One attribute file.  An empty one is skipped.
MergeFile ==
  /\ Doing("files") /\ loaded < input.listed
  /\ tree' = Merge(tree, input.files[loaded + 1])
  /\ loaded' = loaded + 1
  /\ UNCHANGED <<input, pc, pending, broken, file, tester, status>>

Override ==
  /\ Doing("files") /\ loaded = input.listed
  /\ IF OverridePanics(tree)
       THEN status' = "error" /\ UNCHANGED <<pc, tree>>
       ELSE tree' = ProcessOverride(tree) /\ pc' = "environment" /\ UNCHANGED status
  /\ UNCHANGED <<input, loaded, pending, broken, file, tester>>

\* overrideWithJsonIfNeeded
Environment ==
  /\ Doing("environment")
  /\ tree' = Merge(tree, input.env)
  /\ pc' = "attributes"
  /\ UNCHANGED <<input, loaded, pending, broken, file, tester, status>>

TemplateAttributes ==
  /\ Doing("attributes")
  /\ IF TemplatingFails(tree)
       THEN status' = "error" /\ UNCHANGED <<pc, tree>>
       ELSE tree' = Templated(tree) /\ pc' = "partials" /\ UNCHANGED status
  /\ UNCHANGED <<input, loaded, pending, broken, file, tester>>

LoadPartials ==
  /\ Doing("partials")
  /\ pc' = "templates"
  /\ UNCHANGED <<input, templater, tester, status>>

\* A template that cannot be parsed ends the templater, with and without -c.
BadTemplate == pending # {} /\ FailAt({"templates"})

\* An error of runTemplate: it ends the templater, or is logged under -c.
\* The directory then reports success: the error is kept in an err of the
\* loop's own, which shadows the one that is returned.
Failed(t) == IF Continue THEN broken' = broken \cup {t} /\ UNCHANGED status
                         ELSE status' = "error" /\ UNCHANGED broken

\* The output is read line by line for a <no value>.  The Scanner stops at a
\* line longer than 64 KB, and its error is not looked at (file.go:102-114).
NoValueFails(t, text) == text = "<no value>" /\ t \notin LongLines /\ ~Continue

\* runTemplate.  The target is truncated first; executing the template, a
\* <no value> without -c, and the write may fail; mode, owner and checkCmd
\* come after the write.
Render(t) ==
  /\ Doing("templates") /\ t \in pending
  /\ pending' = pending \ {t}
  /\ LET text == Shown(tree, Uses[t])
     IN \/ /\ ~Undefined(tree, Uses[t]) /\ ~NoValueFails(t, text)
           /\ file' = [file EXCEPT ![t] = text]
           /\ Failed(t) \/ UNCHANGED <<broken, status>>
        \/ /\ file' = [file EXCEPT ![t] = ""]
           /\ Failed(t)
        \/ Failed(t) /\ UNCHANGED file
  /\ UNCHANGED <<input, pc, loaded, tree, tester>>

TemplatesDone ==
  /\ Doing("templates") /\ pending = {}
  /\ \/ Continue /\ status' = "ok" /\ UNCHANGED pc
     \/ ~Continue /\ pc' = "late" /\ UNCHANGED status
  /\ UNCHANGED <<input, templater, tester>>

\* The app of the ACI starts; in a test container it is the test script.
LateScripts ==
  /\ Doing("late")
  /\ \/ input.mode = "start" /\ status' = "ok" /\ UNCHANGED <<pc, service>>
     \/ /\ input.mode = "test"
        /\ pc' = (IF input.wait THEN "wait" ELSE "tests")
        /\ service' = "starting" /\ UNCHANGED status
  /\ UNCHANGED <<input, templater, tries>>

----------------------------------------------------------------------------
\* The service comes up, or ends, on its own.
Service ==
  /\ service # "down"
  /\ service' \in (IF service = "starting" THEN {"up", "down"} ELSE {"down"})
  /\ UNCHANGED <<input, pc, templater, tries, status>>

\* The loop ends after MaxTries; the test of waitsuccess behind it compares
\* another word and is never true, so the tests are run whatever came of it.
TryOnceMore == tries <= MaxTries
TryOnceLess == tries + 1 < MaxTries
TryAgain    == tries < MaxTries

SameTries == tries
NextTries == tries + 1

\* wait.sh, which succeeds when the service is up.
WaitSh ==
  /\ Doing("wait") /\ TryAgain
  /\ \/ service = "up" /\ pc' = "tests" /\ UNCHANGED tries
     \/ service # "up" /\ tries' = NextTries /\ UNCHANGED pc
  /\ UNCHANGED <<input, templater, service, status>>

GiveUpWaiting ==
  /\ Doing("wait") /\ ~TryAgain
  /\ pc' = "tests"
  /\ UNCHANGED <<input, templater, tester, status>>

\* test.sh, see Aci.
RunTests ==
  /\ Doing("tests")
  /\ status' = "ok"
  /\ UNCHANGED <<input, pc, templater, tester>>

Program ==
  \/ EarlyScripts \/ MergeFile \/ Override \/ Environment \/ TemplateAttributes
  \/ LoadPartials \/ BadTemplate \/ (\E t \in Templates : Render(t)) \/ TemplatesDone
  \/ LateScripts \/ WaitSh \/ GiveUpWaiting \/ RunTests \/ Fail

Next == Program \/ Service

Spec     == Init /\ [][Next]_vars
LiveSpec == Spec /\ WF_vars(Program)

----------------------------------------------------------------------------
(* Properties *)

\* The templater works off the files and the templates it has, and wait.sh is
\* tried no more often than the bound of the loop.
TypeOK ==
  /\ pc \in {"early", "files", "environment", "attributes", "partials", "templates",
             "late", "wait", "tests"}
  /\ loaded \in 0..input.listed
  /\ IsTree(tree)
  /\ pending \subseteq Templates /\ broken \subseteq Templates \ pending
  /\ DOMAIN file = Templates
  /\ service \in {"down", "starting", "up"} /\ tries \in 0..MaxTries
  /\ status \in {"running", "ok", "error"}

(***************************************************************************)
(* What an attribute is worth, told without merging: the layers, the later *)
(* ones before the earlier ones, are the default part of each file, the    *)
(* override part of each file and the environment.                         *)
(***************************************************************************)
Layers ==
  LET trees == SubSeq(input.files, 1, input.listed)
  IN [n \in DOMAIN trees |-> Below(trees[n], "default")] \o
     [n \in DOMAIN trees |-> Below(trees[n], "override")] \o <<input.env>>

Value(layers, path) ==
  LET in == {n \in DOMAIN layers : path \in DOMAIN layers[n]}
  IN IF in = {} THEN "nil" ELSE layers[CHOOSE n \in in : \A m \in in : m <= n][path]

\* A path at or below a template is what YAML reads in the text it prints.
Resolved(layers, path) ==
  LET templates == {n \in 1..Len(path) : Value(layers, SubSeq(path, 1, n)) \in DOMAIN References}
  IN IF templates = {} THEN Value(layers, path)
     ELSE LET n == CHOOSE n \in templates : TRUE
              value == Value(layers, SubSeq(path, 1, n))
          IN At(Parsed(value, Text(Value(layers, References[value]))), SubSeq(path, n + 1, Len(path)))

\* No file leaves default or override empty, and a path that is a map in one
\* file is a map wherever it is given.
Consistent ==
  /\ \A n \in 1..input.listed : \A key \in {"default", "override"} :
       <<key>> \in DOMAIN input.files[n] => input.files[n][<<key>>] = "map"
  /\ LET layers == Layers
     IN \A m, n \in DOMAIN layers : \A p \in DOMAIN layers[m] \cap DOMAIN layers[n] :
          layers[m][p] = "map" <=> layers[n][p] = "map"

Rendered == status = "ok" \/ pc \in {"late", "wait", "tests"}

\* Once the templates are rendered every one of them shows the value the listed
\* layers give its attribute (what YAML makes of the text where that value is a
\* template), whatever the order of the listing; without -c none was passed over
\* and none shows <no value> unless a line too long for the Scanner hides it, so
\* no app starts on a template left from before or truncated (merger.go:93-146,
\* 172-212, directory.go:83-128, file.go:69-137).
AppConfigured ==
  Rendered =>
    /\ ~Continue => /\ broken = {}
                    /\ \A t \in Templates : /\ file[t] \notin {"old", ""}
                                            /\ file[t] = "<no value>" => t \in LongLines
    /\ Consistent =>
         \A t \in Templates \ broken : file[t] = Text(Resolved(Layers, Uses[t]))

\* With a wait.sh the tests only start once it saw the service up, or after all
\* the tries of the loop, never after fewer (test.tmpl:8-21); that it never came up
\* is not noticed behind the loop (test.tmpl:23 compares a constant word).
WaitedForService ==
  [][pc = "wait" /\ pc' = "tests" => service = "up" \/ tries = MaxTries]_vars

\* The start of a container ends, even if the service never comes up
\* (test.tmpl:8-21).
Terminates == <>(status # "running")
=============================================================================
