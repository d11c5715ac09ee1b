------------------------------ MODULE MCBuilder ------------------------------
(* Run levels with which TLC checks Builder. *)
EXTENDS Builder

By(who, level, name) == [level |-> level, name |-> name, by |-> who]

\* Scripts of the ACI: one in every level, and two in build.
Own == {By("aci", l, 1) : l \in Levels} \cup {By("aci", "build", 2)}

\* A dependency with one script of the same name as the ACI's, one of its own.
OfDependency == {By("dependency", "inherit-build-early", 1),
                 By("dependency", "inherit-build-late", 2),
                 By("dependency", "prestart-early", 1)}
OfBuilder    == {By("builder", l, 1) : l \in {"inherit-build-early", "inherit-build-late",
                                              "prestart-early", "prestart-late"}}
Extra        == {By("added", "inherit-build-late", 1), By("added", "inherit-build-early", 3)}

\* The levels a run is told apart by, each there or not.
Chosen == {"builder", "build", "build-late", "inherit-build-early", "inherit-build-late"}

Run(command, levels, empty, deps, builder, added, below) ==
  [command |-> command, dirs |-> levels \cup empty \cup {"prestart-early"},
   home |-> OfLevels(Own, levels \cup {"prestart-early"}),
   deps |-> deps, builder |-> builder, added |-> IF "builder" \in levels THEN added ELSE {},
   below |-> IF "builder" \in levels THEN below ELSE below \ {"scripts"}]

Runs ==
  {Run("build", levels, {}, deps, builder, added, {}) :
     levels \in SUBSET Chosen, deps \in SUBSET OfDependency,
     builder \in {{}, OfBuilder}, added \in {{}, Extra}}
  \cup {Run("build", levels, {}, {}, {}, {}, below) :
     levels \in SUBSET Chosen, below \in SUBSET {"scripts", "files"}}
  \cup {Run("test", levels, empty, deps, {}, {}, {}) :
     levels \in SUBSET Chosen, empty \in SUBSET {"build", "inherit-build-late"},
     deps \in {{}, OfDependency}}
  \cup {Run(command, Chosen, {}, {}, {}, {}, {}) : command \in {"try", "init"}}

\* One ACI with a dependency whose script has the name of its own.
InheritedRuns == {Run("build", {"inherit-build-early"}, {}, deps, {}, {}, {}) :
                    deps \in SUBSET OfDependency}
=============================================================================
