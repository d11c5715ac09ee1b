---------------------------- MODULE BuilderProofs ----------------------------
(***************************************************************************)
(* What is proved of a run of the builder for every set of inputs.         *)
(*                                                                         *)
(* The layer of the image passes through four states, and each place of a  *)
(* run has one of them (LayerInv).  What is done, what is left of the      *)
(* running level and what comes after it are the plan at every moment      *)
(* (PlanInv), although the scripts decide from the directories they find   *)
(* where to go next: this is the refinement of BuildRun.                   *)
(***************************************************************************)
EXTENDS Builder, FiniteSetTheorems, SequenceTheorems, TLAPS

----------------------------------------------------------------------------
(* The inductive invariants *)

Levelled == {<<"builder", "prestart-early">>, <<"builder", "prestart-late">>,
             <<"builder", "inherit-build-early">>, <<"builder", "builder">>,
             <<"builder", "inherit-build-late">>, <<"rootfs", "inherit-build-early">>,
             <<"rootfs", "build">>, <<"rootfs", "build-late">>,
             <<"rootfs", "inherit-build-late">>}

\* The places before the scripts of the builder level, and those of a command
\* that runs no builder.sh.
Unbuilt == {<<"program", "prepare">>, <<"home", "try">>, <<"home", "init">>,
            <<"builder", "prestart-early">>, <<"builder", "template">>,
            <<"builder", "prestart-late">>, <<"builder", "inherit-build-early">>}

\* Those between the two copies of builder.sh, and those after the second.
Building  == {<<"builder", "enter-build">>, <<"rootfs", "inherit-build-early">>,
              <<"rootfs", "build">>, <<"builder", "copy">>}
Finishing == {<<"builder", "enter-build-late">>, <<"rootfs", "build-late">>,
              <<"rootfs", "inherit-build-late">>, <<"builder", "inherit-build-late">>,
              <<"builder", "rmdir">>, <<"builder", "tests">>}
Ending    == {<<"program", "manifest">>, <<"program", "tar">>, <<"program", "stat">>}

Places == Unbuilt \cup {<<"builder", "builder">>, <<"builder", "inherit">>}
          \cup Building \cup Finishing \cup Ending

Mounts == {"none", "empty", "used"}

TypeInv ==
  /\ input \in Inputs
  /\ pc \in Places
  /\ todo \in Seq(Script)
  /\ \A i \in DOMAIN todo : todo[i].level = pc[2]
  /\ pc \notin Levelled => todo = <<>>
  /\ mount \in Mounts
  /\ image \in {"none", "partial", "whole"} /\ result \in {"running", "ok", "error"}

Inherited == Layer(OwnInherit, input.added)
Complete  == Layer(OwnPrestart, Inherited)

\* What the builder scripts, and then the files, put below the mount point.
FromScripts == IF "scripts" \in input.below THEN "used" ELSE "none"
Kept        == IF input.below = {} THEN "none" ELSE "used"

(***************************************************************************)
(* What the layer of the image and the staged scripts are at each place.   *)
(* The scripts of the builder level add theirs with the first that runs.   *)
(***************************************************************************)
LayerInv ==
  /\ pc = <<"home", "try">> => input.command = "try"
  /\ pc = <<"home", "init">> => input.command = "init"
  /\ pc[1] \in {"builder", "rootfs"} => input.command \in {"build", "test"}
  /\ pc = <<"builder", "tests">> => input.command = "test"
  /\ pc \in Unbuilt => upper = {} /\ staged = {} /\ mount = "none"
  /\ pc = <<"builder", "builder">> =>
       /\ staged = {}
       /\ \/ upper = input.added /\ mount = FromScripts
          \/ upper = {} /\ mount = "none" /\ todo = Glob(input.home, "builder")
  /\ pc = <<"builder", "inherit">> => upper = input.added /\ staged = {} /\ mount = FromScripts
  /\ pc \in Building =>
       /\ upper = Inherited /\ staged = Stage
       /\ mount = FromScripts \/ (mount = "empty" /\ FromScripts = "none")
  /\ pc \in Finishing =>
       /\ upper = Complete /\ staged = Stage
       /\ mount = "used" <=> input.below # {}
  /\ pc = <<"builder", "tests">> => mount = Kept
  /\ pc \in Ending =>
       IF input.command \in {"build", "test"} THEN upper = Complete /\ staged = Stage /\ mount = Kept
                                              ELSE upper = {} /\ staged = {} /\ mount = "none"
  /\ \/ image = "none"
     \/ pc = <<"program", "stat">> /\ image = "whole"
     \/ pc = <<"program", "tar">> /\ image = "partial" /\ result = "error"

\* The work that is left after a level, the last first.
Tests      == IF input.command = "test" THEN <<Copied("tests")>> ELSE <<>>
FromEnd    == All("builder", input.builder, "inherit-build-late") \o Tests
FromInLate == All("rootfs", InRoot, "inherit-build-late") \o FromEnd
FromLate   == All("rootfs", input.home, "build-late") \o FromInLate
FromFiles  == <<Copied("files")>> \o FromLate
FromBuild  == All("rootfs", input.home, "build") \o FromFiles
FromEarly  == All("rootfs", InRoot, "inherit-build-early") \o FromBuild
FromOwn    == All("builder", input.home, "builder") \o FromEarly
FromSh     == All("builder", input.builder, "inherit-build-early") \o FromOwn
FromPreL   == All("builder", input.builder, "prestart-late") \o FromSh
FromPreE   == All("builder", input.builder, "prestart-early") \o FromPreL

\* What the running level still has to do.
Ahead == [i \in DOMAIN todo |-> Ran(pc[1], todo[i])]

\* That rest is all that is left at this place.
LeavesAt(place, rest) == pc = place => Plan = done \o (Ahead \o rest)

\* A script that ran, or a copy.
Copies == {"files", "tests", "try", "init"}
Entry  == [root : {"builder", "rootfs"}, what : Levels \cup Copies, name : Nat,
           by : {"aci", "dependency", "builder", "added"}]

PlanInv ==
  /\ done \in Seq(Entry)
  /\ result = "running" =>
       /\ LeavesAt(<<"program", "prepare">>, Plan)
       /\ LeavesAt(<<"home", "try">>, <<Copied("try")>>)
       /\ LeavesAt(<<"home", "init">>, <<Copied("init")>>)
       /\ LeavesAt(<<"builder", "prestart-early">>, FromPreL)
       /\ LeavesAt(<<"builder", "template">>, FromPreL)
       /\ LeavesAt(<<"builder", "prestart-late">>, FromSh)
       /\ LeavesAt(<<"builder", "inherit-build-early">>, FromOwn)
       /\ LeavesAt(<<"builder", "builder">>, FromEarly)
       /\ LeavesAt(<<"builder", "inherit">>, FromEarly)
       /\ LeavesAt(<<"builder", "enter-build">>, FromEarly)
       /\ LeavesAt(<<"rootfs", "inherit-build-early">>, FromBuild)
       /\ LeavesAt(<<"rootfs", "build">>, FromFiles)
       /\ LeavesAt(<<"builder", "copy">>, FromFiles)
       /\ LeavesAt(<<"builder", "enter-build-late">>, FromLate)
       /\ LeavesAt(<<"rootfs", "build-late">>, FromInLate)
       /\ LeavesAt(<<"rootfs", "inherit-build-late">>, FromEnd)
       /\ LeavesAt(<<"builder", "inherit-build-late">>, Tests)
       /\ LeavesAt(<<"builder", "rmdir">>, Tests)
       /\ LeavesAt(<<"builder", "tests">>, <<Copied("tests")>>)
       /\ pc \in Ending => Plan = done

Inv == TypeInv /\ LayerInv /\ PlanInv

----------------------------------------------------------------------------
(* Directories *)

\* The scripts of one level are run in the order of their names: the rank of a
\* name says the place, and each place has its script.
LEMMA GlobType ==
  ASSUME NEW scripts \in SUBSET Script, IsDirectory(scripts), NEW level
  PROVE  /\ Glob(scripts, level) \in Seq(OfLevels(scripts, {level}))
         /\ Glob(scripts, level) = <<>> <=> OfLevels(scripts, {level}) = {}
<1> DEFINE D == OfLevels(scripts, {level})
           n == Cardinality(D)
           Lower(s) == {t \in D : t.name < s.name}
           rank == [s \in D |-> Cardinality(Lower(s))]
<1>1. D \in SUBSET scripts /\ D \in SUBSET Script /\ IsFiniteSet(scripts) BY DEF OfLevels, IsDirectory
<1>2. IsFiniteSet(D) /\ n \in Nat BY <1>1, FS_Subset, FS_CardinalityType
<1>3. \A s, t \in D : s # t => s.name # t.name
  BY DEF OfLevels, IsDirectory, Same
<1>4. \A s \in D : s.name \in Nat BY <1>1 DEF Script
<1>5. ASSUME NEW s \in D PROVE rank[s] \in 0..(n - 1)
  <2>1. Lower(s) \in SUBSET (D \ {s})
    <3>1. s.name \in Nat BY <1>4
    <3>2. ~(s.name < s.name) BY <3>1
    <3>. HIDE DEF D
    <3>. QED BY <3>2
  <2>2. IsFiniteSet(D \ {s}) /\ Cardinality(D \ {s}) = n - 1 BY <1>2, FS_RemoveElement
  <2>3. Cardinality(Lower(s)) <= Cardinality(D \ {s}) BY <2>1, <2>2, FS_Subset, Zenon
  <2>4. Cardinality(Lower(s)) \in Nat BY <2>1, <2>2, FS_Subset, FS_CardinalityType, Zenon
  <2>5. rank[s] = Cardinality(Lower(s)) OBVIOUS
  <2>. HIDE DEF rank, Lower, n, D
  <2>. QED BY <2>2, <2>3, <2>4, <2>5, <1>2
<1>6. ASSUME NEW s \in D, NEW t \in D, s.name < t.name PROVE rank[s] < rank[t]
  <2>1. Lower(s) \in SUBSET (Lower(t) \ {s}) BY <1>4, <1>6
  <2>2. s \in Lower(t) BY <1>6
  <2>3. IsFiniteSet(Lower(t)) BY <1>2, FS_Subset
  <2>4. IsFiniteSet(Lower(t) \ {s}) /\ Cardinality(Lower(t) \ {s}) = Cardinality(Lower(t)) - 1
    BY <2>2, <2>3, FS_RemoveElement, Zenon
  <2>5. Cardinality(Lower(s)) <= Cardinality(Lower(t) \ {s}) BY <2>1, <2>4, FS_Subset, Zenon
  <2>6. Cardinality(Lower(s)) \in Nat /\ Cardinality(Lower(t)) \in Nat
    BY <2>1, <2>3, <2>4, FS_Subset, FS_CardinalityType, Zenon
  <2>7. rank[s] = Cardinality(Lower(s)) /\ rank[t] = Cardinality(Lower(t)) OBVIOUS
  <2>. HIDE DEF rank, Lower, n, D
  <2>. QED BY <2>4, <2>5, <2>6, <2>7
<1>7. \A s, t \in D : rank[s] = rank[t] => s = t
  <2>. SUFFICES ASSUME NEW s \in D, NEW t \in D, rank[s] = rank[t], s # t PROVE FALSE
    OBVIOUS
  <2>1. s.name \in Nat /\ t.name \in Nat /\ s.name # t.name BY <1>3, <1>4
  <2>2. rank[s] \in Nat /\ rank[t] \in Nat
    <3>. HIDE DEF rank, n, D
    <3>. QED BY <1>5, <1>2
  <2>3. ~(s.name < t.name) /\ ~(t.name < s.name)
    <3>. HIDE DEF rank, n, D
    <3>. QED BY <1>6, <2>2
  <2>. QED BY <2>1, <2>3
<1>8. rank \in Injection(D, 0..(n - 1))
  <2>1. rank \in [D -> 0..(n - 1)]
    <3>1. rank = [s \in D |-> rank[s]] OBVIOUS
    <3>. HIDE DEF rank, n, D
    <3>. QED BY <3>1, <1>5
  <2>. HIDE DEF rank, n, D
  <2>. QED BY <2>1, <1>7 DEF Injection, IsInjective
<1>9. rank \in Surjection(D, 0..(n - 1))
  <2>1. IsFiniteSet(0..(n - 1)) /\ Cardinality(0..(n - 1)) = n
    <3>. HIDE DEF n
    <3>1. 0 \in Int /\ n - 1 \in Int /\ (0 > n - 1 => n = 0) /\ (n - 1) - 0 + 1 = n BY <1>2
    <3>. QED BY <3>1, FS_Interval
  <2>. HIDE DEF rank, n
  <2>. QED BY <1>8, <2>1, FS_Injection DEF n
<1>10. \A i \in 1..n : \E s \in D : Cardinality(Lower(s)) = i - 1
  <2>. SUFFICES ASSUME NEW i \in 1..n PROVE \E s \in D : Cardinality(Lower(s)) = i - 1
    OBVIOUS
  <2>1. i - 1 \in 0..(n - 1)
    <3>. HIDE DEF n
    <3>. QED BY <1>2
  <2>2. \E s \in D : rank[s] = i - 1
    <3>. HIDE DEF rank, n, D
    <3>. QED BY <1>9, <2>1 DEF Surjection
  <2>3. PICK s \in D : rank[s] = i - 1 BY <2>2
  <2>. QED BY <2>3
<1>11. Glob(scripts, level) = [i \in 1..n |-> CHOOSE s \in D : Cardinality(Lower(s)) = i - 1]
  BY DEF Glob
<1>12. \A i \in 1..n : Glob(scripts, level)[i] \in D
  <2>. HIDE DEF D, n, Lower
  <2>. QED BY <1>10, <1>11
<1>13. Glob(scripts, level) \in [1..n -> D]
  <2>. DEFINE g == Glob(scripts, level)
  <2>1. g = [i \in 1..n |-> g[i]]  BY <1>11
  <2>. HIDE DEF D, n, g
  <2>2. \A i \in 1..n : g[i] \in D BY <1>12 DEF g
  <2>3. g \in [1..n -> D] BY <2>1, <2>2
  <2>. QED BY <2>3 DEF g
<1>14. Glob(scripts, level) \in Seq(D) /\ Len(Glob(scripts, level)) = n
  <2>. HIDE DEF D, n
  <2>. QED BY <1>2, <1>13
<1>15. Glob(scripts, level) = <<>> <=> n = 0
  <2>. HIDE DEF D, n
  <2>. QED BY <1>14, EmptySeq
<1>. QED BY <1>2, <1>14, <1>15, FS_EmptySet

LEMMA GlobOfLevels ==
  ASSUME NEW scripts, NEW others, NEW level,
         OfLevels(scripts, {level}) = OfLevels(others, {level})
  PROVE  Glob(scripts, level) = Glob(others, level)
<1> DEFINE InOrder(dir) == [i \in 1..Cardinality(dir) |->
                              CHOOSE s \in dir : Cardinality({t \in dir : t.name < s.name}) = i - 1]
<1>1. /\ Glob(scripts, level) = InOrder(OfLevels(scripts, {level}))
      /\ Glob(others, level) = InOrder(OfLevels(others, {level}))
  BY DEF Glob
<1> HIDE DEF InOrder
<1>. QED BY <1>1

LEMMA InputFacts ==
  ASSUME input \in Inputs
  PROVE  /\ input \in InputType
         /\ input.home \in SUBSET Script /\ IsDirectory(input.home)
         /\ input.deps \in SUBSET Script /\ IsDirectory(input.deps)
         /\ input.builder \in SUBSET Script /\ IsDirectory(input.builder)
         /\ input.added \in SUBSET Script /\ IsDirectory(input.added)
         /\ input.deps \subseteq Inheritable /\ input.added \subseteq Inheritable
         /\ \A s \in input.home : s.level \in input.dirs /\ s.by = "aci"
         /\ \A s \in input.added : s.by = "added"
         /\ \A s \in input.deps : s.by = "dependency"
         /\ input.added # {} \/ "scripts" \in input.below => OfLevels(input.home, {"builder"}) # {}
         /\ input.below \subseteq {"scripts", "files"}
<1>1. input \in InputType BY BuilderAssumption
<1>2. /\ {s.level : s \in input.home} \subseteq input.dirs
      /\ input.added # {} \/ "scripts" \in input.below => \E s \in input.home : s.level = "builder"
      /\ \A dir \in {input.home, input.deps, input.builder, input.added} : IsDirectory(dir)
      /\ \A s \in input.home : s.by = "aci"
      /\ \A s \in input.added : s.by = "added"
      /\ \A s \in input.deps : s.by = "dependency"
  BY BuilderAssumption, Zenon
<1>3. /\ input.home \in SUBSET Script /\ input.deps \in SUBSET Inheritable
      /\ input.builder \in SUBSET Inheritable /\ input.added \in SUBSET Inheritable
      /\ input.below \subseteq {"scripts", "files"}
  BY <1>1 DEF InputType
<1>4. Inheritable \subseteq Script BY DEF Inheritable
<1>5. input.added # {} \/ "scripts" \in input.below => OfLevels(input.home, {"builder"}) # {}
  BY <1>2 DEF OfLevels
<1>6. \A s \in input.home : s.level \in input.dirs BY <1>2
<1>. QED BY <1>1, <1>2, <1>3, <1>4, <1>5, <1>6

\* What runs in ROOTFS is one directory again: of two scripts with one name at
\* most one comes before the other.
LEMMA InRootDirectory ==
  ASSUME input \in Inputs
  PROVE  InRoot \in SUBSET Script /\ IsDirectory(InRoot)
<1> DEFINE own == OwnInherit
<1> DEFINE scripts == own \cup input.added \cup input.deps
<1>1. own \in SUBSET input.home BY DEF OwnInherit, OfLevels
<1>2. /\ IsFiniteSet(input.home) /\ IsFiniteSet(input.added) /\ IsFiniteSet(input.deps)
      /\ input.home \in SUBSET Script /\ input.added \in SUBSET Script
      /\ input.deps \in SUBSET Script
  BY InputFacts DEF IsDirectory
<1>3. IsFiniteSet(own) BY <1>1, <1>2, FS_Subset
<1>4. IsFiniteSet(scripts) BY <1>2, <1>3, FS_Union
<1>5. InRoot = {s \in scripts : \A t \in scripts : Same(s, t) => Before(s, t)}
  BY DEF InRoot
<1>6. IsFiniteSet(InRoot) BY <1>4, <1>5, FS_Subset
<1>7. InRoot \in SUBSET Script BY <1>1, <1>2, <1>5
<1>8. ASSUME NEW s \in InRoot, NEW t \in InRoot, Same(s, t) PROVE s = t
  <2>1. s \in scripts /\ t \in scripts /\ Same(t, s) BY <1>5, <1>8 DEF Same
  <2>2. Before(s, t) /\ Before(t, s) BY <1>5, <1>8, <2>1
  <2>3. s.by = t.by BY <2>2 DEF Before
  <2>4. /\ \A x \in input.home : x.by = "aci"
        /\ \A x \in input.added : x.by = "added"
        /\ \A x \in input.deps : x.by = "dependency"
    BY InputFacts
  <2>5. \/ s \in input.home /\ t \in input.home
        \/ s \in input.added /\ t \in input.added
        \/ s \in input.deps /\ t \in input.deps
    <3>. HIDE DEF own
    <3>. QED BY <1>1, <2>1, <2>3, <2>4
  <2>. QED BY <1>8, <2>5, InputFacts DEF IsDirectory
<1>. QED BY <1>6, <1>7, <1>8 DEF IsDirectory

\* What ROOTFS has of the levels run in it is what the plan says, whichever of
\* the two copies was the last.
LEMMA RootfsIsInRoot ==
  ASSUME input \in Inputs, upper = Inherited \/ upper = Complete,
         NEW level \in {"inherit-build-early", "inherit-build-late"}
  PROVE  OfLevels(Rootfs, {level}) = OfLevels(InRoot, {level})
<1> DEFINE own == OwnInherit
<1> DEFINE scripts == own \cup input.added \cup input.deps
<1>1. \A s \in own : s.by = "aci" BY InputFacts DEF OwnInherit, OfLevels
<1>2. \A s \in input.added : s.by = "added" BY InputFacts
<1>3. \A s \in input.deps : s.by = "dependency" BY InputFacts
<1>4. \A s \in Inherited : s \in own \/ s \in input.added
  BY DEF Inherited, Layer
<1>5. ASSUME NEW s, s.level = level PROVE s \in upper <=> s \in Inherited
  <2>1. \A t \in OwnPrestart : t.level \notin {"inherit-build-early", "inherit-build-late"}
    BY DEF OwnPrestart, OfLevels
  <2>2. \A t \in OwnPrestart : ~Same(s, t) BY <1>5, <2>1 DEF Same
  <2>3. s \in Complete <=> s \in Inherited BY <1>5, <2>1, <2>2 DEF Complete, Layer
  <2>. QED BY <2>3
<1>6. ASSUME NEW s, s.level = level
      PROVE s \in Rootfs <=> \/ s \in Inherited
                             \/ s \in input.deps /\ \A t \in Inherited : ~Same(s, t)
  <2>1. s \in Rootfs <=> s \in upper \/ (s \in input.deps /\ \A t \in upper : ~Same(s, t))
    BY DEF Rootfs, Layer
  <2>2. (\A t \in upper : ~Same(s, t)) <=> (\A t \in Inherited : ~Same(s, t))
    BY <1>5, <1>6 DEF Same
  <2>. QED BY <1>5, <1>6, <2>1, <2>2
<1>7. \A s : s \in InRoot <=> s \in scripts /\ \A t \in scripts : Same(s, t) => Before(s, t)
  BY DEF InRoot
<1>8. \A s : s \in Inherited <=> s \in own \/ (s \in input.added /\ \A t \in own : ~Same(s, t))
  BY DEF Inherited, Layer
<1> HIDE DEF own
<1>9. ASSUME NEW s, s.level = level PROVE s \in Rootfs <=> s \in InRoot
  <2>1. CASE s \in own
    BY <1>1, <1>6, <1>7, <1>8, <1>9, <2>1 DEF Before
  <2>2. CASE s \in input.added /\ s \notin own
    <3>1. s \in InRoot <=> \A t \in own : ~Same(s, t)
      BY <1>1, <1>2, <1>3, <1>7, <2>2 DEF Before
    <3>2. s \notin input.deps BY <1>2, <1>3, <2>2
    <3>. QED BY <1>6, <1>8, <1>9, <2>2, <3>1, <3>2
  <2>3. CASE s \in input.deps /\ s \notin own /\ s \notin input.added
    <3>1. s \in InRoot <=> \A t \in own \cup input.added : ~Same(s, t)
      BY <1>1, <1>2, <1>3, <1>7, <2>3 DEF Before
    <3>2. (\A t \in own \cup input.added : ~Same(s, t)) <=> (\A t \in Inherited : ~Same(s, t))
      BY <1>8 DEF Same
    <3>. QED BY <1>6, <1>8, <1>9, <2>3, <3>1, <3>2
  <2>4. CASE s \notin scripts
    BY <1>6, <1>7, <1>8, <1>9, <2>4
  <2>. QED BY <2>1, <2>2, <2>3, <2>4
<1>. QED BY <1>9 DEF OfLevels

\* The scripts of a level, in order, are scripts of the level.
LEMMA GlobRuns ==
  ASSUME NEW scripts \in SUBSET Script, IsDirectory(scripts), NEW level
  PROVE  /\ Glob(scripts, level) \in Seq(Script)
         /\ \A i \in DOMAIN Glob(scripts, level) : Glob(scripts, level)[i].level = level
<1> DEFINE g == Glob(scripts, level)
           D == OfLevels(scripts, {level})
<1>1. g \in Seq(D) BY GlobType
<1>2. D \subseteq Script /\ \A s \in D : s.level = level BY DEF OfLevels
<1> HIDE DEF g, D
<1>3. g \in Seq(Script) BY <1>1, <1>2, SeqMonotonic
<1>4. \A i \in DOMAIN g : g[i] \in D BY <1>1, ElementOfSeq, LenProperties
<1>. QED BY <1>2, <1>3, <1>4 DEF g

\* The level that a step begins runs the scripts the plan has for it.
LEMMA BuilderLevel ==
  ASSUME input \in Inputs,
         NEW level \in {"prestart-early", "prestart-late",
                        "inherit-build-early", "inherit-build-late"}
  PROVE  /\ Directory("builder", level) = input.builder
         /\ Glob(input.builder, level) \in Seq(Script)
         /\ \A i \in DOMAIN Glob(input.builder, level) : Glob(input.builder, level)[i].level = level
<1>1. Directory("builder", level) = input.builder BY DEF Directory
<1>. QED BY <1>1, InputFacts, GlobRuns

LEMMA OwnLevel ==
  ASSUME input \in Inputs, NEW level
  PROVE  /\ Directory("builder", "builder") = input.home
         /\ Glob(input.home, level) \in Seq(Script)
         /\ \A i \in DOMAIN Glob(input.home, level) : Glob(input.home, level)[i].level = level
<1>1. Directory("builder", "builder") = input.home BY DEF Directory
<1>. QED BY <1>1, InputFacts, GlobRuns

LEMMA BuildLevel ==
  ASSUME staged = Stage, NEW level \in {"build", "build-late"}
  PROVE  Glob(Directory("rootfs", level), level) = Glob(input.home, level)
<1>1. Directory("rootfs", level) = staged BY DEF Directory
<1>2. OfLevels(Stage, {level}) = OfLevels(input.home, {level}) BY DEF OfLevels, Stage
<1>. QED BY <1>1, <1>2, GlobOfLevels

LEMMA InheritLevel ==
  ASSUME input \in Inputs, upper = Inherited \/ upper = Complete,
         NEW level \in {"inherit-build-early", "inherit-build-late"}
  PROVE  /\ Glob(Directory("rootfs", level), level) = Glob(InRoot, level)
         /\ Glob(InRoot, level) \in Seq(Script)
         /\ \A i \in DOMAIN Glob(InRoot, level) : Glob(InRoot, level)[i].level = level
<1>1. Directory("rootfs", level) = Rootfs BY DEF Directory
<1>2. Glob(Rootfs, level) = Glob(InRoot, level) BY RootfsIsInRoot, GlobOfLevels
<1>. QED BY <1>1, <1>2, InRootDirectory, GlobRuns

----------------------------------------------------------------------------
(* Types *)

LEMMA TypeInit == Init => TypeInv
<1>. SUFFICES ASSUME Init PROVE TypeInv
  OBVIOUS
<1>1. <<>> \in Seq(Script) /\ \A i \in DOMAIN <<>> : FALSE BY EmptySeq
<1>2. pc \in Places BY DEF Init, Places, Unbuilt
<1>. QED BY <1>1, <1>2 DEF Init, TypeInv, Mounts

\* What a step that begins a level must show of its scripts.
LEMMA TypeBegun ==
  ASSUME TypeInv, NEW root, NEW level, <<root, level>> \in Levelled,
         NEW g \in Seq(Script), \A i \in DOMAIN g : g[i].level = level,
         pc' = <<root, level>>, todo' = g, UNCHANGED <<input, Image>>, mount' \in Mounts
  PROVE  TypeInv'
<1>1. <<root, level>>[2] = level OBVIOUS
<1>2. Levelled \subseteq Places
  BY DEF Levelled, Places, Unbuilt, Building, Finishing
<1>. QED BY <1>1, <1>2 DEF TypeInv, Image

\* And one that goes to another place with nothing to run.
LEMMA TypeThen ==
  ASSUME TypeInv, todo = <<>>, pc' \in Places, todo' = <<>>, input' = input, mount' \in Mounts,
         image' \in {"none", "partial", "whole"}, result' \in {"running", "ok", "error"}
  PROVE  TypeInv'
BY EmptySeq DEF TypeInv

\* A script is taken from the level that runs.
LEMMA TypeRun ==
  ASSUME TypeInv, RunScript
  PROVE  TypeInv'
<1>1. /\ todo \in Seq(Script) /\ todo # <<>> /\ todo' = Tail(todo)
      /\ \A i \in DOMAIN todo : todo[i].level = pc[2]
      /\ pc \in Levelled
      /\ UNCHANGED <<input, pc, image, result>> /\ mount' \in Mounts
  BY DEF TypeInv, RunScript, Fill, Mounts, Image
<1>2. todo' \in Seq(Script) /\ \A i \in DOMAIN todo' : i + 1 \in DOMAIN todo /\ todo'[i] = todo[i + 1]
  BY <1>1, HeadTailProperties
<1>3. \A i \in DOMAIN todo' : todo'[i].level = pc'[2] BY <1>1, <1>2
<1>. QED BY <1>1, <1>2, <1>3 DEF TypeInv

LEMMA TypeNext == TypeInv /\ LayerInv /\ [Next]_vars => TypeInv'
<1>. SUFFICES ASSUME TypeInv, LayerInv, [Next]_vars PROVE TypeInv'
  OBVIOUS
<1>. USE DEF Goto, At, Begin, Then, Ended, Files, Image
<1>0. input \in Inputs /\ mount \in Mounts /\ image \in {"none", "partial", "whole"}
      /\ result \in {"running", "ok", "error"} /\ (pc \notin Levelled => todo = <<>>)
  BY DEF TypeInv
<1>1. CASE Prepare
  <2>1. CASE input.command = "build" /\ Begin("builder", "prestart-early")
    BY <1>0, <1>1, <2>1, BuilderLevel, TypeBegun DEF Prepare, Levelled
  <2>2. CASE input.command = "test" /\ Begin("builder", "inherit-build-early")
    BY <1>0, <1>1, <2>2, BuilderLevel, TypeBegun DEF Prepare, Levelled
  <2>3. CASE input.command \in {"try", "init"} /\ Goto("home", input.command) /\ UNCHANGED todo
    BY <1>0, <1>1, <2>3, TypeThen DEF Prepare, Levelled, Places, Unbuilt
  <2>. QED BY <1>1, <2>1, <2>2, <2>3 DEF Prepare
<1>2. CASE RunScript BY <1>2, TypeRun
<1>3. CASE EndBuilderLevel
  <2>1. CASE Ended("builder", "prestart-early") /\ Then("template")
    BY <1>0, <2>1, TypeThen DEF Places, Unbuilt
  <2>2. CASE Ended("builder", "prestart-late") /\ Begin("builder", "inherit-build-early")
    BY <1>0, <2>2, BuilderLevel, TypeBegun DEF Levelled
  <2>3. CASE Ended("builder", "inherit-build-early") /\ Begin("builder", "builder")
    BY <1>0, <2>3, OwnLevel, TypeBegun DEF Levelled
  <2>4. CASE Ended("builder", "builder") /\ Then("inherit")
    BY <1>0, <2>4, TypeThen DEF Places
  <2>5. CASE Ended("builder", "inherit-build-late") /\ Then("rmdir")
    BY <1>0, <2>5, TypeThen DEF Places, Finishing
  <2>. QED BY <1>3, <2>1, <2>2, <2>3, <2>4, <2>5 DEF EndBuilderLevel
<1>4. CASE EndRootfsLevel
  <2>1. CASE Ended("rootfs", "inherit-build-early") /\ Begin("rootfs", "build")
    <3>1. staged = Stage BY <2>1 DEF LayerInv, Building
    <3>. QED BY <1>0, <2>1, <3>1, BuildLevel, OwnLevel, TypeBegun DEF Levelled
  <2>2. CASE Ended("rootfs", "build") /\ Then("copy")
    BY <1>0, <2>2, TypeThen DEF Places, Building
  <2>3. CASE Ended("rootfs", "build-late") /\ Begin("rootfs", "inherit-build-late")
    <3>1. upper = Complete BY <2>3 DEF LayerInv, Finishing
    <3>. QED BY <1>0, <2>3, <3>1, InheritLevel, TypeBegun DEF Levelled
  <2>4. CASE Ended("rootfs", "inherit-build-late") /\ Begin("builder", "inherit-build-late")
    BY <1>0, <2>4, BuilderLevel, TypeBegun DEF Levelled
  <2>. QED BY <1>4, <2>1, <2>2, <2>3, <2>4 DEF EndRootfsLevel
<1>5. CASE TemplateBuilder
  BY <1>0, <1>5, BuilderLevel, TypeBegun DEF TemplateBuilder, Levelled
<1>6. CASE CopyInherit
  BY <1>0, <1>6, TypeThen DEF CopyInherit, Places, Building, Levelled
<1>7. CASE EnterBuild
  <2>1. CASE NeedsBuild
    <3>1. upper = Inherited BY <1>7 DEF EnterBuild, LayerInv, Building
    <3>. QED BY <1>0, <1>7, <2>1, <3>1, InheritLevel, TypeBegun
             DEF EnterBuild, Bind, Mounts, Levelled
  <2>2. CASE ~NeedsBuild
    BY <1>0, <1>7, <2>2, TypeThen DEF EnterBuild, Places, Building, Levelled
  <2>. QED BY <2>1, <2>2
<1>8. CASE CopyFiles
  BY <1>0, <1>8, TypeThen DEF CopyFiles, Fill, Mounts, Places, Finishing, Levelled
<1>9. CASE EnterBuildLate
  <2>1. CASE NeedsLate
    <3>1. staged = Stage BY <1>9 DEF EnterBuildLate, LayerInv, Finishing
    <3>. QED BY <1>0, <1>9, <2>1, <3>1, BuildLevel, OwnLevel, TypeBegun
             DEF EnterBuildLate, Bind, Mounts, Levelled
  <2>2. CASE ~NeedsLate
    BY <1>0, <1>9, <2>2, BuilderLevel, TypeBegun DEF EnterBuildLate, Levelled
  <2>. QED BY <2>1, <2>2
<1>10. CASE Rmdir
  BY <1>0, <1>10, TypeThen
  DEF Rmdir, MountGone, Mounts, Places, Finishing, Ending, Levelled
<1>11. CASE CopyTests
  BY <1>0, <1>11, TypeThen DEF CopyTests, Places, Ending, Levelled
<1>12. CASE RunHomeCommand
  <2>1. pc \notin Levelled BY <1>12 DEF RunHomeCommand, Levelled
  <2>. QED BY <1>0, <1>12, <2>1, TypeThen DEF RunHomeCommand, Places, Ending
<1>13. CASE WriteManifest
  BY <1>0, <1>13, TypeThen DEF WriteManifest, Places, Ending, Levelled
<1>14. CASE TarAci
  BY <1>0, <1>14, TypeThen DEF TarAci, Places, Ending, Levelled
<1>15. CASE StatAci
  BY <1>0, <1>15, TypeThen DEF StatAci, NotCreated, Places, Ending, Levelled
<1>16. CASE FailScript
  BY <1>16 DEF FailScript, TypeInv
<1>17. CASE Fail
  BY <1>0, <1>17 DEF Fail, TypeInv
<1>18. CASE UNCHANGED vars
  BY <1>18 DEF vars, TypeInv
<1>. QED
  BY <1>1, <1>2, <1>3, <1>4, <1>5, <1>6, <1>7, <1>8, <1>9, <1>10, <1>11, <1>12, <1>13,
     <1>14, <1>15, <1>16, <1>17, <1>18 DEF Next

----------------------------------------------------------------------------
(* The layer of the image *)

LEMMA LayerInit == Init => LayerInv
<1>. SUFFICES ASSUME Init PROVE LayerInv
  OBVIOUS
<1>1. /\ pc = <<"program", "prepare">> /\ upper = {} /\ staged = {} /\ mount = "none"
      /\ image = "none"
  BY DEF Init
<1>. QED BY <1>1 DEF LayerInv, Building, Finishing, Ending

\* What is copied over nothing, over itself and over what a builder script left.
LEMMA LayerFacts ==
  ASSUME NEW scripts
  PROVE  Layer(scripts, {}) = scripts /\ Layer(scripts, scripts) = scripts
<1>1. \A s : Same(s, s) BY DEF Same
<1>. QED BY <1>1 DEF Layer

\* The definitions of the copies do not depend on what a step changes.
LEMMA LayerConstants ==
  ASSUME input' = input
  PROVE  /\ Inherited' = Inherited /\ Complete' = Complete /\ Stage' = Stage
         /\ Glob(input.home, "builder")' = Glob(input.home, "builder")
         /\ FromScripts' = FromScripts /\ Kept' = Kept
BY DEF FromScripts, Kept, Inherited, Complete, Stage, OwnInherit, OwnPrestart, Layer, Same, OfLevels, Glob

LEMMA LayerNext == TypeInv /\ LayerInv /\ [Next]_vars => LayerInv'
<1>. SUFFICES ASSUME TypeInv, LayerInv, [Next]_vars PROVE LayerInv'
  OBVIOUS
<1>. USE LayerConstants DEF LayerInv, Goto, At, Begin, Then, Ended, Files, Image,
         Unbuilt, Building, Finishing, Ending
<1>0. input \in Inputs /\ (pc \notin Levelled => todo = <<>>) BY DEF TypeInv
<1>1. CASE Prepare
  BY <1>1 DEF Prepare
<1>2. CASE RunScript
  <2>1. CASE pc = <<"builder", "builder">>
    BY <1>2, <2>1, LayerFacts DEF RunScript, Fill, FromScripts
  <2>2. CASE pc # <<"builder", "builder">>
    BY <1>2, <2>2 DEF RunScript
  <2>. QED BY <2>1, <2>2
<1>3. CASE EndBuilderLevel
  <2>1. CASE Ended("builder", "prestart-early") /\ Then("template")
    BY <2>1
  <2>2. CASE Ended("builder", "prestart-late") /\ Begin("builder", "inherit-build-early")
    BY <2>2
  <2>3. CASE Ended("builder", "inherit-build-early") /\ Begin("builder", "builder")
    <3>1. Directory("builder", "builder") = input.home BY DEF Directory
    <3>. QED BY <2>3, <3>1
  <2>4. CASE Ended("builder", "builder") /\ Then("inherit")
    <3>1. upper = {} /\ todo = Glob(input.home, "builder") =>
            input.added = {} /\ FromScripts = "none"
      BY <1>0, <2>4, InputFacts, GlobType DEF FromScripts
    <3>. QED BY <2>4, <3>1
  <2>5. CASE Ended("builder", "inherit-build-late") /\ Then("rmdir")
    BY <2>5
  <2>. QED BY <1>3, <2>1, <2>2, <2>3, <2>4, <2>5 DEF EndBuilderLevel
<1>4. CASE EndRootfsLevel
  BY <1>4 DEF EndRootfsLevel
<1>5. CASE TemplateBuilder
  BY <1>5 DEF TemplateBuilder
<1>6. CASE CopyInherit
  BY <1>6 DEF CopyInherit, Inherited, OwnInherit
<1>7. CASE EnterBuild
  BY <1>7 DEF EnterBuild, Bind, FromScripts
<1>8. CASE CopyFiles
  <2>1. input.below \subseteq {"scripts", "files"} BY <1>0, InputFacts
  <2>2. mount' = "used" <=> input.below # {}
    BY <1>8, <2>1 DEF CopyFiles, Fill, FromScripts
  <2>. QED BY <1>8, <2>2 DEF CopyFiles, Complete, OwnPrestart
<1>9. CASE EnterBuildLate
  BY <1>9 DEF EnterBuildLate, Bind
<1>10. CASE Rmdir
  <2>1. mount \in Mounts BY DEF TypeInv
  <2>2. mount' = Kept BY <1>10, <2>1 DEF Rmdir, MountGone, Mounts, Kept
  <2>3. /\ UNCHANGED <<input, upper, staged, image, result>>
        /\ pc = <<"builder", "rmdir">> /\ input.command \in {"build", "test"}
        /\ pc' = IF input.command = "test" THEN <<"builder", "tests">>
                                           ELSE <<"program", "manifest">>
    BY <1>10 DEF Rmdir
  <2>4. Kept' = Kept /\ Complete' = Complete /\ Stage' = Stage BY <2>3
  <2>5. upper = Complete /\ staged = Stage /\ image = "none" BY <2>3
  <2>6. mount' = "used" <=> input'.below # {} BY <2>2, <2>3 DEF Kept
  <2>. QED BY <2>2, <2>3, <2>4, <2>5, <2>6
<1>11. CASE CopyTests
  BY <1>11 DEF CopyTests
<1>12. CASE RunHomeCommand
  <2>1. pc \in Places BY DEF TypeInv
  <2>2. pc \in {<<"home", "try">>, <<"home", "init">>}
    BY <1>12, <2>1 DEF RunHomeCommand, Places
  <2>. QED BY <1>12, <2>2 DEF RunHomeCommand
<1>13. CASE WriteManifest
  BY <1>13 DEF WriteManifest
<1>14. CASE TarAci
  BY <1>14 DEF TarAci
<1>15. CASE StatAci
  BY <1>15 DEF StatAci, NotCreated
<1>16. CASE FailScript
  BY <1>16 DEF FailScript
<1>17. CASE Fail
  BY <1>17 DEF Fail
<1>18. CASE UNCHANGED vars
  BY <1>18 DEF vars
<1>. QED
  BY <1>1, <1>2, <1>3, <1>4, <1>5, <1>6, <1>7, <1>8, <1>9, <1>10, <1>11, <1>12, <1>13,
     <1>14, <1>15, <1>16, <1>17, <1>18 DEF Next

LEMMA LayerAlways == Spec => [](TypeInv /\ LayerInv)
<1>1. Init => TypeInv /\ LayerInv BY TypeInit, LayerInit
<1>2. TypeInv /\ LayerInv /\ [Next]_vars => (TypeInv /\ LayerInv)' BY TypeNext, LayerNext
<1>. QED BY <1>1, <1>2, PTL DEF Spec

\* TypeOK: every script that is still to run is one of the running level, which
\* needs that the place a script has in the order of its level is taken by
\* exactly one; and only scripts that are to be inherited are in the layer.
THEOREM TypeCorrect == Spec => []TypeOK
<1>1. TypeInv /\ LayerInv => TypeOK
  <2>. SUFFICES ASSUME TypeInv, LayerInv PROVE TypeOK
    OBVIOUS
  <2>1. input \in InputType /\ input.added \subseteq Inheritable /\ input.home \in SUBSET Script
    BY InputFacts DEF TypeInv
  <2>2. pc[1] \in {"program", "home", "builder", "rootfs"}
    BY DEF TypeInv, Places, Unbuilt, Building, Finishing, Ending
  <2>3. \A i \in DOMAIN todo : todo[i] \in Script /\ todo[i].level = pc[2]
    BY ElementOfSeq, LenProperties DEF TypeInv
  <2>4. Inherited \subseteq Inheritable /\ Complete \subseteq Inheritable
    BY <2>1 DEF Complete, Inherited, Layer, OwnInherit, OwnPrestart, OfLevels, Inheritable
  <2>5. pc \in Places BY DEF TypeInv
  <2>6. (upper = {} \/ upper = input.added \/ upper = Inherited \/ upper = Complete)
        /\ (staged = {} \/ staged = Stage)
    BY <2>5 DEF LayerInv, Places
  <2>7. upper \subseteq Inheritable BY <2>1, <2>4, <2>6
  <2>8. staged \subseteq OfLevels(input.home, {"build", "build-late"}) BY <2>6 DEF Stage
  <2>9. /\ mount \in {"none", "empty", "used"}
        /\ image \in {"none", "partial", "whole"} /\ result \in {"running", "ok", "error"}
    BY DEF TypeInv, Mounts
  <2>. QED BY <2>1, <2>2, <2>3, <2>7, <2>8, <2>9 DEF TypeOK
<1>. QED BY <1>1, LayerAlways, PTL

\* ImageComplete: an image is packed from a layer that holds the run levels of
\* the ACI, complete, then what the builder scripts added and nothing replaced;
\* the mount point that the two nspawn need is in it exactly when the ACI has
\* something of its own there, which rmdir does not take away
\* (builder.sh:73-82, 94-96, 100-109, 118-120, 130-138).
THEOREM ImageCorrect == Spec => []ImageComplete
<1>1. TypeInv /\ LayerInv => ImageComplete
  <2>. SUFFICES ASSUME LayerInv, image = "whole", input.command \in {"build", "test"}
                PROVE  LET own == OwnInherit \cup OwnPrestart
                       IN /\ mount = IF input.below = {} THEN "none" ELSE "used"
                          /\ own \subseteq upper
                          /\ upper \ own = {s \in input.added : \A t \in own : ~Same(s, t)}
    BY DEF ImageComplete
  <2>1. mount = Kept /\ upper = Complete BY DEF LayerInv, Ending
  <2>2. \A s \in OwnInherit, t \in OwnPrestart : ~Same(s, t)
    BY DEF OwnInherit, OwnPrestart, OfLevels, Same
  <2>3. \A s : s \in Complete <=>
          \/ s \in OwnPrestart \cup OwnInherit
          \/ s \in input.added /\ \A t \in OwnPrestart \cup OwnInherit : ~Same(s, t)
    BY <2>2 DEF Complete, Inherited, Layer
  <2>4. \A s : Same(s, s) BY DEF Same
  <2>. QED BY <2>1, <2>3, <2>4 DEF Kept
<1>. QED BY <1>1, LayerAlways, PTL

----------------------------------------------------------------------------
(* Sequences of work *)

\* A piece of work that is done moves from what is left to what is done.
LEMMA Moved ==
  ASSUME NEW S, NEW d \in Seq(S), NEW a \in Seq(S), NEW r \in Seq(S), NEW x \in S
  PROVE  d \o ((<<x>> \o a) \o r) = Append(d, x) \o (a \o r)
<1>1. <<x>> \in Seq(S) OBVIOUS
<1>2. a \o r \in Seq(S) BY ConcatProperties
<1>3. (<<x>> \o a) \o r = <<x>> \o (a \o r) BY <1>1, ConcatAssociative
<1>4. d \o (<<x>> \o (a \o r)) = (d \o <<x>>) \o (a \o r) BY <1>1, <1>2, ConcatAssociative
<1>5. Append(d, x) = d \o <<x>> BY AppendIsConcat
<1>. QED BY <1>3, <1>4, <1>5

\* It is then the next of the plan.
LEMMA NextOfPlan ==
  ASSUME NEW S, NEW d \in Seq(S), NEW r \in Seq(S), NEW x \in S
  PROVE  LET p == Append(d, x) \o r
         IN  Len(d) < Len(p) /\ p[Len(d) + 1] = x
<1>1. /\ Append(d, x) \in Seq(S) /\ Len(Append(d, x)) = Len(d) + 1
      /\ Append(d, x)[Len(d) + 1] = x /\ Len(d) \in Nat /\ Len(r) \in Nat
  BY AppendProperties, LenProperties
<1>. DEFINE e == Append(d, x)
<1>. HIDE DEF e
<1>2. e \in Seq(S) /\ Len(e) = Len(d) + 1 /\ e[Len(d) + 1] = x BY <1>1 DEF e
<1>3. /\ Len(e \o r) = Len(e) + Len(r)
      /\ \A i \in 1..Len(e) + Len(r) : (e \o r)[i] = IF i <= Len(e) THEN e[i] ELSE r[i - Len(e)]
  BY <1>2, ConcatProperties
<1>4. Len(d) + 1 \in 1..Len(e) + Len(r) BY <1>1, <1>2
<1>. QED BY <1>1, <1>2, <1>3, <1>4 DEF e

\* Concatenation as a function of its own, so that nothing but these two facts
\* of it is used.
Cat(s, t) == s \o t

LEMMA CatFacts ==
  ASSUME NEW S
  PROVE  /\ \A s, t \in Seq(S) : Cat(s, t) \in Seq(S)
         /\ \A s, t, u \in Seq(S) : Cat(Cat(s, t), u) = Cat(s, Cat(t, u))
<1>1. ASSUME NEW s \in Seq(S), NEW t \in Seq(S) PROVE Cat(s, t) \in Seq(S)
  BY ConcatProperties DEF Cat
<1>2. ASSUME NEW s \in Seq(S), NEW t \in Seq(S), NEW u \in Seq(S)
      PROVE Cat(Cat(s, t), u) = Cat(s, Cat(t, u))
  BY ConcatAssociative DEF Cat
<1>. QED BY <1>1, <1>2

----------------------------------------------------------------------------
(* The plan *)

LEMMA EntryType ==
  /\ \A root \in {"builder", "rootfs"}, s \in Script : Ran(root, s) \in Entry
  /\ \A what \in Copies : Copied(what) \in Entry
<1>1. ASSUME NEW root \in {"builder", "rootfs"}, NEW s \in Script PROVE Ran(root, s) \in Entry
  BY DEF Ran, Entry, Script
<1>2. ASSUME NEW what \in Copies PROVE Copied(what) \in Entry
  BY DEF Copied, Entry
<1>. QED BY <1>1, <1>2

LEMMA AllType ==
  ASSUME NEW root \in {"builder", "rootfs"}, NEW scripts \in SUBSET Script,
         IsDirectory(scripts), NEW level
  PROVE  All(root, scripts, level) \in Seq(Entry)
<1> DEFINE g == Glob(scripts, level)
<1>1. g \in Seq(Script) BY GlobRuns
<1>2. All(root, scripts, level) = [i \in DOMAIN g |-> Ran(root, g[i])] BY DEF All
<1> HIDE DEF g
<1>3. DOMAIN g = 1..Len(g) /\ Len(g) \in Nat BY <1>1, LenProperties
<1>4. \A i \in 1..Len(g) : Ran(root, g[i]) \in Entry BY <1>1, ElementOfSeq, EntryType
<1>5. [i \in 1..Len(g) |-> Ran(root, g[i])] \in [1..Len(g) -> Entry] BY <1>4
<1>. QED BY <1>2, <1>3, <1>5

LEMMA NothingAll ==
  ASSUME NEW root, NEW scripts \in SUBSET Script, IsDirectory(scripts), NEW level,
         OfLevels(scripts, {level}) = {}
  PROVE  All(root, scripts, level) = <<>>
<1>1. Glob(scripts, level) = <<>> BY GlobType
<1>2. \A i \in DOMAIN <<>> : FALSE BY EmptySeq
<1>. QED BY <1>1, <1>2 DEF All

\* The parts of the plan are sequences of work.
LEMMA FromType ==
  ASSUME input \in Inputs
  PROVE  /\ Tests \in Seq(Entry) /\ FromEnd \in Seq(Entry) /\ FromInLate \in Seq(Entry)
         /\ FromLate \in Seq(Entry) /\ FromFiles \in Seq(Entry) /\ FromBuild \in Seq(Entry)
         /\ FromEarly \in Seq(Entry) /\ FromOwn \in Seq(Entry) /\ FromSh \in Seq(Entry)
         /\ FromPreL \in Seq(Entry) /\ FromPreE \in Seq(Entry)
<1>1. \A level : /\ All("builder", input.builder, level) \in Seq(Entry)
                 /\ All("builder", input.home, level) \in Seq(Entry)
                 /\ All("rootfs", input.home, level) \in Seq(Entry)
                 /\ All("rootfs", InRoot, level) \in Seq(Entry)
  BY InputFacts, InRootDirectory, AllType
<1>2. \A s, t \in Seq(Entry) : s \o t \in Seq(Entry) BY ConcatProperties
<1>3. \A what \in Copies : <<Copied(what)>> \in Seq(Entry)
  <2>. SUFFICES ASSUME NEW what \in Copies PROVE <<Copied(what)>> \in Seq(Entry)
    OBVIOUS
  <2>1. Copied(what) \in Entry BY EntryType
  <2>2. \A x \in Entry : <<x>> \in Seq(Entry) OBVIOUS
  <2>. QED BY <2>1, <2>2
<1>4. Tests \in Seq(Entry)
  <2>1. "tests" \in Copies BY DEF Copies
  <2>2. <<>> \in Seq(Entry) /\ <<Copied("tests")>> \in Seq(Entry) BY <1>3, <2>1, EmptySeq
  <2>. QED BY <2>2 DEF Tests
<1>5. FromEnd \in Seq(Entry) BY <1>1, <1>2, <1>4 DEF FromEnd
<1>6. FromInLate \in Seq(Entry) BY <1>1, <1>2, <1>5 DEF FromInLate
<1>7. FromLate \in Seq(Entry) BY <1>1, <1>2, <1>6 DEF FromLate
<1>8. FromFiles \in Seq(Entry)
  <2>1. "files" \in Copies BY DEF Copies
  <2>2. <<Copied("files")>> \in Seq(Entry) BY <1>3, <2>1
  <2>. QED BY <1>2, <1>7, <2>2 DEF FromFiles
<1>9. FromBuild \in Seq(Entry) BY <1>1, <1>2, <1>8 DEF FromBuild
<1>10. FromEarly \in Seq(Entry) BY <1>1, <1>2, <1>9 DEF FromEarly
<1>11. FromOwn \in Seq(Entry) BY <1>1, <1>2, <1>10 DEF FromOwn
<1>12. FromSh \in Seq(Entry) BY <1>1, <1>2, <1>11 DEF FromSh
<1>13. FromPreL \in Seq(Entry) BY <1>1, <1>2, <1>12 DEF FromPreL
<1>14. FromPreE \in Seq(Entry) BY <1>1, <1>2, <1>13 DEF FromPreE
<1>. QED BY <1>4, <1>5, <1>6, <1>7, <1>8, <1>9, <1>10, <1>11, <1>12, <1>13, <1>14

\* The plan, from its first part.
LEMMA PlanIs ==
  ASSUME input \in Inputs
  PROVE  /\ input.command = "build" => Plan = FromPreE
         /\ input.command = "test"  => Plan = FromSh
         /\ input.command \in {"try", "init"} => Plan = <<Copied(input.command)>>
<1> DEFINE A == All("builder", input.builder, "prestart-early")
           B == All("builder", input.builder, "prestart-late")
<1>1. \A level : /\ All("builder", input.builder, level) \in Seq(Entry)
                 /\ All("builder", input.home, level) \in Seq(Entry)
                 /\ All("rootfs", input.home, level) \in Seq(Entry)
                 /\ All("rootfs", InRoot, level) \in Seq(Entry)
  BY InputFacts, InRootDirectory, AllType
<1>2. <<Copied("files")>> \in Seq(Entry)
  <2>1. Copied("files") \in Entry BY EntryType DEF Copies
  <2>2. \A x \in Entry : <<x>> \in Seq(Entry) OBVIOUS
  <2>. QED BY <2>1, <2>2
<1>3. Tests \in Seq(Entry) /\ FromSh \in Seq(Entry) BY FromType
<1>4. BuilderSh \o Tests = FromSh
  <2>. DEFINE a == All("builder", input.builder, "inherit-build-early")
              b == All("builder", input.home, "builder")
              c == All("rootfs", InRoot, "inherit-build-early")
              d == All("rootfs", input.home, "build")
              e == <<Copied("files")>>
              f == All("rootfs", input.home, "build-late")
              g == All("rootfs", InRoot, "inherit-build-late")
              h == All("builder", input.builder, "inherit-build-late")
  <2>1. /\ a \in Seq(Entry) /\ b \in Seq(Entry) /\ c \in Seq(Entry) /\ d \in Seq(Entry)
        /\ e \in Seq(Entry) /\ f \in Seq(Entry) /\ g \in Seq(Entry) /\ h \in Seq(Entry)
    BY <1>1, <1>2
  <2>2. BuilderSh \o Tests = Cat(Cat(Cat(Cat(Cat(Cat(Cat(Cat(a, b), c), d), e), f), g), h), Tests)
    BY DEF BuilderSh, Cat
  <2>3. FromSh = Cat(a, Cat(b, Cat(c, Cat(d, Cat(e, Cat(f, Cat(g, Cat(h, Tests))))))))
    BY DEF FromSh, FromOwn, FromEarly, FromBuild, FromFiles, FromLate, FromInLate, FromEnd, Cat
  <2>. HIDE DEF a, b, c, d, e, f, g, h
  <2>4. Cat(Cat(Cat(Cat(Cat(Cat(Cat(Cat(a, b), c), d), e), f), g), h), Tests) =
          Cat(a, Cat(b, Cat(c, Cat(d, Cat(e, Cat(f, Cat(g, Cat(h, Tests))))))))
    <3> DEFINE abc == Cat(Cat(a, b), c)
               def == Cat(Cat(Cat(abc, d), e), f)
               ghz == Cat(g, Cat(h, Tests))
               dghz == Cat(d, Cat(e, Cat(f, ghz)))
    <3>. USE <1>3, <2>1
    <3>a. \A s, t \in Seq(Entry) : Cat(s, t) \in Seq(Entry) BY CatFacts
    <3>b. \A s, t, u \in Seq(Entry) : Cat(Cat(s, t), u) = Cat(s, Cat(t, u)) BY CatFacts
    <3>1. abc \in Seq(Entry) /\ ghz \in Seq(Entry) BY <3>a
    <3>2. dghz \in Seq(Entry) /\ def \in Seq(Entry)
      <4>. HIDE DEF abc, ghz
      <4>. QED BY <3>1, <3>a, <3>b
    <3>3. Cat(Cat(Cat(def, g), h), Tests) = Cat(def, ghz)
      <4>. HIDE DEF def
      <4>1. Cat(def, g) \in Seq(Entry) /\ Cat(h, Tests) \in Seq(Entry) BY <3>2, <3>a
      <4>2. Cat(Cat(Cat(def, g), h), Tests) = Cat(Cat(def, g), Cat(h, Tests)) BY <4>1, <3>b
      <4>3. Cat(Cat(def, g), Cat(h, Tests)) = Cat(def, ghz) BY <4>1, <3>2, <3>b
      <4>. QED BY <4>2, <4>3
    <3>4. Cat(def, ghz) = Cat(abc, dghz)
      <4>. HIDE DEF abc, ghz
      <4>1. /\ Cat(abc, d) \in Seq(Entry) /\ Cat(Cat(abc, d), e) \in Seq(Entry)
            /\ Cat(f, ghz) \in Seq(Entry) /\ Cat(e, Cat(f, ghz)) \in Seq(Entry)
        BY <3>1, <3>a
      <4>2. Cat(def, ghz) = Cat(Cat(Cat(abc, d), e), Cat(f, ghz)) BY <3>1, <4>1, <3>b
      <4>3. Cat(Cat(Cat(abc, d), e), Cat(f, ghz)) = Cat(Cat(abc, d), Cat(e, Cat(f, ghz)))
        BY <4>1, <3>b
      <4>4. Cat(Cat(abc, d), Cat(e, Cat(f, ghz))) = Cat(abc, dghz) BY <3>1, <4>1, <3>b
      <4>. QED BY <4>2, <4>3, <4>4
    <3>5. Cat(abc, dghz) = Cat(a, Cat(b, Cat(c, dghz)))
      <4>. HIDE DEF dghz
      <4>1. Cat(a, b) \in Seq(Entry) /\ Cat(c, dghz) \in Seq(Entry) BY <3>2, <3>a
      <4>2. Cat(abc, dghz) = Cat(Cat(a, b), Cat(c, dghz)) BY <3>2, <4>1, <3>b
      <4>3. Cat(Cat(a, b), Cat(c, dghz)) = Cat(a, Cat(b, Cat(c, dghz))) BY <4>1, <3>b
      <4>. QED BY <4>2, <4>3
    <3>6. Cat(Cat(Cat(def, g), h), Tests) = Cat(a, Cat(b, Cat(c, dghz)))
      BY <3>3, <3>4, <3>5, Zenon
    <3>. QED BY <3>6
  <2>. QED BY <2>2, <2>3, <2>4, Zenon
<1>5. BuilderSh \in Seq(Entry)
  <2>1. \A s, t \in Seq(Entry) : s \o t \in Seq(Entry) BY ConcatProperties
  <2>. QED BY <1>1, <1>2, <2>1, Zenon DEF BuilderSh
<1>6. CASE input.command = "build"
  <2>1. Plan = A \o B \o BuilderSh BY <1>6 DEF Plan
  <2>2. Tests = <<>> BY <1>6 DEF Tests
  <2>3. BuilderSh = FromSh
    <3>1. BuilderSh \o <<>> = BuilderSh BY <1>5, ConcatEmptySeq
    <3>. QED BY <1>4, <2>2, <3>1
  <2>4. A \in Seq(Entry) /\ B \in Seq(Entry) BY <1>1
  <2>5. A \o B \o FromSh = A \o (B \o FromSh)
    <3>. HIDE DEF A, B
    <3>. QED BY <1>3, <2>4, ConcatAssociative
  <2>6. A \o (B \o FromSh) = FromPreE BY DEF FromPreE, FromPreL
  <2>7. Plan = FromPreE BY <2>1, <2>3, <2>5, <2>6
  <2>. QED BY <1>6, <2>7
<1>7. CASE input.command = "test"
  <2>1. Plan = BuilderSh \o <<Copied("tests")>> BY <1>7 DEF Plan
  <2>2. Tests = <<Copied("tests")>> BY <1>7 DEF Tests
  <2>. QED BY <1>4, <1>7, <2>1, <2>2
<1>8. CASE input.command \in {"try", "init"}
  <2>1. Plan = <<Copied(input.command)>> BY <1>8 DEF Plan
  <2>. QED BY <1>8, <2>1
<1>. QED BY <1>6, <1>7, <1>8

LEMMA AllConstants ==
  ASSUME input' = input
  PROVE  /\ \A root, level : /\ All(root, input.home, level)' = All(root, input.home, level)
                             /\ All(root, input.builder, level)' = All(root, input.builder, level)
                             /\ All(root, InRoot, level)' = All(root, InRoot, level)
BY DEF All, Glob, InRoot, OwnInherit, OfLevels, Same, Before, Ran

\* What is planned is planned once and for all.
LEMMA PlanConstants ==
  ASSUME input' = input
  PROVE  /\ Tests' = Tests /\ FromEnd' = FromEnd /\ FromInLate' = FromInLate
         /\ FromLate' = FromLate /\ FromFiles' = FromFiles /\ FromBuild' = FromBuild
         /\ FromEarly' = FromEarly /\ FromOwn' = FromOwn /\ FromSh' = FromSh
         /\ FromPreL' = FromPreL /\ FromPreE' = FromPreE /\ Plan' = Plan
<1>0. \A root, level : /\ All(root, input.home, level)' = All(root, input.home, level)
                       /\ All(root, input.builder, level)' = All(root, input.builder, level)
                       /\ All(root, InRoot, level)' = All(root, InRoot, level)
  BY AllConstants
<1>1. Tests' = Tests BY DEF Tests, Copied
<1>2. FromEnd' = FromEnd BY <1>0, <1>1 DEF FromEnd
<1>3. FromInLate' = FromInLate BY <1>0, <1>2 DEF FromInLate
<1>4. FromLate' = FromLate BY <1>0, <1>3 DEF FromLate
<1>5. FromFiles' = FromFiles BY <1>4 DEF FromFiles, Copied
<1>6. FromBuild' = FromBuild BY <1>0, <1>5 DEF FromBuild
<1>7. FromEarly' = FromEarly BY <1>0, <1>6 DEF FromEarly
<1>8. FromOwn' = FromOwn BY <1>0, <1>7 DEF FromOwn
<1>9. FromSh' = FromSh BY <1>0, <1>8 DEF FromSh
<1>10. FromPreL' = FromPreL BY <1>0, <1>9 DEF FromPreL
<1>11. FromPreE' = FromPreE BY <1>0, <1>10 DEF FromPreE
<1>12. BuilderSh' = BuilderSh BY <1>0 DEF BuilderSh, Copied
<1>13. Plan' = Plan BY <1>0, <1>12 DEF Plan, Copied
<1>. QED BY <1>1, <1>2, <1>3, <1>4, <1>5, <1>6, <1>7, <1>8, <1>9, <1>10, <1>11, <1>13

\* What is ahead of a level that is about to begin, and of one that ended.
LEMMA AheadNothing ==
  /\ todo = <<>> => Ahead = <<>>
  /\ todo' = <<>> => Ahead' = <<>>
<1>1. \A i \in DOMAIN <<>> : FALSE BY EmptySeq
<1>. QED BY <1>1 DEF Ahead

LEMMA AheadBegun ==
  ASSUME NEW root, NEW scripts, NEW level,
         pc' = <<root, level>>, todo' = Glob(scripts, level)
  PROVE  Ahead' = All(root, scripts, level)
BY DEF Ahead, All

LEMMA FunctionIsSeq ==
  ASSUME NEW S, NEW n \in Nat, NEW s \in [1..n -> S]
  PROVE  s \in Seq(S) /\ Len(s) = n
OBVIOUS

\* A script that runs goes from what is ahead to what is done.
LEMMA AheadRun ==
  ASSUME TypeInv, RunScript
  PROVE  LET x == Ran(pc[1], Head(todo))
         IN  /\ x \in Entry /\ Ahead' \in Seq(Entry)
             /\ Ahead = <<x>> \o Ahead'
<1>1. /\ todo \in Seq(Script) /\ todo # <<>> /\ todo' = Tail(todo) /\ pc' = pc
      /\ pc \in Levelled
  BY DEF RunScript, TypeInv
<1>2. pc[1] \in {"builder", "rootfs"} BY <1>1 DEF Levelled
<1> DEFINE root == pc[1]
           x == Ran(root, Head(todo))
<1>3. root' = root BY <1>1
<1>4. Head(todo) \in Script /\ Tail(todo) \in Seq(Script) /\ Head(todo) = todo[1]
      /\ Len(Tail(todo)) = Len(todo) - 1 /\ Len(todo) \in Nat
      /\ \A i \in 1..Len(Tail(todo)) : Tail(todo)[i] = todo[i + 1]
  BY <1>1, HeadTailProperties
<1>5. x \in Entry BY <1>2, <1>4, EntryType
<1>6. Ahead = [i \in 1..Len(todo) |-> Ran(root, todo[i])]
  BY <1>1, LenProperties DEF Ahead
<1>7. Ahead' = [i \in 1..Len(Tail(todo)) |-> Ran(root, Tail(todo)[i])]
  BY <1>1, <1>3, <1>4, LenProperties DEF Ahead
<1>8. \A i \in 1..Len(todo) : Ran(root, todo[i]) \in Entry
  BY <1>1, <1>2, ElementOfSeq, EntryType
<1> HIDE DEF root
<1>9. Ahead' \in Seq(Entry) /\ Len(Ahead') = Len(todo) - 1
  <2>1. \A i \in 1..Len(Tail(todo)) : Ran(root, Tail(todo)[i]) \in Entry BY <1>4, <1>8
  <2>2. Ahead' \in [1..Len(Tail(todo)) -> Entry] BY <1>7, <2>1
  <2>3. Len(Tail(todo)) \in Nat BY <1>4, LenProperties
  <2>4. Ahead' \in Seq(Entry) /\ Len(Ahead') = Len(Tail(todo)) BY <2>2, <2>3, FunctionIsSeq
  <2>. QED BY <1>4, <2>4
<1>10. Ahead \in Seq(Entry) /\ Len(Ahead) = Len(todo)
  <2>1. Ahead \in [1..Len(todo) -> Entry] BY <1>6, <1>8
  <2>. QED BY <1>4, <2>1
<1>11. /\ <<x>> \o Ahead' \in Seq(Entry) /\ Len(<<x>> \o Ahead') = 1 + Len(Ahead')
       /\ \A i \in 1..1 + Len(Ahead') :
            (<<x>> \o Ahead')[i] = IF i <= 1 THEN x ELSE Ahead'[i - 1]
  <2>. DEFINE one == <<x>>
  <2>1. one \in Seq(Entry) /\ Len(one) = 1 /\ one[1] = x
    <3>. HIDE DEF x
    <3>. QED BY <1>5
  <2>. HIDE DEF one, x
  <2>2. /\ one \o Ahead' \in Seq(Entry) /\ Len(one \o Ahead') = Len(one) + Len(Ahead')
        /\ \A i \in 1..Len(one) + Len(Ahead') :
             (one \o Ahead')[i] = IF i <= Len(one) THEN one[i] ELSE Ahead'[i - Len(one)]
    BY <1>9, <2>1, ConcatProperties
  <2>3. \A i \in 1..1 + Len(Ahead') : i <= 1 => i = 1
    BY <1>9, LenProperties
  <2>4. \A i \in 1..1 + Len(Ahead') : (one \o Ahead')[i] = IF i <= 1 THEN x ELSE Ahead'[i - 1]
    BY <2>1, <2>2, <2>3
  <2>. QED BY <2>1, <2>2, <2>4 DEF one
<1>12. \A i \in 1..Len(Ahead) : Ahead[i] = (<<x>> \o Ahead')[i]
  <2>. SUFFICES ASSUME NEW i \in 1..Len(todo) PROVE Ahead[i] = (<<x>> \o Ahead')[i]
    BY <1>10
  <2>1. Ahead[i] = Ran(root, todo[i]) BY <1>6
  <2>2. CASE i = 1
    BY <1>4, <1>9, <1>11, <2>1, <2>2
  <2>3. CASE i # 1
    <3>1. i - 1 \in 1..Len(Tail(todo)) /\ (i - 1) + 1 = i /\ ~(i <= 1) BY <1>4, <2>3
    <3>2. Ahead'[i - 1] = Ran(root, todo[i]) BY <1>4, <1>7, <3>1
    <3>3. i \in 1..1 + Len(Ahead') BY <1>4, <1>9
    <3>. QED BY <1>11, <2>1, <3>1, <3>2, <3>3
  <2>. QED BY <2>2, <2>3
<1>13. Ahead = <<x>> \o Ahead'
  <2>. DEFINE s == <<x>> \o Ahead'
  <2>1. s \in Seq(Entry) /\ Len(s) = 1 + Len(Ahead') /\ \A i \in 1..Len(Ahead) : Ahead[i] = s[i]
    BY <1>11, <1>12
  <2>. HIDE DEF s
  <2>2. Len(Ahead) = Len(s) BY <1>4, <1>9, <1>10, <2>1
  <2>3. Ahead = s BY <1>10, <2>1, <2>2, SeqEqual
  <2>. QED BY <2>3 DEF s
<1>. QED BY <1>5, <1>9, <1>13 DEF root

LEMMA PlanType ==
  ASSUME input \in Inputs
  PROVE  Plan \in Seq(Entry)
<1>1. input.command \in {"build", "test", "try", "init"} BY InputFacts DEF InputType
<1>2. CASE input.command \in {"try", "init"}
  <2>1. Copied(input.command) \in Entry BY <1>2, EntryType DEF Copies
  <2>2. \A x \in Entry : <<x>> \in Seq(Entry) OBVIOUS
  <2>. QED BY <1>2, <2>1, <2>2, PlanIs
<1>3. CASE input.command \in {"build", "test"} BY <1>3, PlanIs, FromType
<1>. QED BY <1>1, <1>2, <1>3

\* A step between two levels leaves as much to do as there was.
LEMMA Stays ==
  ASSUME NEW X \in Seq(Entry), Plan = done \o (Ahead \o X),
         todo = <<>>, todo' = <<>>, done' = done, input' = input
  PROVE  Plan' = done' \o (Ahead' \o X)
<1>1. Ahead' = Ahead BY AheadNothing
<1>. QED BY <1>1, PlanConstants

\* A step that begins a level takes it from what is left after the last one.
LEMMA Begins ==
  ASSUME NEW X \in Seq(Entry), NEW Y, NEW root, NEW scripts, NEW level,
         X = All(root, scripts, level) \o Y, Plan = done \o (Ahead \o X),
         todo = <<>>, pc' = <<root, level>>, todo' = Glob(scripts, level),
         done' = done, input' = input
  PROVE  Plan' = done' \o (Ahead' \o Y)
<1>1. Ahead \o X = X BY AheadNothing, ConcatEmptySeq
<1>2. Ahead' = All(root, scripts, level) BY AheadBegun
<1>. QED BY <1>1, <1>2, PlanConstants

\* A copy is the next piece of work.
LEMMA Works ==
  ASSUME NEW x \in Entry, NEW Y \in Seq(Entry), done \in Seq(Entry),
         Plan = done \o (Ahead \o (<<x>> \o Y)),
         todo = <<>>, todo' = <<>>, done' = Append(done, x), input' = input
  PROVE  Plan' = done' \o (Ahead' \o Y)
<1>1. Ahead = <<>> /\ Ahead' = <<>> BY AheadNothing
<1>2. <<>> \in Seq(Entry) BY EmptySeq
<1>3. <<x>> \in Seq(Entry) OBVIOUS
<1>. DEFINE one == <<x>>
<1>. HIDE DEF one
<1>4. one \in Seq(Entry) BY <1>3 DEF one
<1>5. Ahead \o (one \o Y) = (one \o Ahead') \o Y
  <2>1. one \o Y \in Seq(Entry) BY <1>4, ConcatProperties
  <2>. QED BY <1>1, <1>4, <2>1, ConcatEmptySeq
<1>6. done \o ((one \o Ahead') \o Y) = Append(done, x) \o (Ahead' \o Y)
  BY <1>1, <1>2, Moved DEF one
<1>7. Plan = done \o (Ahead \o (one \o Y)) BY DEF one
<1>. QED BY <1>5, <1>6, <1>7, PlanConstants, Zenon

\* Where the run level of no script is to run, ROOTFS is not entered.
LEMMA NothingToBuild ==
  ASSUME input \in Inputs, upper = Inherited, ~NeedsBuild
  PROVE  FromEarly = FromFiles
<1>1. OfLevels(input.home, {"build"}) = {} BY InputFacts DEF NeedsBuild, OfLevels
<1>2. OfLevels(InRoot, {"inherit-build-early"}) = {}
  BY RootfsIsInRoot DEF NeedsBuild, InRootfs
<1>3. All("rootfs", input.home, "build") = <<>> BY <1>1, InputFacts, NothingAll
<1>4. All("rootfs", InRoot, "inherit-build-early") = <<>> BY <1>2, InRootDirectory, NothingAll
<1>5. FromBuild = <<>> \o FromFiles BY <1>3 DEF FromBuild
<1>6. FromBuild = FromFiles BY <1>5, FromType, ConcatEmptySeq
<1>7. FromEarly = <<>> \o FromBuild BY <1>4 DEF FromEarly
<1>8. FromEarly = FromBuild BY <1>7, FromType, ConcatEmptySeq
<1>. QED BY <1>6, <1>8

LEMMA NothingLate ==
  ASSUME input \in Inputs, upper = Complete, ~NeedsLate
  PROVE  FromLate = FromEnd
<1>1. OfLevels(input.home, {"build-late"}) = {} BY InputFacts DEF NeedsLate, OfLevels
<1>2. OfLevels(InRoot, {"inherit-build-late"}) = {}
  BY RootfsIsInRoot DEF NeedsLate, InRootfs
<1>3. All("rootfs", input.home, "build-late") = <<>> BY <1>1, InputFacts, NothingAll
<1>4. All("rootfs", InRoot, "inherit-build-late") = <<>> BY <1>2, InRootDirectory, NothingAll
<1>5. FromInLate = <<>> \o FromEnd BY <1>4 DEF FromInLate
<1>6. FromInLate = FromEnd BY <1>5, FromType, ConcatEmptySeq
<1>7. FromLate = <<>> \o FromInLate BY <1>3 DEF FromLate
<1>8. FromLate = FromInLate BY <1>7, FromType, ConcatEmptySeq
<1>. QED BY <1>6, <1>8

LEMMA PlanInit == Init => PlanInv
<1>. SUFFICES ASSUME Init PROVE PlanInv
  OBVIOUS
<1>1. input \in Inputs /\ pc = <<"program", "prepare">> /\ todo = <<>> /\ done = <<>>
  BY DEF Init
<1>2. Ahead = <<>> BY <1>1, AheadNothing
<1>3. Plan = <<>> \o (<<>> \o Plan) BY <1>1, PlanType, ConcatEmptySeq
<1>4. <<>> \in Seq(Entry) BY EmptySeq
<1>. QED BY <1>1, <1>2, <1>3, <1>4 DEF PlanInv, LeavesAt, Ending

\* The last piece of work completes the plan.
LEMMA LastWork ==
  ASSUME NEW x \in Entry, done \in Seq(Entry), Plan = done \o (Ahead \o <<x>>),
         todo = <<>>, done' = Append(done, x), input' = input
  PROVE  Plan' = done' /\ done' \in Seq(Entry)
<1>1. Ahead = <<>> BY AheadNothing
<1>2. <<x>> \in Seq(Entry) OBVIOUS
<1>3. <<>> \o <<x>> = <<x>> BY <1>2, ConcatEmptySeq, Zenon
<1>4. Append(done, x) = done \o <<x>> /\ Append(done, x) \in Seq(Entry)
  BY AppendIsConcat, AppendProperties
<1>5. Plan = Append(done, x) BY <1>1, <1>3, <1>4, Zenon
<1>. QED BY <1>4, <1>5, PlanConstants

LEMMA PlanNext == TypeInv /\ LayerInv /\ PlanInv /\ [Next]_vars => PlanInv'
<1>. SUFFICES ASSUME TypeInv, LayerInv, PlanInv, [Next]_vars PROVE PlanInv'
  OBVIOUS
<1>0. /\ input \in Inputs /\ pc \in Places /\ done \in Seq(Entry)
      /\ (pc \notin Levelled => todo = <<>>)
  BY DEF TypeInv, PlanInv
<1>1. CASE Prepare
  <2>1. CASE input.command = "build" /\ Begin("builder", "prestart-early")
    <3>1. pc = <<"program", "prepare">> /\ todo = <<>> /\ result = "running" /\ pc' = <<"builder", "prestart-early">>
          /\ todo' = Glob(Directory("builder", "prestart-early"), "prestart-early")
          /\ done' = done /\ input' = input
      BY <1>0, <1>1, <2>1 DEF Prepare, At, Begin, Goto, Levelled
    <3>2. todo' = Glob(input.builder, "prestart-early") BY <1>0, <3>1, BuilderLevel
    <3>3. Plan = done \o (Ahead \o Plan) BY <3>1 DEF PlanInv, LeavesAt
    <3>4. Plan = All("builder", input.builder, "prestart-early") \o FromPreL BY <1>0, <2>1, PlanIs DEF FromPreE
    <3>5. Plan \in Seq(Entry) BY <1>0, PlanType
    <3>6. Plan' = done' \o (Ahead' \o FromPreL)
      BY <3>1, <3>2, <3>3, <3>4, <3>5, Begins
    <3>. QED BY <1>0, <3>1, <3>6, PlanConstants DEF PlanInv, LeavesAt, Ending
  <2>2. CASE input.command = "test" /\ Begin("builder", "inherit-build-early")
    <3>1. pc = <<"program", "prepare">> /\ todo = <<>> /\ result = "running" /\ pc' = <<"builder", "inherit-build-early">>
          /\ todo' = Glob(Directory("builder", "inherit-build-early"), "inherit-build-early")
          /\ done' = done /\ input' = input
      BY <1>0, <1>1, <2>2 DEF Prepare, At, Begin, Goto, Levelled
    <3>2. todo' = Glob(input.builder, "inherit-build-early") BY <1>0, <3>1, BuilderLevel
    <3>3. Plan = done \o (Ahead \o Plan) BY <3>1 DEF PlanInv, LeavesAt
    <3>4. Plan = All("builder", input.builder, "inherit-build-early") \o FromOwn BY <1>0, <2>2, PlanIs DEF FromSh
    <3>5. Plan \in Seq(Entry) BY <1>0, PlanType
    <3>6. Plan' = done' \o (Ahead' \o FromOwn)
      BY <3>1, <3>2, <3>3, <3>4, <3>5, Begins
    <3>. QED BY <1>0, <3>1, <3>6, PlanConstants DEF PlanInv, LeavesAt, Ending
  <2>3. CASE input.command \in {"try", "init"} /\ Goto("home", input.command) /\ UNCHANGED todo
    <3>1. /\ pc = <<"program", "prepare">> /\ todo = <<>> /\ result = "running"
          /\ pc' = <<"home", input.command>> /\ todo' = <<>> /\ done' = done /\ input' = input
      BY <1>0, <1>1, <2>3 DEF Prepare, At, Goto, Levelled
    <3>2. Plan = done \o (Ahead \o Plan) BY <3>1 DEF PlanInv, LeavesAt
    <3>3. Plan' = done' \o (Ahead' \o Plan) BY <1>0, <3>1, <3>2, PlanType, Stays
    <3>4. Plan = <<Copied(input.command)>> BY <1>0, <2>3, PlanIs
    <3>5. \A what : Copied(what)' = Copied(what) BY DEF Copied
    <3>6. CASE input.command = "try"
      BY <1>0, <3>1, <3>3, <3>4, <3>5, <3>6 DEF PlanInv, LeavesAt, Ending
    <3>7. CASE input.command = "init"
      BY <1>0, <3>1, <3>3, <3>4, <3>5, <3>7 DEF PlanInv, LeavesAt, Ending
    <3>. QED BY <2>3, <3>6, <3>7
  <2>. QED BY <1>1, <2>1, <2>2, <2>3 DEF Prepare
<1>2. CASE RunScript
  <2>. DEFINE x == Ran(pc[1], Head(todo))
  <2>1. /\ x \in Entry /\ Ahead' \in Seq(Entry) /\ Ahead = <<x>> \o Ahead'
    BY <1>2, AheadRun
  <2>2. /\ done' = Append(done, x) /\ input' = input /\ pc' = pc /\ result' = result
        /\ result = "running" /\ pc \in Levelled
    BY <1>0, <1>2 DEF RunScript, Image
  <2>. HIDE DEF x
  <2>3. done' \in Seq(Entry) BY <1>0, <2>1, <2>2, AppendProperties
  <2>4. ASSUME NEW X \in Seq(Entry), Plan = done \o (Ahead \o X)
        PROVE  Plan' = done' \o (Ahead' \o X)
    <3>1. done \o ((<<x>> \o Ahead') \o X) = Append(done, x) \o (Ahead' \o X)
      BY <1>0, <2>1, Moved
    <3>2. Plan' = Plan BY <2>2, PlanConstants
    <3>. QED BY <2>1, <2>2, <2>4, <3>1, <3>2, Zenon
  <2>5. CASE pc = <<"builder", "prestart-early">>
    <3>1. Plan = done \o (Ahead \o FromPreL) BY <2>2, <2>5 DEF PlanInv, LeavesAt
    <3>2. Plan' = done' \o (Ahead' \o FromPreL) BY <1>0, <2>4, <3>1, FromType
    <3>. QED BY <2>2, <2>3, <2>5, <3>2, PlanConstants DEF PlanInv, LeavesAt, Ending
  <2>6. CASE pc = <<"builder", "prestart-late">>
    <3>1. Plan = done \o (Ahead \o FromSh) BY <2>2, <2>6 DEF PlanInv, LeavesAt
    <3>2. Plan' = done' \o (Ahead' \o FromSh) BY <1>0, <2>4, <3>1, FromType
    <3>. QED BY <2>2, <2>3, <2>6, <3>2, PlanConstants DEF PlanInv, LeavesAt, Ending
  <2>7. CASE pc = <<"builder", "inherit-build-early">>
    <3>1. Plan = done \o (Ahead \o FromOwn) BY <2>2, <2>7 DEF PlanInv, LeavesAt
    <3>2. Plan' = done' \o (Ahead' \o FromOwn) BY <1>0, <2>4, <3>1, FromType
    <3>. QED BY <2>2, <2>3, <2>7, <3>2, PlanConstants DEF PlanInv, LeavesAt, Ending
  <2>8. CASE pc = <<"builder", "builder">>
    <3>1. Plan = done \o (Ahead \o FromEarly) BY <2>2, <2>8 DEF PlanInv, LeavesAt
    <3>2. Plan' = done' \o (Ahead' \o FromEarly) BY <1>0, <2>4, <3>1, FromType
    <3>. QED BY <2>2, <2>3, <2>8, <3>2, PlanConstants DEF PlanInv, LeavesAt, Ending
  <2>9. CASE pc = <<"builder", "inherit-build-late">>
    <3>1. Plan = done \o (Ahead \o Tests) BY <2>2, <2>9 DEF PlanInv, LeavesAt
    <3>2. Plan' = done' \o (Ahead' \o Tests) BY <1>0, <2>4, <3>1, FromType
    <3>. QED BY <2>2, <2>3, <2>9, <3>2, PlanConstants DEF PlanInv, LeavesAt, Ending
  <2>10. CASE pc = <<"rootfs", "inherit-build-early">>
    <3>1. Plan = done \o (Ahead \o FromBuild) BY <2>2, <2>10 DEF PlanInv, LeavesAt
    <3>2. Plan' = done' \o (Ahead' \o FromBuild) BY <1>0, <2>4, <3>1, FromType
    <3>. QED BY <2>2, <2>3, <2>10, <3>2, PlanConstants DEF PlanInv, LeavesAt, Ending
  <2>11. CASE pc = <<"rootfs", "build">>
    <3>1. Plan = done \o (Ahead \o FromFiles) BY <2>2, <2>11 DEF PlanInv, LeavesAt
    <3>2. Plan' = done' \o (Ahead' \o FromFiles) BY <1>0, <2>4, <3>1, FromType
    <3>. QED BY <2>2, <2>3, <2>11, <3>2, PlanConstants DEF PlanInv, LeavesAt, Ending
  <2>12. CASE pc = <<"rootfs", "build-late">>
    <3>1. Plan = done \o (Ahead \o FromInLate) BY <2>2, <2>12 DEF PlanInv, LeavesAt
    <3>2. Plan' = done' \o (Ahead' \o FromInLate) BY <1>0, <2>4, <3>1, FromType
    <3>. QED BY <2>2, <2>3, <2>12, <3>2, PlanConstants DEF PlanInv, LeavesAt, Ending
  <2>13. CASE pc = <<"rootfs", "inherit-build-late">>
    <3>1. Plan = done \o (Ahead \o FromEnd) BY <2>2, <2>13 DEF PlanInv, LeavesAt
    <3>2. Plan' = done' \o (Ahead' \o FromEnd) BY <1>0, <2>4, <3>1, FromType
    <3>. QED BY <2>2, <2>3, <2>13, <3>2, PlanConstants DEF PlanInv, LeavesAt, Ending
  <2>. QED BY <2>2, <2>5, <2>6, <2>7, <2>8, <2>9, <2>10, <2>11, <2>12, <2>13 DEF Levelled
<1>3. CASE EndBuilderLevel
  <2>1. CASE Ended("builder", "prestart-early") /\ Then("template")
    <3>1. pc = <<"builder", "prestart-early">> /\ todo = <<>> /\ result = "running"
          /\ pc' = <<"builder", "template">> /\ todo' = <<>> /\ done' = done /\ input' = input
      BY <1>0, <2>1 DEF Ended, At, Then, Goto
    <3>2. Plan = done \o (Ahead \o FromPreL) BY <3>1 DEF PlanInv, LeavesAt
    <3>3. FromPreL \in Seq(Entry) BY <1>0, FromType
    <3>4. Plan' = done' \o (Ahead' \o FromPreL) BY <3>1, <3>2, <3>3, Stays
    <3>. QED BY <1>0, <3>1, <3>4, PlanConstants DEF PlanInv, LeavesAt, Ending
  <2>2. CASE Ended("builder", "prestart-late") /\ Begin("builder", "inherit-build-early")
    <3>1. pc = <<"builder", "prestart-late">> /\ todo = <<>> /\ result = "running" /\ pc' = <<"builder", "inherit-build-early">>
          /\ todo' = Glob(Directory("builder", "inherit-build-early"), "inherit-build-early")
          /\ done' = done /\ input' = input
      BY <1>0, <2>2 DEF Ended, At, Begin, Goto
    <3>2. todo' = Glob(input.builder, "inherit-build-early") BY <1>0, <3>1, BuilderLevel
    <3>3. Plan = done \o (Ahead \o FromSh) BY <3>1 DEF PlanInv, LeavesAt
    <3>4. FromSh = All("builder", input.builder, "inherit-build-early") \o FromOwn BY DEF FromSh
    <3>5. FromSh \in Seq(Entry) BY <1>0, FromType
    <3>6. Plan' = done' \o (Ahead' \o FromOwn)
      BY <3>1, <3>2, <3>3, <3>4, <3>5, Begins
    <3>. QED BY <1>0, <3>1, <3>6, PlanConstants DEF PlanInv, LeavesAt, Ending
  <2>3. CASE Ended("builder", "inherit-build-early") /\ Begin("builder", "builder")
    <3>1. pc = <<"builder", "inherit-build-early">> /\ todo = <<>> /\ result = "running" /\ pc' = <<"builder", "builder">>
          /\ todo' = Glob(Directory("builder", "builder"), "builder")
          /\ done' = done /\ input' = input
      BY <1>0, <2>3 DEF Ended, At, Begin, Goto
    <3>2. todo' = Glob(input.home, "builder") BY <1>0, <3>1, OwnLevel
    <3>3. Plan = done \o (Ahead \o FromOwn) BY <3>1 DEF PlanInv, LeavesAt
    <3>4. FromOwn = All("builder", input.home, "builder") \o FromEarly BY DEF FromOwn
    <3>5. FromOwn \in Seq(Entry) BY <1>0, FromType
    <3>6. Plan' = done' \o (Ahead' \o FromEarly)
      BY <3>1, <3>2, <3>3, <3>4, <3>5, Begins
    <3>. QED BY <1>0, <3>1, <3>6, PlanConstants DEF PlanInv, LeavesAt, Ending
  <2>4. CASE Ended("builder", "builder") /\ Then("inherit")
    <3>1. pc = <<"builder", "builder">> /\ todo = <<>> /\ result = "running"
          /\ pc' = <<"builder", "inherit">> /\ todo' = <<>> /\ done' = done /\ input' = input
      BY <1>0, <2>4 DEF Ended, At, Then, Goto
    <3>2. Plan = done \o (Ahead \o FromEarly) BY <3>1 DEF PlanInv, LeavesAt
    <3>3. FromEarly \in Seq(Entry) BY <1>0, FromType
    <3>4. Plan' = done' \o (Ahead' \o FromEarly) BY <3>1, <3>2, <3>3, Stays
    <3>. QED BY <1>0, <3>1, <3>4, PlanConstants DEF PlanInv, LeavesAt, Ending
  <2>5. CASE Ended("builder", "inherit-build-late") /\ Then("rmdir")
    <3>1. pc = <<"builder", "inherit-build-late">> /\ todo = <<>> /\ result = "running"
          /\ pc' = <<"builder", "rmdir">> /\ todo' = <<>> /\ done' = done /\ input' = input
      BY <1>0, <2>5 DEF Ended, At, Then, Goto
    <3>2. Plan = done \o (Ahead \o Tests) BY <3>1 DEF PlanInv, LeavesAt
    <3>3. Tests \in Seq(Entry) BY <1>0, FromType
    <3>4. Plan' = done' \o (Ahead' \o Tests) BY <3>1, <3>2, <3>3, Stays
    <3>. QED BY <1>0, <3>1, <3>4, PlanConstants DEF PlanInv, LeavesAt, Ending
  <2>. QED BY <1>3, <2>1, <2>2, <2>3, <2>4, <2>5 DEF EndBuilderLevel
<1>4. CASE EndRootfsLevel
  <2>1. CASE Ended("rootfs", "inherit-build-early") /\ Begin("rootfs", "build")
    <3>0. staged = Stage BY <2>1 DEF LayerInv, Building, Ended, At
    <3>1. pc = <<"rootfs", "inherit-build-early">> /\ todo = <<>> /\ result = "running" /\ pc' = <<"rootfs", "build">>
          /\ todo' = Glob(Directory("rootfs", "build"), "build")
          /\ done' = done /\ input' = input
      BY <1>0, <2>1 DEF Ended, At, Begin, Goto
    <3>2. todo' = Glob(input.home, "build") BY <1>0, <3>1, <3>0, BuildLevel
    <3>3. Plan = done \o (Ahead \o FromBuild) BY <3>1 DEF PlanInv, LeavesAt
    <3>4. FromBuild = All("rootfs", input.home, "build") \o FromFiles BY DEF FromBuild
    <3>5. FromBuild \in Seq(Entry) BY <1>0, FromType
    <3>6. Plan' = done' \o (Ahead' \o FromFiles)
      BY <3>1, <3>2, <3>3, <3>4, <3>5, Begins
    <3>. QED BY <1>0, <3>1, <3>6, PlanConstants DEF PlanInv, LeavesAt, Ending
  <2>2. CASE Ended("rootfs", "build") /\ Then("copy")
    <3>1. pc = <<"rootfs", "build">> /\ todo = <<>> /\ result = "running"
          /\ pc' = <<"builder", "copy">> /\ todo' = <<>> /\ done' = done /\ input' = input
      BY <1>0, <2>2 DEF Ended, At, Then, Goto
    <3>2. Plan = done \o (Ahead \o FromFiles) BY <3>1 DEF PlanInv, LeavesAt
    <3>3. FromFiles \in Seq(Entry) BY <1>0, FromType
    <3>4. Plan' = done' \o (Ahead' \o FromFiles) BY <3>1, <3>2, <3>3, Stays
    <3>. QED BY <1>0, <3>1, <3>4, PlanConstants DEF PlanInv, LeavesAt, Ending
  <2>3. CASE Ended("rootfs", "build-late") /\ Begin("rootfs", "inherit-build-late")
    <3>0. upper = Complete BY <2>3 DEF LayerInv, Finishing, Ended, At
    <3>1. pc = <<"rootfs", "build-late">> /\ todo = <<>> /\ result = "running" /\ pc' = <<"rootfs", "inherit-build-late">>
          /\ todo' = Glob(Directory("rootfs", "inherit-build-late"), "inherit-build-late")
          /\ done' = done /\ input' = input
      BY <1>0, <2>3 DEF Ended, At, Begin, Goto
    <3>2. todo' = Glob(InRoot, "inherit-build-late") BY <1>0, <3>1, <3>0, InheritLevel
    <3>3. Plan = done \o (Ahead \o FromInLate) BY <3>1 DEF PlanInv, LeavesAt
    <3>4. FromInLate = All("rootfs", InRoot, "inherit-build-late") \o FromEnd BY DEF FromInLate
    <3>5. FromInLate \in Seq(Entry) BY <1>0, FromType
    <3>6. Plan' = done' \o (Ahead' \o FromEnd)
      BY <3>1, <3>2, <3>3, <3>4, <3>5, Begins
    <3>. QED BY <1>0, <3>1, <3>6, PlanConstants DEF PlanInv, LeavesAt, Ending
  <2>4. CASE Ended("rootfs", "inherit-build-late") /\ Begin("builder", "inherit-build-late")
    <3>1. pc = <<"rootfs", "inherit-build-late">> /\ todo = <<>> /\ result = "running" /\ pc' = <<"builder", "inherit-build-late">>
          /\ todo' = Glob(Directory("builder", "inherit-build-late"), "inherit-build-late")
          /\ done' = done /\ input' = input
      BY <1>0, <2>4 DEF Ended, At, Begin, Goto
    <3>2. todo' = Glob(input.builder, "inherit-build-late") BY <1>0, <3>1, BuilderLevel
    <3>3. Plan = done \o (Ahead \o FromEnd) BY <3>1 DEF PlanInv, LeavesAt
    <3>4. FromEnd = All("builder", input.builder, "inherit-build-late") \o Tests BY DEF FromEnd
    <3>5. FromEnd \in Seq(Entry) BY <1>0, FromType
    <3>6. Plan' = done' \o (Ahead' \o Tests)
      BY <3>1, <3>2, <3>3, <3>4, <3>5, Begins
    <3>. QED BY <1>0, <3>1, <3>6, PlanConstants DEF PlanInv, LeavesAt, Ending
  <2>. QED BY <1>4, <2>1, <2>2, <2>3, <2>4 DEF EndRootfsLevel
<1>5. CASE TemplateBuilder
  <2>1. pc = <<"builder", "template">> /\ todo = <<>> /\ result = "running" /\ pc' = <<"builder", "prestart-late">>
        /\ todo' = Glob(Directory("builder", "prestart-late"), "prestart-late")
        /\ done' = done /\ input' = input
    BY <1>0, <1>5 DEF TemplateBuilder, At, Begin, Goto, Levelled
  <2>2. todo' = Glob(input.builder, "prestart-late") BY <1>0, <2>1, BuilderLevel
  <2>3. Plan = done \o (Ahead \o FromPreL) BY <2>1 DEF PlanInv, LeavesAt
  <2>4. FromPreL = All("builder", input.builder, "prestart-late") \o FromSh BY DEF FromPreL
  <2>5. FromPreL \in Seq(Entry) BY <1>0, FromType
  <2>6. Plan' = done' \o (Ahead' \o FromSh)
    BY <2>1, <2>2, <2>3, <2>4, <2>5, Begins
  <2>. QED BY <1>0, <2>1, <2>6, PlanConstants DEF PlanInv, LeavesAt, Ending
<1>6. CASE CopyInherit
  <2>1. pc = <<"builder", "inherit">> /\ todo = <<>> /\ result = "running"
        /\ pc' = <<"builder", "enter-build">> /\ todo' = <<>> /\ done' = done /\ input' = input
    BY <1>0, <1>6 DEF CopyInherit, At, Then, Goto, Levelled
  <2>2. Plan = done \o (Ahead \o FromEarly) BY <2>1 DEF PlanInv, LeavesAt
  <2>3. FromEarly \in Seq(Entry) BY <1>0, FromType
  <2>4. Plan' = done' \o (Ahead' \o FromEarly) BY <2>1, <2>2, <2>3, Stays
  <2>. QED BY <1>0, <2>1, <2>4, PlanConstants DEF PlanInv, LeavesAt, Ending
<1>7. CASE EnterBuild
  <2>0. upper = Inherited BY <1>7 DEF EnterBuild, At, LayerInv, Building
  <2>1. CASE NeedsBuild
    <3>1. pc = <<"builder", "enter-build">> /\ todo = <<>> /\ result = "running" /\ pc' = <<"rootfs", "inherit-build-early">>
          /\ todo' = Glob(Directory("rootfs", "inherit-build-early"), "inherit-build-early")
          /\ done' = done /\ input' = input
      BY <1>0, <1>7, <2>1 DEF EnterBuild, At, Begin, Goto, Levelled
    <3>2. todo' = Glob(InRoot, "inherit-build-early") BY <1>0, <3>1, <2>0, InheritLevel
    <3>3. Plan = done \o (Ahead \o FromEarly) BY <3>1 DEF PlanInv, LeavesAt
    <3>4. FromEarly = All("rootfs", InRoot, "inherit-build-early") \o FromBuild BY DEF FromEarly
    <3>5. FromEarly \in Seq(Entry) BY <1>0, FromType
    <3>6. Plan' = done' \o (Ahead' \o FromBuild)
      BY <3>1, <3>2, <3>3, <3>4, <3>5, Begins
    <3>. QED BY <1>0, <3>1, <3>6, PlanConstants DEF PlanInv, LeavesAt, Ending
  <2>2. CASE ~NeedsBuild
    <3>1. pc = <<"builder", "enter-build">> /\ todo = <<>> /\ result = "running"
          /\ pc' = <<"builder", "copy">> /\ todo' = <<>> /\ done' = done /\ input' = input
      BY <1>0, <1>7, <2>2 DEF EnterBuild, At, Then, Goto, Levelled
    <3>2. Plan = done \o (Ahead \o FromEarly) BY <3>1 DEF PlanInv, LeavesAt
    <3>3. FromEarly \in Seq(Entry) BY <1>0, FromType
    <3>4. Plan' = done' \o (Ahead' \o FromEarly) BY <3>1, <3>2, <3>3, Stays
    <3>5. FromEarly = FromFiles BY <1>0, <2>0, <2>2, NothingToBuild
    <3>. QED BY <1>0, <3>1, <3>4, <3>5, PlanConstants DEF PlanInv, LeavesAt, Ending
  <2>. QED BY <2>1, <2>2
<1>8. CASE CopyFiles
  <2>1. pc = <<"builder", "copy">> /\ todo = <<>> /\ result = "running" /\ result' = result
        /\ pc' = <<"builder", "enter-build-late">> /\ todo' = <<>> /\ done' = Append(done, Copied("files")) /\ input' = input
    BY <1>0, <1>8 DEF CopyFiles, At, Then, Goto, Levelled, Image
  <2>2. Plan = done \o (Ahead \o FromFiles) BY <2>1 DEF PlanInv, LeavesAt
  <2>3. FromFiles = <<Copied("files")>> \o FromLate BY DEF FromFiles
  <2>4. Copied("files") \in Entry /\ FromLate \in Seq(Entry) BY <1>0, EntryType, FromType, EmptySeq DEF Copies
  <2>5. done' \in Seq(Entry) BY <1>0, <2>1, <2>4, AppendProperties
  <2>6. Plan' = done' \o (Ahead' \o FromLate) BY <1>0, <2>1, <2>2, <2>3, <2>4, Works
  <2>. QED BY <2>1, <2>5, <2>6, PlanConstants DEF PlanInv, LeavesAt, Ending
<1>9. CASE EnterBuildLate
  <2>0. upper = Complete /\ staged = Stage BY <1>9 DEF EnterBuildLate, At, LayerInv, Finishing
  <2>1. CASE NeedsLate
    <3>1. pc = <<"builder", "enter-build-late">> /\ todo = <<>> /\ result = "running" /\ pc' = <<"rootfs", "build-late">>
          /\ todo' = Glob(Directory("rootfs", "build-late"), "build-late")
          /\ done' = done /\ input' = input
      BY <1>0, <1>9, <2>1 DEF EnterBuildLate, At, Begin, Goto, Levelled
    <3>2. todo' = Glob(input.home, "build-late") BY <1>0, <3>1, <2>0, BuildLevel
    <3>3. Plan = done \o (Ahead \o FromLate) BY <3>1 DEF PlanInv, LeavesAt
    <3>4. FromLate = All("rootfs", input.home, "build-late") \o FromInLate BY DEF FromLate
    <3>5. FromLate \in Seq(Entry) BY <1>0, FromType
    <3>6. Plan' = done' \o (Ahead' \o FromInLate)
      BY <3>1, <3>2, <3>3, <3>4, <3>5, Begins
    <3>. QED BY <1>0, <3>1, <3>6, PlanConstants DEF PlanInv, LeavesAt, Ending
  <2>2. CASE ~NeedsLate
    <3>1. pc = <<"builder", "enter-build-late">> /\ todo = <<>> /\ result = "running" /\ pc' = <<"builder", "inherit-build-late">>
          /\ todo' = Glob(Directory("builder", "inherit-build-late"), "inherit-build-late")
          /\ done' = done /\ input' = input
      BY <1>0, <1>9, <2>2 DEF EnterBuildLate, At, Begin, Goto, Levelled
    <3>2. todo' = Glob(input.builder, "inherit-build-late") BY <1>0, <3>1, BuilderLevel
    <3>3. Plan = done \o (Ahead \o FromLate) BY <3>1 DEF PlanInv, LeavesAt
    <3>4. FromLate = All("builder", input.builder, "inherit-build-late") \o Tests BY <1>0, <2>0, <2>2, NothingLate DEF FromEnd
    <3>5. FromLate \in Seq(Entry) BY <1>0, FromType
    <3>6. Plan' = done' \o (Ahead' \o Tests)
      BY <3>1, <3>2, <3>3, <3>4, <3>5, Begins
    <3>. QED BY <1>0, <3>1, <3>6, PlanConstants DEF PlanInv, LeavesAt, Ending
  <2>. QED BY <2>1, <2>2
<1>10. CASE Rmdir
  <2>1. /\ pc = <<"builder", "rmdir">> /\ todo = <<>> /\ result = "running"
        /\ todo' = <<>> /\ done' = done /\ input' = input
        /\ pc' = IF input.command = "test" THEN <<"builder", "tests">> ELSE <<"program", "manifest">>
    BY <1>0, <1>10 DEF Rmdir, At, Then, Goto, Levelled
  <2>2. Plan = done \o (Ahead \o Tests) BY <2>1 DEF PlanInv, LeavesAt
  <2>3. Plan' = done' \o (Ahead' \o Tests) BY <1>0, <2>1, <2>2, FromType, Stays
  <2>4. CASE input.command = "test"
    <3>1. Tests = <<Copied("tests")>> /\ Copied("tests")' = Copied("tests")
      BY <2>4 DEF Tests, Copied
    <3>. QED BY <1>0, <2>1, <2>3, <2>4, <3>1 DEF PlanInv, LeavesAt, Ending
  <2>5. CASE input.command # "test"
    <3>1. Tests = <<>> /\ Ahead' = <<>> BY <2>1, <2>5, AheadNothing DEF Tests
    <3>2. Plan' = done' BY <1>0, <2>1, <2>3, <3>1, ConcatEmptySeq, EmptySeq
    <3>. QED BY <1>0, <2>1, <2>5, <3>2 DEF PlanInv, LeavesAt, Ending
  <2>. QED BY <2>4, <2>5
<1>11. CASE CopyTests
  <2>1. /\ pc = <<"builder", "tests">> /\ pc' = <<"program", "manifest">>
        /\ done' = Append(done, Copied("tests")) /\ input' = input
        /\ todo = <<>> /\ todo' = <<>> /\ result = "running"
    BY <1>0, <1>11 DEF CopyTests, At, Goto, Levelled
  <2>2. Plan = done \o (Ahead \o <<Copied("tests")>>) BY <2>1 DEF PlanInv, LeavesAt
  <2>3. Copied("tests") \in Entry BY EntryType DEF Copies
  <2>4. Plan' = done' /\ done' \in Seq(Entry) BY <1>0, <2>1, <2>2, <2>3, LastWork
  <2>. QED BY <2>1, <2>4 DEF PlanInv, LeavesAt, Ending
<1>12. CASE RunHomeCommand
  <2>1. /\ pc \in {<<"home", "try">>, <<"home", "init">>} /\ pc' = <<"program", "manifest">>
        /\ done' = Append(done, Copied(input.command)) /\ input' = input
        /\ todo = <<>> /\ todo' = <<>> /\ result = "running"
    BY <1>0, <1>12 DEF RunHomeCommand, Goto, Levelled, Places, Unbuilt, Building, Finishing, Ending
  <2>2. input.command \in {"try", "init"} /\ Plan = done \o (Ahead \o <<Copied(input.command)>>)
    BY <2>1 DEF PlanInv, LeavesAt, LayerInv
  <2>3. Copied(input.command) \in Entry BY <2>2, EntryType DEF Copies
  <2>4. Plan' = done' /\ done' \in Seq(Entry) BY <1>0, <2>1, <2>2, <2>3, LastWork
  <2>. QED BY <2>1, <2>4 DEF PlanInv, LeavesAt, Ending
<1>13. CASE WriteManifest
  BY <1>0, <1>13, PlanConstants DEF WriteManifest, At, Goto, PlanInv, LeavesAt, Ending
<1>14. CASE TarAci
  BY <1>0, <1>14, PlanConstants DEF TarAci, At, Goto, PlanInv, LeavesAt, Ending
<1>15. CASE StatAci
  BY <1>0, <1>15, PlanConstants DEF StatAci, NotCreated, At, PlanInv, LeavesAt, Ending
<1>16. CASE FailScript
  BY <1>0, <1>16 DEF FailScript, PlanInv
<1>17. CASE Fail
  BY <1>0, <1>17 DEF Fail, PlanInv
<1>18. CASE UNCHANGED vars
  <2>1. Ahead' = Ahead BY <1>18 DEF vars, Ahead, Ran
  <2>2. \A what : Copied(what)' = Copied(what) BY DEF Copied
  <2>3. done' = done /\ pc' = pc /\ result' = result /\ input' = input BY <1>18 DEF vars
  <2>4. /\ Tests' = Tests /\ FromEnd' = FromEnd /\ FromInLate' = FromInLate
        /\ FromLate' = FromLate /\ FromFiles' = FromFiles /\ FromBuild' = FromBuild
        /\ FromEarly' = FromEarly /\ FromOwn' = FromOwn
        /\ FromSh' = FromSh /\ FromPreL' = FromPreL /\ Plan' = Plan
    BY <2>3, PlanConstants
  <2>5. done' \in Seq(Entry) BY <1>0, <2>3
  <2>6. Ending' = Ending BY DEF Ending
  <2>7. CASE result = "running"
    <3>1. ASSUME NEW place, NEW X, LeavesAt(place, X)
          PROVE  pc' = place => Plan' = done' \o (Ahead' \o X)
      BY <2>1, <2>3, <2>4, <3>1 DEF LeavesAt
    <3>2. /\ LeavesAt(<<"program", "prepare">>, Plan)
          /\ LeavesAt(<<"home", "try">>, <<Copied("try")>>)
          /\ LeavesAt(<<"home", "init">>, <<Copied("init")>>)
          /\ LeavesAt(<<"builder", "prestart-early">>, FromPreL)
          /\ LeavesAt(<<"builder", "template">>, FromPreL)
          /\ LeavesAt(<<"builder", "prestart-late">>, FromSh)
          /\ LeavesAt(<<"builder", "inherit-build-early">>, FromOwn)
          /\ LeavesAt(<<"builder", "builder">>, FromEarly)
          /\ LeavesAt(<<"builder", "inherit">>, FromEarly)
          /\ LeavesAt(<<"builder", "enter-build">>, FromEarly)
          /\ LeavesAt(<<"rootfs", "inherit-build-early">>, FromBuild)
          /\ LeavesAt(<<"rootfs", "build">>, FromFiles)
          /\ LeavesAt(<<"builder", "copy">>, FromFiles)
          /\ LeavesAt(<<"builder", "enter-build-late">>, FromLate)
          /\ LeavesAt(<<"rootfs", "build-late">>, FromInLate)
          /\ LeavesAt(<<"rootfs", "inherit-build-late">>, FromEnd)
          /\ LeavesAt(<<"builder", "inherit-build-late">>, Tests)
          /\ LeavesAt(<<"builder", "rmdir">>, Tests)
          /\ LeavesAt(<<"builder", "tests">>, <<Copied("tests")>>)
          /\ pc \in Ending => Plan = done
      BY <2>7 DEF PlanInv
    <3>3. LeavesAt(<<"program", "prepare">>, Plan)'
      BY <2>2, <2>4, <3>1, <3>2 DEF LeavesAt
    <3>4. LeavesAt(<<"home", "try">>, <<Copied("try")>>)'
      BY <2>2, <2>4, <3>1, <3>2 DEF LeavesAt
    <3>5. LeavesAt(<<"home", "init">>, <<Copied("init")>>)'
      BY <2>2, <2>4, <3>1, <3>2 DEF LeavesAt
    <3>6. LeavesAt(<<"builder", "prestart-early">>, FromPreL)'
      BY <2>2, <2>4, <3>1, <3>2 DEF LeavesAt
    <3>7. LeavesAt(<<"builder", "template">>, FromPreL)'
      BY <2>2, <2>4, <3>1, <3>2 DEF LeavesAt
    <3>8. LeavesAt(<<"builder", "prestart-late">>, FromSh)'
      BY <2>2, <2>4, <3>1, <3>2 DEF LeavesAt
    <3>9. LeavesAt(<<"builder", "inherit-build-early">>, FromOwn)'
      BY <2>2, <2>4, <3>1, <3>2 DEF LeavesAt
    <3>10. LeavesAt(<<"builder", "builder">>, FromEarly)'
      BY <2>2, <2>4, <3>1, <3>2 DEF LeavesAt
    <3>11. LeavesAt(<<"builder", "inherit">>, FromEarly)'
      BY <2>2, <2>4, <3>1, <3>2 DEF LeavesAt
    <3>12. LeavesAt(<<"builder", "enter-build">>, FromEarly)'
      BY <2>2, <2>4, <3>1, <3>2 DEF LeavesAt
    <3>13. LeavesAt(<<"rootfs", "inherit-build-early">>, FromBuild)'
      BY <2>2, <2>4, <3>1, <3>2 DEF LeavesAt
    <3>14. LeavesAt(<<"rootfs", "build">>, FromFiles)'
      BY <2>2, <2>4, <3>1, <3>2 DEF LeavesAt
    <3>15. LeavesAt(<<"builder", "copy">>, FromFiles)'
      BY <2>2, <2>4, <3>1, <3>2 DEF LeavesAt
    <3>16. LeavesAt(<<"builder", "enter-build-late">>, FromLate)'
      BY <2>2, <2>4, <3>1, <3>2 DEF LeavesAt
    <3>17. LeavesAt(<<"rootfs", "build-late">>, FromInLate)'
      BY <2>2, <2>4, <3>1, <3>2 DEF LeavesAt
    <3>18. LeavesAt(<<"rootfs", "inherit-build-late">>, FromEnd)'
      BY <2>2, <2>4, <3>1, <3>2 DEF LeavesAt
    <3>19. LeavesAt(<<"builder", "inherit-build-late">>, Tests)'
      BY <2>2, <2>4, <3>1, <3>2 DEF LeavesAt
    <3>20. LeavesAt(<<"builder", "rmdir">>, Tests)'
      BY <2>2, <2>4, <3>1, <3>2 DEF LeavesAt
    <3>21. LeavesAt(<<"builder", "tests">>, <<Copied("tests")>>)'
      BY <2>2, <2>4, <3>1, <3>2 DEF LeavesAt
    <3>. QED BY <2>3, <2>4, <2>5, <2>6, <3>2, <3>3, <3>4, <3>5, <3>6, <3>7, <3>8, <3>9, <3>10, <3>11, <3>12, <3>13, <3>14, <3>15, <3>16, <3>17, <3>18, <3>19, <3>20, <3>21 DEF PlanInv
  <2>8. CASE result # "running" BY <2>3, <2>5, <2>8 DEF PlanInv
  <2>. QED BY <2>7, <2>8
<1>. QED
  BY <1>1, <1>2, <1>3, <1>4, <1>5, <1>6, <1>7, <1>8, <1>9, <1>10, <1>11, <1>12, <1>13,
     <1>14, <1>15, <1>16, <1>17, <1>18 DEF Next

LEMMA InvAlways == Spec => [](TypeInv /\ LayerInv /\ PlanInv)
<1>1. Init => TypeInv /\ LayerInv /\ PlanInv BY TypeInit, LayerInit, PlanInit
<1>2. TypeInv /\ LayerInv /\ PlanInv /\ [Next]_vars => (TypeInv /\ LayerInv /\ PlanInv)'
  BY TypeNext, LayerNext, PlanNext
<1>. QED BY <1>1, <1>2, PTL DEF Spec

----------------------------------------------------------------------------
(* The refinement of BuildRun *)

\* A piece of work that comes first of what is left is a step of the promise.
LEMMA WorkImplements ==
  ASSUME NEW x \in Entry, NEW Y \in Seq(Entry), done \in Seq(Entry),
         Plan = Append(done, x) \o Y, Plan' = Plan, done' = Append(done, x),
         result = "running", image = "none", result' = result, image' = image
  PROVE  Promised!Next
<1>1. Len(done) < Len(Plan) /\ Plan[Len(done) + 1] = x
  BY NextOfPlan
<1>2. Promised!Work BY <1>1 DEF Promised!Work
<1>. QED BY <1>2 DEF Promised!Next

LEMMA CopyImplements ==
  ASSUME NEW x \in Entry, NEW Y \in Seq(Entry), done \in Seq(Entry),
         Plan = done \o (Ahead \o (<<x>> \o Y)), todo = <<>>,
         input' = input, done' = Append(done, x),
         result = "running", image = "none", result' = result, image' = image
  PROVE  Promised!Next
<1>1. Ahead = <<>> BY AheadNothing
<1>. DEFINE one == <<x>>
<1>2. one \in Seq(Entry) OBVIOUS
<1>3. <<>> \in Seq(Entry) /\ <<>> \o Y = Y BY EmptySeq, ConcatEmptySeq
<1>4. done \o ((one \o <<>>) \o Y) = Append(done, x) \o (<<>> \o Y) BY <1>3, Moved
<1>. HIDE DEF one
<1>5. one \o <<>> = one /\ <<>> \o (one \o Y) = one \o Y
  <2>1. one \o Y \in Seq(Entry) BY <1>2, ConcatProperties
  <2>. QED BY <1>2, <2>1, ConcatEmptySeq
<1>6. Plan = done \o (<<>> \o (one \o Y)) BY <1>1 DEF one
<1>7. Plan = Append(done, x) \o Y BY <1>3, <1>4, <1>5, <1>6, Zenon
<1>. QED BY <1>7, PlanConstants, WorkImplements

\* In a level there is always a rest of the plan after it.
LEMMA RestAtLevel ==
  ASSUME TypeInv, PlanInv, pc \in Levelled, result = "running"
  PROVE  \E X \in Seq(Entry) : Plan = done \o (Ahead \o X)
<1>1. input \in Inputs BY DEF TypeInv
<1>2. \/ Plan = done \o (Ahead \o FromPreL) \/ Plan = done \o (Ahead \o FromSh)
      \/ Plan = done \o (Ahead \o FromOwn) \/ Plan = done \o (Ahead \o FromEarly)
      \/ Plan = done \o (Ahead \o Tests) \/ Plan = done \o (Ahead \o FromBuild)
      \/ Plan = done \o (Ahead \o FromFiles) \/ Plan = done \o (Ahead \o FromInLate)
      \/ Plan = done \o (Ahead \o FromEnd)
  BY DEF PlanInv, LeavesAt, Levelled
<1>. QED BY <1>1, <1>2, FromType

LEMMA StepImplements ==
  TypeInv /\ LayerInv /\ PlanInv /\ [Next]_vars => [Promised!Next]_(Promised!vars)
<1>. SUFFICES ASSUME TypeInv, LayerInv, PlanInv, [Next]_vars
              PROVE  Promised!Next \/ UNCHANGED Promised!vars
  OBVIOUS
<1>0. /\ input \in Inputs /\ pc \in Places /\ done \in Seq(Entry)
      /\ (pc \notin Levelled => todo = <<>>)
  BY DEF TypeInv, PlanInv
<1>1. ASSUME UNCHANGED <<input, done, Image>> PROVE UNCHANGED Promised!vars
  BY <1>1, PlanConstants DEF Promised!vars, Image
<1>2. CASE \/ Prepare \/ EndBuilderLevel \/ EndRootfsLevel \/ TemplateBuilder \/ CopyInherit
           \/ EnterBuild \/ EnterBuildLate \/ Rmdir \/ WriteManifest
  <2>1. UNCHANGED <<input, done, Image>>
    BY <1>2 DEF Prepare, EndBuilderLevel, EndRootfsLevel, TemplateBuilder, CopyInherit,
                EnterBuild, EnterBuildLate, Rmdir, WriteManifest, Ended, Image
  <2>. QED BY <1>1, <2>1
<1>3. CASE RunScript
  <2>. DEFINE x == Ran(pc[1], Head(todo))
  <2>1. x \in Entry /\ Ahead' \in Seq(Entry) /\ Ahead = <<x>> \o Ahead' BY <1>3, AheadRun
  <2>2. /\ done' = Append(done, x) /\ input' = input /\ result' = result /\ image' = image
        /\ result = "running" /\ pc \in Levelled
    BY <1>0, <1>3 DEF RunScript, Image
  <2>. HIDE DEF x
  <2>3. PICK X \in Seq(Entry) : Plan = done \o (Ahead \o X) BY <2>2, RestAtLevel
  <2>4. done \o ((<<x>> \o Ahead') \o X) = Append(done, x) \o (Ahead' \o X)
    BY <1>0, <2>1, Moved
  <2>5. Plan = Append(done, x) \o (Ahead' \o X) BY <2>1, <2>3, <2>4, Zenon
  <2>6. Ahead' \o X \in Seq(Entry) BY <2>1, ConcatProperties
  <2>7. image = "none" BY <2>2 DEF LayerInv, Levelled
  <2>8. Plan' = Plan BY <2>2, PlanConstants
  <2>. QED BY <1>0, <2>1, <2>2, <2>5, <2>6, <2>7, <2>8, WorkImplements
<1>4. CASE CopyFiles
  <2>1. /\ pc = <<"builder", "copy">> /\ todo = <<>> /\ result = "running"
        /\ done' = Append(done, Copied("files")) /\ input' = input
        /\ result' = result /\ image' = image
    BY <1>0, <1>4 DEF CopyFiles, At, Levelled, Image
  <2>2. Plan = done \o (Ahead \o FromFiles) /\ image = "none"
    BY <2>1 DEF PlanInv, LeavesAt, LayerInv
  <2>3. FromFiles = <<Copied("files")>> \o FromLate BY DEF FromFiles
  <2>4. Copied("files") \in Entry /\ FromLate \in Seq(Entry)
    BY <1>0, EntryType, FromType DEF Copies
  <2>. QED BY <1>0, <2>1, <2>2, <2>3, <2>4, CopyImplements
<1>5. ASSUME NEW what \in Copies, Plan = done \o (Ahead \o <<Copied(what)>>),
             todo = <<>>, input' = input, done' = Append(done, Copied(what)),
             result = "running", image = "none", result' = result, image' = image
      PROVE  Promised!Next
  <2>1. Copied(what) \in Entry BY EntryType
  <2>. DEFINE x == Copied(what)
  <2>. HIDE DEF x
  <2>2. x \in Entry BY <2>1 DEF x
  <2>3. <<x>> \in Seq(Entry) BY <2>2
  <2>4. <<x>> \o <<>> = <<x>> /\ <<>> \in Seq(Entry) BY <2>3, ConcatEmptySeq, EmptySeq, Zenon
  <2>5. Plan = done \o (Ahead \o (<<x>> \o <<>>)) BY <1>5, <2>4 DEF x
  <2>6. done' = Append(done, x) BY <1>5 DEF x
  <2>. QED BY <1>0, <1>5, <2>2, <2>4, <2>5, <2>6, CopyImplements
<1>6. CASE CopyTests
  <2>1. /\ pc = <<"builder", "tests">> /\ todo = <<>> /\ result = "running"
        /\ done' = Append(done, Copied("tests")) /\ input' = input
        /\ result' = result /\ image' = image
    BY <1>0, <1>6 DEF CopyTests, At, Levelled, Image
  <2>2. Plan = done \o (Ahead \o <<Copied("tests")>>) /\ image = "none"
    BY <2>1 DEF PlanInv, LeavesAt, LayerInv
  <2>3. "tests" \in Copies BY DEF Copies
  <2>. QED BY <1>5, <2>1, <2>2, <2>3
<1>7. CASE RunHomeCommand
  <2>1. /\ pc \in {<<"home", "try">>, <<"home", "init">>} /\ todo = <<>> /\ result = "running"
        /\ done' = Append(done, Copied(input.command)) /\ input' = input
        /\ result' = result /\ image' = image
    BY <1>0, <1>7 DEF RunHomeCommand, Levelled, Places, Unbuilt, Building, Finishing, Ending, Image
  <2>2. Plan = done \o (Ahead \o <<Copied(input.command)>>) /\ image = "none"
    BY <2>1 DEF PlanInv, LeavesAt, LayerInv
  <2>3. input.command \in Copies BY <2>1 DEF LayerInv, Copies
  <2>. QED BY <1>5, <2>1, <2>2, <2>3
<1>8. CASE TarAci
  <2>1. /\ result = "running" /\ image = "none" /\ done = Plan /\ input' = input
        /\ done' = done /\ result' = result /\ image' \in {"none", "whole"}
    BY <1>8 DEF TarAci, At, LayerInv, PlanInv, Ending
  <2>2. CASE image' = "none" BY <1>1, <2>1, <2>2 DEF Image
  <2>3. CASE image' = "whole"
    <3>1. Promised!WriteImage BY <2>1, <2>3, PlanConstants DEF Promised!WriteImage
    <3>. QED BY <3>1 DEF Promised!Next
  <2>. QED BY <2>1, <2>2, <2>3
<1>9. CASE StatAci
  <2>1. /\ result = "running" /\ image \in {"none", "whole"} /\ Plan' = Plan
        /\ done' = done /\ image' = image
    BY <1>9, PlanConstants DEF StatAci, At, LayerInv
  <2>2. CASE image # "none" /\ result' = "ok"
    <3>1. Promised!Succeed BY <2>1, <2>2 DEF Promised!Succeed
    <3>. QED BY <3>1 DEF Promised!Next
  <2>3. CASE result' = "error"
    <3>1. Promised!GiveUp BY <2>1, <2>3 DEF Promised!GiveUp
    <3>. QED BY <3>1 DEF Promised!Next
  <2>. QED BY <1>9, <2>2, <2>3 DEF StatAci, NotCreated
<1>10. CASE FailScript
  <2>1. Promised!GiveUp BY <1>10, PlanConstants DEF FailScript, Promised!GiveUp
  <2>. QED BY <2>1 DEF Promised!Next
<1>11. CASE Fail
  <2>1. /\ result = "running" /\ result' = "error" /\ Plan' = Plan /\ done' = done
        /\ image' = image \/ (pc = <<"program", "tar">> /\ image' \in {"none", "partial"})
    BY <1>11, PlanConstants DEF Fail
  <2>2. pc = <<"program", "tar">> => image = "none" /\ done = Plan
    BY <2>1 DEF LayerInv, PlanInv, Ending
  <2>3. Promised!GiveUp BY <2>1, <2>2 DEF Promised!GiveUp
  <2>. QED BY <2>3 DEF Promised!Next
<1>12. CASE UNCHANGED vars
  BY <1>1, <1>12 DEF vars, Image
<1>. QED
  BY <1>2, <1>3, <1>4, <1>6, <1>7, <1>8, <1>9, <1>10, <1>11, <1>12 DEF Next

\* ImplementsBuildRun: whatever run levels there are and whoever brought them,
\* a run does the scripts and copies of the plan in the order of the plan, each
\* once, up to an error, and writes image.aci only after all of them
\* (builder.sh:40-140, builder.go:65-90).
THEOREM BuilderImplements == Spec => ImplementsBuildRun
<1>1. Init => Promised!Init BY DEF Init, Promised!Init
<1>2. Spec => [](TypeInv /\ LayerInv /\ PlanInv) BY InvAlways
<1>3. TypeInv /\ LayerInv /\ PlanInv /\ [Next]_vars => [Promised!Next]_(Promised!vars)
  BY StepImplements
<1>. QED BY <1>1, <1>2, <1>3, PTL DEF Spec, ImplementsBuildRun, Promised!Spec
==============================================================================
