---------------------------- MODULE LookupsProofs ----------------------------
(***************************************************************************)
(* Theorems about Lookups, for lists of any length: the types, which entry *)
(* of config.yml GetSignKeyring returns, and which newer versions are      *)
(* reported.                                                               *)
(***************************************************************************)
EXTENDS Lookups, TLAPS

\* What the loop of GetSignKeyring knows: no entry it has passed lists the
\* domain, and keyring is set when one of them was a default.
LoopInv ==
  /\ task = "start" => sign = 0 /\ keyring = "nil"
  /\ task = "sign" /\ status = "running" =>
       /\ \A n \in 1..sign : ~Lists(n)
       /\ keyring = "sign" <=> \E n \in 1..sign : signs[n] = {}

\* The inductive invariant; the inputs do not change.
KeyringInv ==
  /\ TypeOK /\ signs \in Configs /\ deps \in Manifests /\ latest \in Seq(Versions)
  /\ LoopInv /\ KeyringForDomain

\* An entry of a list of sign entries is a set of domains.
LEMMA EntryType ==
  ASSUME signs \in Configs
  PROVE  signs \in Seq(SUBSET Domains) /\ Len(signs) \in Nat /\ DOMAIN signs = 1..Len(signs)
BY LookupAssumption

\* The same for a list of dependencies.
LEMMA DependencyType ==
  ASSUME deps \in Manifests
  PROVE  Len(deps) \in Nat
<1>. DEFINE dependency == [valid : BOOLEAN, version : Versions]
<1>1. deps \in Seq(dependency)
  BY LookupAssumption, Zenon
<1>. HIDE DEF dependency
<1>. QED BY <1>1

\* What a lookup finds is a version.
LEMMA VersionsType == Published \cup {<<>>} \subseteq Versions
<1>1. <<>> \in Versions
  BY DEF Versions
<1>. QED BY <1>1, LookupAssumption

LEMMA InitKeyring == Init => KeyringInv
<1>. SUFFICES ASSUME Init PROVE KeyringInv
  OBVIOUS
<1>1. Len(signs) \in Nat /\ Len(deps) \in Nat /\ latest \in Seq(Versions) /\ Len(latest) = 0
  BY EntryType, DependencyType DEF Init
<1>. QED BY <1>1 DEF Init, KeyringInv, TypeOK, LoopInv, KeyringForDomain, Lists

LEMMA NextKeyring == KeyringInv /\ [Next]_vars => KeyringInv'
<1>. SUFFICES ASSUME KeyringInv, [Next]_vars PROVE KeyringInv'
  OBVIOUS
<1>. USE DEF KeyringInv, LoopInv
<1>a. /\ signs \in Seq(SUBSET Domains) /\ Len(signs) \in Nat /\ DOMAIN signs = 1..Len(signs)
      /\ Len(deps) \in Nat
  BY EntryType, DependencyType
<1>1. CASE Start
  <2>1. /\ task = "start" /\ status = "running" /\ UNCHANGED <<signs, sign, keyring, found>>
        /\ UNCHANGED <<deps, latest, warned>>
        /\ \/ status' = "error" /\ task' = "start"
           \/ status' = "running" /\ task' \in {"sign", "check"}
    BY <1>1 DEF Start, config, manifest
  <2>2. TypeOK'
    BY <2>1 DEF TypeOK
  <2>3. LoopInv'
    BY <2>1 DEF Lists
  <2>4. KeyringForDomain'
    BY <2>1 DEF KeyringForDomain
  <2>. QED BY <2>1, <2>2, <2>3, <2>4
<1>2. CASE NextEntry
  <2>1. sign + 1 \in DOMAIN signs /\ sign' = sign + 1 /\ sign \in Nat
    BY <1>2, <1>a DEF NextEntry, Signing, TypeOK
  <2>2. TypeOK'
    BY <1>2, <1>a, <2>1 DEF NextEntry, Signing, TypeOK, manifest
  <2>3. CASE Returns(sign + 1)
    <3>1. /\ task' = "sign" /\ status' = "ok" /\ signs' = signs /\ found' = sign + 1
          /\ Lists(sign + 1) /\ \A n \in 1..sign : ~Lists(n)
          /\ UNCHANGED <<deps, latest, warned>>
      BY <1>2, <2>3 DEF NextEntry, Signing, Returns, manifest
    <3>2. KeyringForDomain'
      <4>1. found' \in DOMAIN signs' /\ Domain \in signs'[found']
        BY <2>1, <3>1 DEF Lists
      <4>2. found' - 1 = sign
        BY <2>1, <3>1
      <4>3. \A n \in 1..(found' - 1) : ~(Domain \in signs'[n])
        BY <3>1, <4>2 DEF Lists
      <4>. QED BY <3>1, <4>1, <4>3 DEF KeyringForDomain, Lists
    <3>3. LoopInv'
      BY <3>1
    <3>. QED BY <2>2, <3>1, <3>2, <3>3
  <2>4. CASE ~Returns(sign + 1)
    <3>1. \A n \in 1..sign' : n \in 1..sign \/ n = sign + 1
      BY <2>1
    <3>2. /\ task' = "sign" /\ task = "sign" /\ status = "running" /\ signs' = signs
          /\ ~Lists(sign + 1)
          /\ keyring' = IF signs[sign + 1] = {} THEN "sign" ELSE keyring
      BY <1>2, <2>4 DEF NextEntry, Signing, Returns
    <3>3. \A n \in 1..sign' : ~Lists(n)'
      BY <3>1, <3>2 DEF Lists
    <3>4. keyring' = "sign" <=> \E n \in 1..sign' : signs[n] = {}
      <4>1. sign + 1 \in 1..sign' /\ \A n \in 1..sign : n \in 1..sign'
        BY <2>1
      <4>2. CASE signs[sign + 1] = {}
        BY <3>2, <4>1, <4>2
      <4>3. CASE signs[sign + 1] # {}
        BY <3>1, <3>2, <4>1, <4>3
      <4>. QED BY <4>2, <4>3
    <3>5. LoopInv'
      BY <3>2, <3>3, <3>4
    <3>6. KeyringForDomain'
      BY <1>2, <2>4 DEF NextEntry, Signing, KeyringForDomain
    <3>. QED BY <1>2, <2>2, <3>5, <3>6 DEF NextEntry, manifest
  <2>. QED BY <2>3, <2>4
<1>3. CASE EndOfEntries
  <2>1. sign = Len(signs) /\ sign \in Nat /\ task = "sign" /\ status = "running"
    BY <1>3, <1>a DEF EndOfEntries, Signing, TypeOK
  <2>2. CASE keyring = "sign"
    <3>1. PICK n \in 1..sign : signs[n] = {}
      BY <2>1, <2>2
    <3>. QED BY <1>3, <1>a, <2>1, <2>2, <3>1
         DEF EndOfEntries, TypeOK, KeyringForDomain, Lists, manifest
  <2>3. CASE keyring = "nil"
    BY <1>3, <1>a, <2>1, <2>3 DEF EndOfEntries, TypeOK, KeyringForDomain, Lists, manifest
  <2>. QED BY <1>3, <2>2, <2>3 DEF EndOfEntries
<1>4. CASE SkipUnversioned
  <2>1. latest' \in Seq(Versions) /\ Len(latest') = Len(latest) + 1 /\ Len(latest) \in Nat
    BY <1>4, VersionsType DEF SkipUnversioned
  <2>. QED BY <1>4, <1>a, <2>1 DEF SkipUnversioned, Checking, TypeOK, KeyringForDomain, config
<1>5. CASE BadName
  BY <1>5 DEF BadName, Checking, TypeOK, KeyringForDomain, config, manifest
<1>6. CASE Lookup
  <2>1. PICK version \in Published \cup {<<>>} :
          /\ latest' = Append(latest, version)
          /\ warned' \in {warned, warned \cup {Index}}
    BY <1>6 DEF Lookup
  <2>2. latest' \in Seq(Versions) /\ Len(latest') = Len(latest) + 1 /\ Len(latest) \in Nat
    BY <2>1, VersionsType
  <2>3. /\ UNCHANGED <<task, status, signs, sign, keyring, found, deps>>
        /\ task = "check" /\ Len(latest) < Len(deps)
    BY <1>6 DEF Lookup, Checking, config
  <2>4. warned' \subseteq 1..Len(latest')
    BY <2>1, <2>2 DEF Index, TypeOK
  <2>5. TypeOK'
    BY <1>a, <2>2, <2>3, <2>4 DEF TypeOK
  <2>. QED BY <2>2, <2>3, <2>5 DEF KeyringForDomain
<1>7. CASE EndOfCheck
  BY <1>7, <1>a DEF EndOfCheck, Checking, TypeOK, KeyringForDomain, config, manifest
<1>8. CASE UNCHANGED vars
  BY <1>8, <1>a DEF vars, config, manifest, TypeOK, KeyringForDomain, Lists
<1>. QED BY <1>1, <1>2, <1>3, <1>4, <1>5, <1>6, <1>7, <1>8 DEF Next

\* The inductive invariant of the lookups holds for every config.yml.
LEMMA KeyringInvCorrect == Spec => []KeyringInv
BY InitKeyring, NextKeyring, PTL DEF Spec

\* The loop of GetSignKeyring stays within the entries, and warnings are about
\* dependencies that were looked at, for every config.yml and manifest.
THEOREM TypeCorrect == Spec => []TypeOK
<1>1. KeyringInv => TypeOK
  BY DEF KeyringInv
<1>. QED BY KeyringInvCorrect, <1>1, PTL

\* GetSignKeyring returns the first entry that lists the domain; when none does,
\* the last entry if there is a default anywhere, and an error if there is not, for
\* lists of any length (home.go:41-58).
THEOREM KeyringCorrect == Spec => []KeyringForDomain
<1>1. KeyringInv => KeyringForDomain
  BY DEF KeyringInv
<1>. QED BY KeyringInvCorrect, <1>1, PTL

----------------------------------------------------------------------------
(* Versions *)

\* A digit of a version.
Digit(version, n) == IF n \in DOMAIN version THEN version[n] ELSE 0

LEMMA DigitType ==
  ASSUME NEW version \in Versions, Numeric(version)
  PROVE  /\ \A n \in 1..4 : Digit(version, n) \in 0..99 /\ Part(version, n) = Digit(version, n)
         /\ Len(version) \in 0..4
<1>1. Len(version) \in Nat /\ DOMAIN version = 1..Len(version) BY DEF Versions
<1>2. Len(version) <= 4 /\ \A n \in DOMAIN version : version[n] \in 0..99
  BY DEF Numeric, Width, Base
<1>3. ASSUME NEW n \in 1..4
      PROVE  Digit(version, n) \in 0..99 /\ Part(version, n) = Digit(version, n)
  <2>1. CASE n \in DOMAIN version
    <3>1. version[n] \in 0..99 BY <1>2, <2>1
    <3>2. version[n] # Text BY <3>1 DEF Text
    <3>3. ~(n > Len(version)) BY <1>1, <2>1
    <3>. QED BY <2>1, <3>1, <3>2, <3>3 DEF Digit, Part
  <2>2. CASE n \notin DOMAIN version
    <3>1. n > Len(version) BY <1>1, <2>2
    <3>. QED BY <2>2, <3>1 DEF Digit, Part
  <2>. QED BY <2>1, <2>2
<1>4. Len(version) \in 0..4 BY <1>1, <1>2
<1>. QED BY <1>3, <1>4

\* The recursive reference, unrolled: the function that the definition asks for
\* is there, and its last value is what the digits amount to.
LEMMA WeightIs ==
  ASSUME NEW version \in Versions, Numeric(version)
  PROVE  Weight(version) = 1000000 * Digit(version, 1) + 10000 * Digit(version, 2)
                           + 100 * Digit(version, 3) + Digit(version, 4)
<1>. DEFINE d(n) == Digit(version, n)
            Rec(w) == [n \in 0..4 |-> IF n = 0 THEN 0 ELSE 100 * w[n - 1] + d(n)]
            g == [n \in 0..4 |-> IF n = 0 THEN 0
                                 ELSE IF n = 1 THEN d(1)
                                 ELSE IF n = 2 THEN 100 * d(1) + d(2)
                                 ELSE IF n = 3 THEN 10000 * d(1) + 100 * d(2) + d(3)
                                 ELSE 1000000 * d(1) + 10000 * d(2) + 100 * d(3) + d(4)]
            f == CHOOSE w : w = Rec(w)
<1>1. Weight(version) = f[4] BY SMT DEF Weight, Width, Base, Digit
<1>2. d(1) \in Int /\ d(2) \in Int /\ d(3) \in Int /\ d(4) \in Int
  <2>1. \A n \in 1..4 : Digit(version, n) \in 0..99 BY DigitType
  <2>2. \A n \in 1..4 : Digit(version, n) \in Int BY <2>1
  <2>. QED BY <2>2
<1>. HIDE DEF d
<1>3. g[0] = 0 /\ g[1] = d(1) /\ g[2] = 100 * d(1) + d(2)
      /\ g[3] = 10000 * d(1) + 100 * d(2) + d(3)
      /\ g[4] = 1000000 * d(1) + 10000 * d(2) + 100 * d(3) + d(4)
  OBVIOUS
<1>4. g = Rec(g)
  <2>1. DOMAIN g = 0..4 OBVIOUS
  <2>. HIDE DEF g
  <2>2. ASSUME NEW n \in 0..4
        PROVE  g[n] = IF n = 0 THEN 0 ELSE 100 * g[n - 1] + d(n)
    <3>1. CASE n = 0 BY <1>3, <3>1
    <3>2. CASE n = 1 BY <1>2, <1>3, <3>2
    <3>3. CASE n = 2 BY <1>2, <1>3, <3>3
    <3>4. CASE n = 3 BY <1>2, <1>3, <3>4
    <3>5. CASE n = 4 BY <1>2, <1>3, <3>5
    <3>. QED BY <3>1, <3>2, <3>3, <3>4, <3>5
  <2>3. g = [n \in 0..4 |-> g[n]] BY <2>1 DEF g
  <2>. QED BY <2>2, <2>3
<1>5. f = Rec(f)
  <2>. HIDE DEF Rec, g
  <2>. QED BY <1>4
<1>. HIDE DEF f
<1>6. \A n \in 0..4 : f[n] = IF n = 0 THEN 0 ELSE 100 * f[n - 1] + d(n) BY <1>5
<1>7. f[0] = 0 BY <1>6
<1>8. f[1] = d(1) BY <1>2, <1>6, <1>7
<1>9. f[2] = 100 * d(1) + d(2) BY <1>2, <1>6, <1>8
<1>10. f[3] = 10000 * d(1) + 100 * d(2) + d(3) BY <1>2, <1>6, <1>9
<1>11. f[4] = 1000000 * d(1) + 10000 * d(2) + 100 * d(3) + d(4) BY <1>2, <1>6, <1>10
<1>. QED BY <1>1, <1>11 DEF d

\* compareTo, part by part, is the order of the numbers.
LEMMA LessThanWeight ==
  ASSUME NEW v \in Versions, NEW w \in Versions, Numeric(v), Numeric(w)
  PROVE  LessThan(v, w) <=> Weight(v) < Weight(w)
<1>. DEFINE a == [n \in 1..4 |-> Digit(v, n)]
            b == [n \in 1..4 |-> Digit(w, n)]
<1>1. /\ \A n \in 1..4 : Part(v, n) = a[n]
      /\ \A n \in 1..4 : Part(w, n) = b[n]
      /\ Len(v) \in 0..4 /\ Len(w) \in 0..4
  BY DigitType
<1>2. /\ \A n \in 1..4 : a[n] \in 0..99
      /\ \A n \in 1..4 : b[n] \in 0..99
  BY DigitType
<1>3. /\ Weight(v) = 1000000 * a[1] + 10000 * a[2] + 100 * a[3] + a[4]
      /\ Weight(w) = 1000000 * b[1] + 10000 * b[2] + 100 * b[3] + b[4]
  BY WeightIs
<1>4. \A n \in 1..4 : a[n] # b[n] => n \in 1..Len(v) \cup 1..Len(w)
  BY DEF Digit, Versions
<1>. HIDE DEF a, b
<1>5. Differs(v, w) = {n \in 1..4 : a[n] # b[n]}
  <2>1. \A k \in 0..4 : \A n \in 1..k : n \in 1..4 OBVIOUS
  <2>2. 1..Len(v) \subseteq 1..4 /\ 1..Len(w) \subseteq 1..4 BY <1>1, <2>1
  <2>3. Differs(v, w) = {n \in 1..Len(v) \cup 1..Len(w) : Part(v, n) # Part(w, n)}
    BY DEF Differs
  <2>. QED BY <1>1, <1>4, <2>2, <2>3
<1>6. LessThan(v, w) <=> \E n \in 1..4 : /\ a[n] < b[n]
                                         /\ \A m \in 1..4 : a[m] # b[m] => n <= m
  <2>1. LessThan(v, w) <=> \E n \in 1..4 : /\ a[n] # b[n]
                                           /\ \A m \in 1..4 : a[m] # b[m] => n <= m
                                           /\ Part(v, n) < Part(w, n)
    BY <1>5 DEF LessThan
  <2>2. \A n \in 1..4 : Part(v, n) < Part(w, n) <=> a[n] < b[n] BY <1>1
  <2>3. \A n \in 1..4 : a[n] < b[n] => a[n] # b[n] BY <1>2
  <2>. QED BY <2>1, <2>2, <2>3
<1>. DEFINE Lower == \/ a[1] < b[1]
                     \/ a[1] = b[1] /\ a[2] < b[2]
                     \/ a[1] = b[1] /\ a[2] = b[2] /\ a[3] < b[3]
                     \/ a[1] = b[1] /\ a[2] = b[2] /\ a[3] = b[3] /\ a[4] < b[4]
<1>7. /\ a[1] \in 0..99 /\ a[2] \in 0..99 /\ a[3] \in 0..99 /\ a[4] \in 0..99
      /\ b[1] \in 0..99 /\ b[2] \in 0..99 /\ b[3] \in 0..99 /\ b[4] \in 0..99
  BY <1>2
<1>8. (\E n \in 1..4 : a[n] < b[n] /\ \A m \in 1..4 : a[m] # b[m] => n <= m) <=> Lower
  <2>1. 1..4 = {1, 2, 3, 4} OBVIOUS
  <2>. QED BY <1>7, <2>1, SMT
<1>9. Weight(v) < Weight(w) <=> Lower
  <2>. DEFINE p == a[1]  q == a[2]  r == a[3]  s == a[4]
              x == b[1]  y == b[2]  z == b[3]  u == b[4]
  <2>1. /\ p \in 0..99 /\ q \in 0..99 /\ r \in 0..99 /\ s \in 0..99
        /\ x \in 0..99 /\ y \in 0..99 /\ z \in 0..99 /\ u \in 0..99
    BY <1>7
  <2>0. /\ Weight(v) = 1000000 * p + 10000 * q + 100 * r + s
        /\ Weight(w) = 1000000 * x + 10000 * y + 100 * z + u
    BY <1>3
  <2>. HIDE DEF p, q, r, s, x, y, z, u
  <2>2. Weight(v) < Weight(w) <=> \/ p < x
                                  \/ p = x /\ q < y
                                  \/ p = x /\ q = y /\ r < z
                                  \/ p = x /\ q = y /\ r = z /\ s < u
    BY <2>0, <2>1, SMTT(30)
  <2>. QED BY <2>2 DEF p, q, r, s, x, y, z, u
<1>. QED BY <1>6, <1>8, <1>9

LEMMA InitWarned == Init => WarnedIffOlder
BY DEF Init, WarnedIffOlder

LEMMA NextWarned == KeyringInv /\ WarnedIffOlder /\ [Next]_vars => WarnedIffOlder'
<1>. SUFFICES ASSUME KeyringInv, WarnedIffOlder, [Next]_vars PROVE WarnedIffOlder'
  OBVIOUS
<1>1. /\ warned \subseteq 1..Len(latest) /\ deps \in Manifests /\ latest \in Seq(Versions)
      /\ Len(latest) \in Nat /\ DOMAIN latest = 1..Len(latest)
  BY DEF KeyringInv, TypeOK
<1>2. CASE UNCHANGED <<deps, latest, warned>> BY <1>2 DEF WarnedIffOlder
<1>3. CASE SkipUnversioned \/ Lookup
  <2>. DEFINE k == Len(latest) + 1
  <2>1. Len(latest) < Len(deps) /\ deps' = deps BY <1>3 DEF SkipUnversioned, Lookup
  <2>2. k \in 1..Len(deps) /\ k \notin warned BY <1>1, <2>1, DependencyType
  <2>3. deps[k].version \in Versions
    <3>. DEFINE dependency == [valid : BOOLEAN, version : Versions]
    <3>1. deps \in Seq(dependency) BY <1>1, LookupAssumption, Zenon
    <3>. HIDE DEF dependency, k
    <3>2. deps[k] \in dependency BY <2>2, <3>1
    <3>. QED BY <3>2 DEF dependency
  <2>4. PICK version \in Published \cup {<<>>} :
          /\ latest' = Append(latest, version)
          /\ warned' = IF deps[k].version # <<>> /\ version # <<>> /\ LessThan(deps[k].version, version)
                         THEN warned \cup {k} ELSE warned
    <3>1. CASE SkipUnversioned BY <3>1 DEF SkipUnversioned, Current
    <3>2. CASE Lookup BY <3>2 DEF Lookup, Current, Index
    <3>. QED BY <1>3, <3>1, <3>2
  <2>5. version \in Versions BY VersionsType
  <2>6. /\ DOMAIN latest' = 1..k /\ latest'[k] = version
        /\ \A n \in 1..Len(latest) : latest'[n] = latest[n]
    BY <1>1, <2>4, <2>5
  <2>7. \A n \in 1..k : n = k \/ n \in 1..Len(latest) BY <1>1
  <2>8. ASSUME NEW n \in 1..Len(latest) PROVE n \in warned' <=> n \in warned
    <3>1. n # k BY <1>1
    <3>. QED BY <2>4, <3>1
  <2>9. k \in warned' <=> /\ deps[k].version # <<>> /\ version # <<>>
                          /\ LessThan(deps[k].version, version)
    BY <2>2, <2>4
  <2>10. Numeric(deps[k].version) /\ Numeric(version) =>
           (LessThan(deps[k].version, version) <=> Weight(deps[k].version) < Weight(version))
    BY <2>3, <2>5, LessThanWeight
  <2>. HIDE DEF k
  <2>11. IF deps[k].version = <<>> \/ version = <<>> THEN k \notin warned'
         ELSE Numeric(deps[k].version) /\ Numeric(version) =>
                (k \in warned' <=> Weight(deps[k].version) < Weight(version))
    BY <2>9, <2>10
  <2>12. \A n \in 1..Len(latest) :
           IF deps[n].version = <<>> \/ latest[n] = <<>> THEN n \notin warned'
           ELSE Numeric(deps[n].version) /\ Numeric(latest[n]) =>
                  (n \in warned' <=> Weight(deps[n].version) < Weight(latest[n]))
    BY <1>1, <2>8 DEF WarnedIffOlder
  <2>13. \A n \in DOMAIN latest' :
           IF deps[n].version = <<>> \/ latest'[n] = <<>> THEN n \notin warned'
           ELSE Numeric(deps[n].version) /\ Numeric(latest'[n]) =>
                  (n \in warned' <=> Weight(deps[n].version) < Weight(latest'[n]))
    BY <2>6, <2>7, <2>11, <2>12
  <2>. QED BY <2>1, <2>13 DEF WarnedIffOlder
<1>4. \/ SkipUnversioned \/ Lookup
      \/ UNCHANGED <<deps, latest, warned>>
  BY DEF Next, Start, NextEntry, EndOfEntries, BadName, EndOfCheck, manifest, vars
<1>. QED BY <1>2, <1>3, <1>4

\* Dependency by dependency, in manifests of any length, whatever is published:
\* a newer version is reported when the numbers say there is one, and only then
\* (version.go:17-43, aci.go:155-175).
THEOREM WarnedCorrect == Spec => []WarnedIffOlder
BY KeyringInvCorrect, InitWarned, NextWarned, PTL DEF Spec
==============================================================================
