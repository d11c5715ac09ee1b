------------------------------- MODULE Lookups -------------------------------
(***************************************************************************)
(* What a dgr process looks up outside the ACI: whether rkt is new enough  *)
(* (NewRktClient), the entry of config.yml that signs a domain             *)
(* (GetSignKeyring) and whether the dependencies of a manifest are the     *)
(* latest ones (CheckLatestVersion, LatestVersion, Version.compareTo).     *)
(*                                                                         *)
(* A version is the sequence of its parts between dots; "" has none.       *)
(***************************************************************************)
EXTENDS Integers, Sequences

CONSTANTS
  RktVersions,  \* versions rkt may report
  Supported,    \* rktSupportedVersion
  Domains,      \* the domains of ACI names
  Domain,       \* the one of this ACI
  Configs,      \* the sign entries config.yml may have: their domains
  Manifests,    \* the dependencies a manifest may have, list after list
  Published     \* versions a lookup may find to be the latest

Text     == -1  \* a part that Atoi cannot read
Versions == Seq(Nat \cup {Text})

ASSUME LookupAssumption ==
  /\ \A signs \in Configs : signs \in Seq(SUBSET Domains)
  /\ \A deps \in Manifests : deps \in Seq([valid : BOOLEAN, version : Versions])
  /\ RktVersions \subseteq Versions /\ Supported \in Versions
  /\ Published \subseteq Versions \ {<<>>}

VARIABLES
  task,    \* "start", "sign" or "check"
  status,  \* "running", "ok", "error" or "panic"
  rkt,     \* the version of rkt
  signs,   \* the entries of config.yml
  sign,    \* the loop variable of GetSignKeyring: the entry it holds, 0 at first
  keyring, \* a pointer: "nil", or "sign" for the loop variable
  found,   \* the entry that was returned, 0 for none
  deps,    \* the dependencies of the manifest
  latest,  \* per dependency looked at: what the lookup found, <<>> for nothing
  warned   \* the dependencies for which a newer version was reported

config   == <<signs, sign, keyring, found>>
manifest == <<deps, latest, warned>>
vars     == <<task, status, rkt, config, manifest>>

----------------------------------------------------------------------------
(* Version.compareTo *)

Part(version, n) ==
  IF n > Len(version) \/ version[n] = Text THEN 0 ELSE version[n]

\* The parts in which two versions differ: those one of them lacks count as 0.
DiffersInBoth(v, w) == {n \in 1..Len(v) : n <= Len(w) /\ Part(v, n) # Part(w, n)}
Differs(v, w) == {n \in 1..Len(v) \cup 1..Len(w) : Part(v, n) # Part(w, n)}

LessThan(v, w) ==
  \E n \in Differs(v, w) : /\ \A m \in Differs(v, w) : n <= m
                           /\ Part(v, n) < Part(w, n)

----------------------------------------------------------------------------
Init == /\ task = "start" /\ status = "running"
        /\ rkt \in RktVersions
        /\ signs \in Configs /\ sign = 0 /\ keyring = "nil" /\ found = 0
        /\ deps \in Manifests /\ latest = <<>> /\ warned = {}

\* NewHome, which has put one disabled entry without domains into a config.yml
\* that has none, and NewRktClient.
Start ==
  /\ task = "start" /\ status = "running"
  /\ IF LessThan(rkt, Supported)
       THEN status' = "error" /\ UNCHANGED task
       ELSE task' \in {"sign", "check"} /\ UNCHANGED status
  /\ UNCHANGED <<rkt, config, manifest>>

Signing == task = "sign" /\ status = "running"

Lists(n) == Domain \in signs[n]

\* The next round of the loop.  An entry without domains is the default: a
\* pointer to the loop variable is kept.  One that lists the domain is returned.
ListsOrDefault(n) == Lists(n) \/ signs[n] = {}
Returns(n) == Lists(n)

NextEntry ==
  /\ Signing /\ sign < Len(signs)
  /\ sign' = sign + 1
  /\ IF Returns(sign + 1)
       THEN found' = sign + 1 /\ status' = "ok" /\ UNCHANGED keyring
       ELSE /\ keyring' = IF signs[sign + 1] = {} THEN "sign" ELSE keyring
            /\ UNCHANGED <<found, status>>
  /\ UNCHANGED <<task, rkt, signs, manifest>>

\* After the loop the variable holds the last entry, whichever was the default.
EndOfEntries ==
  /\ Signing /\ sign = Len(signs)
  /\ \/ keyring = "sign" /\ found' = sign /\ status' = "ok"
     \/ keyring = "nil" /\ status' = "error" /\ UNCHANGED found
  /\ UNCHANGED <<task, rkt, signs, sign, keyring, manifest>>

Checking == task = "check" /\ status = "running"
FromZero == Len(latest)
Index    == Len(latest) + 1
Current  == deps[Len(latest) + 1]

\* A dependency without a version is passed over.
SkipUnversioned ==
  /\ Checking /\ Len(latest) < Len(deps) /\ Current.version = <<>>
  /\ latest' = Append(latest, <<>>)
  /\ UNCHANGED <<task, status, rkt, config, deps, warned>>

\* LatestVersion uses the parsed name before it looks at the error.
BadName ==
  /\ Checking /\ Len(latest) < Len(deps)
  /\ Current.version # <<>> /\ ~Current.valid
  /\ status' = "panic"
  /\ UNCHANGED <<task, rkt, config, manifest>>

\* Discovery, and the redirect to the latest version, if any; an error only
\* means that there is nothing to say.
Lookup ==
  /\ Checking /\ Len(latest) < Len(deps)
  /\ Current.version # <<>> /\ Current.valid
  /\ \E version \in Published \cup {<<>>} :
       /\ latest' = Append(latest, version)
       /\ warned' = IF version # <<>> /\ LessThan(Current.version, version)
                      THEN warned \cup {Index} ELSE warned
  /\ UNCHANGED <<task, status, rkt, config, deps>>

EndOfCheck ==
  /\ Checking /\ Len(latest) = Len(deps)
  /\ status' = "ok"
  /\ UNCHANGED <<task, rkt, config, manifest>>

Next == \/ Start \/ NextEntry \/ EndOfEntries
        \/ SkipUnversioned \/ BadName \/ Lookup \/ EndOfCheck

Spec == Init /\ [][Next]_vars

----------------------------------------------------------------------------
(* Properties *)

\* The loop stays within the entries and only returns one of them; a warning is
\* about a dependency that was looked at.
TypeOK ==
  /\ task \in {"start", "sign", "check"}
  /\ status \in {"running", "ok", "error", "panic"}
  /\ sign \in 0..Len(signs) /\ keyring \in {"nil", "sign"} /\ found \in 0..sign
  /\ Len(latest) <= Len(deps) /\ warned \subseteq 1..Len(latest)

\* GetSignKeyring (home.go:41-58): the first entry that lists the domain signs it,
\* whatever defaults come before or after.  Only when none lists it a default
\* counts, but what is returned then is the entry the loop variable holds at
\* the end: the last one of config.yml.  It is an error exactly when no entry
\* lists the domain and none is a default.
KeyringForDomain ==
  task = "sign" =>
    /\ status = "ok" =>
         \/ /\ found \in DOMAIN signs /\ Lists(found)
            /\ \A n \in 1..(found - 1) : ~Lists(n)
         \/ /\ \A n \in DOMAIN signs : ~Lists(n)
            /\ \E n \in DOMAIN signs : signs[n] = {}
            /\ found = Len(signs)
    /\ status = "error" => \A n \in DOMAIN signs : ~Lists(n) /\ signs[n] # {}

\* What a version made of up to Width numbers is worth, read as digits in base
\* Base: 1, 1.0 and 1.0.0 are one version and 1.9 comes before 1.10.
Width == 4
Base  == 100

Numeric(version) == /\ Len(version) <= Width
                    /\ \A n \in DOMAIN version : version[n] \in 0..(Base - 1)

Weight(version) ==
  LET weight[n \in 0..Width] ==
        IF n = 0 THEN 0
        ELSE Base * weight[n - 1] + (IF n \in DOMAIN version THEN version[n] ELSE 0)
  IN  weight[Width]

\* CheckLatestVersion warns about the dependencies whose latest version is a
\* higher number, for versions made of up to four numbers below 100, and about no
\* other; never about one without a version or without an answer.
WarnedIffOlder ==
  \A n \in DOMAIN latest :
    IF deps[n].version = <<>> \/ latest[n] = <<>> THEN n \notin warned
    ELSE Numeric(deps[n].version) /\ Numeric(latest[n]) =>
           (n \in warned <=> Weight(deps[n].version) < Weight(latest[n]))
=============================================================================
