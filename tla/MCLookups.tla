------------------------------ MODULE MCLookups ------------------------------
(***************************************************************************)
(* Instances of Lookups: lists of up to three sign entries for two         *)
(* domains, and of up to two dependencies with versions of up to two parts. *)
(***************************************************************************)
EXTENDS Lookups, SequencesExt

\* Of no entry as well: NewHome only replaces a list that is not there.
TheConfigs == SeqOf(SUBSET {"own", "other"}, 3)

\* 1.9 and 1.10 differ as numbers and as text; 1.0 and 1 are equal.
SomeVersions == {<<1>>, <<1, 0>>, <<1, 9>>, <<1, 10>>, <<2>>, <<0, 10, 1>>, <<1, Text>>}

TheManifests ==
  SeqOf([valid : {TRUE}, version : SomeVersions \cup {<<>>}]
          \cup [valid : {FALSE}, version : {<<1>>, <<>>}], 2)

RktReleases == {<<1, 3, 0>>, <<1, 4, 0>>, <<1, 10, 0>>}
Rkt14       == <<1, 4, 0>>

=============================================================================
