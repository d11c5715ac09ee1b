------------------------------- MODULE Builds -------------------------------
(***************************************************************************)
(* What dgr promises about the builds of one ACI, without its files: there *)
(* is at most one current build, made by the command that is running, and  *)
(* only the current build is ever pushed.                                  *)
(***************************************************************************)
EXTENDS Naturals

VARIABLES
  last,     \* the number of the last command typed
  built,    \* the command that made the current build, 0 when there is none
  shipped   \* the builds the remote storage received

vars == <<last, built, shipped>>

Init == last = 0 /\ built = 0 /\ shipped = {}

\* The user types a command.
Request == last' = last + 1 /\ UNCHANGED <<built, shipped>>

\* The running command replaces no build by its own: Clean comes first.
Build == built = 0 /\ built' = last /\ UNCHANGED <<last, shipped>>

Clean == built' = 0 /\ UNCHANGED <<last, shipped>>

Push == /\ built # 0
        /\ shipped' = shipped \cup {built}
        /\ UNCHANGED <<last, built>>

Next == Request \/ Build \/ Clean \/ Push
Spec == Init /\ [][Next]_vars
============================================================================
