------------------------------- MODULE MCPod -------------------------------
(* Pods with which TLC checks Pod. *)
EXTENDS Pod

ThreeApps == <<"a", "b", "c">>
============================================================================
