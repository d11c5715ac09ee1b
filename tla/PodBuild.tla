------------------------------ MODULE PodBuild ------------------------------
(***************************************************************************)
(* What a pod command promises, without goroutines: every ACI of the pod   *)
(* is built once, or found broken; the pod manifest lists all of them or   *)
(* does not exist; nothing is installed or pushed before it exists; and    *)
(* success means that all of this was done.                                *)
(***************************************************************************)
CONSTANTS Apps, Delivers

VARIABLES
  built,      \* the apps whose image the pod will list
  broken,     \* the apps whose build failed
  listed,     \* the apps in the pod manifest
  delivered,  \* the apps installed or pushed
  result      \* "running", "ok" or "failed"

vars == <<built, broken, listed, delivered, result>>

Init == /\ built = {} /\ broken = {} /\ listed = {} /\ delivered = {}
        /\ result = "running"

Build(i) == /\ result = "running" /\ i \notin built \cup broken
            /\ built' = built \cup {i}
            /\ UNCHANGED <<broken, listed, delivered, result>>

Break(i) == /\ result = "running" /\ i \notin built \cup broken
            /\ broken' = broken \cup {i}
            /\ UNCHANGED <<built, listed, delivered, result>>

List == /\ result = "running" /\ built = Apps /\ broken = {}
        /\ listed' = Apps
        /\ UNCHANGED <<built, broken, delivered, result>>

Deliver(i) == /\ result = "running" /\ Delivers /\ listed = Apps
              /\ delivered' = delivered \cup {i}
              /\ UNCHANGED <<built, broken, listed, result>>

Succeed == /\ result = "running" /\ built = Apps /\ broken = {} /\ listed = Apps
           /\ Delivers => delivered = Apps
           /\ result' = "ok"
           /\ UNCHANGED <<built, broken, listed, delivered>>

\* A broken build, or any other error, ends the command.
GiveUp == /\ result = "running"
          /\ result' = "failed"
          /\ UNCHANGED <<built, broken, listed, delivered>>

Next == \/ \E i \in Apps : Build(i) \/ Break(i) \/ Deliver(i)
        \/ List \/ Succeed \/ GiveUp

Spec == Init /\ [][Next]_vars
============================================================================
