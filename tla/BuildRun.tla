------------------------------ MODULE BuildRun ------------------------------
(***************************************************************************)
(* What one run of the builder promises, whatever the directories: it does *)
(* the work it has to do in the right order, up to an error, and ends well *)
(* only with a complete image, after all of it.                            *)
(***************************************************************************)
EXTENDS Naturals, Sequences

VARIABLES
  plan,    \* the work of this run, in the order in which it must be done
  done,    \* the work done so far
  image,   \* image.aci: "none", "partial" or "whole"
  result   \* "running", "ok" or "error"

vars == <<plan, done, image, result>>

Init == /\ done = <<>> /\ image = "none" /\ result = "running"

Work == /\ result = "running" /\ image = "none" /\ Len(done) < Len(plan)
        /\ done' = Append(done, plan[Len(done) + 1])
        /\ UNCHANGED <<plan, image, result>>

WriteImage == /\ result = "running" /\ image = "none" /\ done = plan
              /\ image' = "whole"
              /\ UNCHANGED <<plan, done, result>>

Succeed == /\ result = "running" /\ image = "whole"
           /\ result' = "ok"
           /\ UNCHANGED <<plan, done, image>>

\* Tar may leave a part of the image when it fails.
GiveUp == /\ result = "running"
          /\ result' = "error"
          /\ image' = image \/ (done = plan /\ image = "none" /\ image' = "partial")
          /\ UNCHANGED <<plan, done>>

Next == Work \/ WriteImage \/ Succeed \/ GiveUp

Spec == Init /\ [][Next]_vars
=============================================================================
