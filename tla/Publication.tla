---------------------------- MODULE Publication ----------------------------
(***************************************************************************)
(* What an upload promises: success means published; after an error the    *)
(* image may be published none the less, now or later.  This is what the   *)
(* step UploadAci of Aci takes for granted.                                *)
(***************************************************************************)
VARIABLES
  published,  \* whether the server serves the image
  result      \* "running", "ok" or "error"

vars == <<published, result>>

Init == published = FALSE /\ result = "running"

Publish == ~published /\ published' = TRUE /\ UNCHANGED result

Succeed == result = "running" /\ published /\ result' = "ok" /\ UNCHANGED published

GiveUp == result = "running" /\ result' = "error" /\ UNCHANGED published

Next == Publish \/ Succeed \/ GiveUp
Spec == Init /\ [][Next]_vars
============================================================================
