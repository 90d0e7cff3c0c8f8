----------------------------- MODULE MCCapture -----------------------------
(* Instances of Capture. *)
EXTENDS Capture
=============================================================================
