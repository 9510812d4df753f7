---------------------------- MODULE MCNoGoGuard ----------------------------
(* Instances of NoGoGuard for TLC. *)
EXTENDS NoGoGuard
=============================================================================
