---------------------------- MODULE MCAsyncCache ----------------------------
(***************************************************************************)
(* Instances of AsyncCache for TLC: four calls, enough for two to join a   *)
(* fetch and two to be made from their callbacks.                          *)
(***************************************************************************)
EXTENDS AsyncCache, TLC

=============================================================================
