---------------------------- MODULE MCStateCache ----------------------------
(***************************************************************************)
(* Instances of StateCache for TLC: a pause followed by a generic clean    *)
(* (in either order), against two polls.                                   *)
(***************************************************************************)
EXTENDS StateCache, TLC

CONSTANTS a1, a2

PauseAndClean == a1 :> "pause" @@ a2 :> "clean"
=============================================================================
