---------------------------- MODULE MCQueueRace ----------------------------
(***************************************************************************)
(* Two commands of each task: a poll and a safety command from the loop, a *)
(* poll and an emergency stop from the web.                                *)
(***************************************************************************)
EXTENDS QueueRace, TLC

CONSTANTS poll, lift, get, stop

Urgency == poll :> 4 @@ lift :> 1 @@ get :> 4 @@ stop :> 1
=============================================================================
