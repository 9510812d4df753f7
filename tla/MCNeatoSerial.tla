--------------------------- MODULE MCNeatoSerial ---------------------------
(***************************************************************************)
(* Instances of NeatoSerial for TLC: three callers whose operations cover  *)
(* the priorities, the chains, and two commands of the same verb.          *)
(***************************************************************************)
EXTENDS NeatoSerialRefinement, TLC

CONSTANTS r1, r2, r3

\* A battery reset (a chain of three), a move and a poll.
ServiceOps == r1 :> "newBattery" @@ r2 :> "wheelsMove" @@ r3 :> "getState"

\* The same with an emergency stop, a chain of two.
StopOps == r1 :> "newBattery" @@ r2 :> "wheelsStop" @@ r3 :> "getState"

\* Two moves with a poll between them.
MoveOps == r1 :> "wheelsMove" @@ r2 :> "getState" @@ r3 :> "wheelsMove"

\* Manual drive: brush, wheels and the TestMode they need.
DriveOps == r1 :> "brushOn" @@ r2 :> "wheelsMove" @@ r3 :> "testModeOn"

\* A power cycle, which is not waited for, against a stop and a poll.
PowerOps == r1 :> "powerCycle" @@ r2 :> "wheelsStop" @@ r3 :> "getState"
=============================================================================
