----------------------- MODULE NeatoSerialRefinement -----------------------
(***************************************************************************)
(* NeatoSerial implements CommandService.                                  *)
(***************************************************************************)
EXTENDS NeatoSerial

ASSUME NoneNotReq == None \notin Req

\* What the caller of r knows.
Phase(r) ==
    CASE replies[r] = <<>> /\ r \notin issued -> "idle"
      [] replies[r] = <<>> /\ r \in issued -> "open"
      [] replies[r] = <<TRUE>> -> "ok"
      [] replies[r] = <<FALSE>> -> "failed"
      [] OTHER -> "answered again"

phaseBar == [r \in Req |-> Phase(r)]

busyBar == IF current = None THEN None ELSE current.req

Service == INSTANCE CommandService WITH phase <- phaseBar, busy <- busyBar

(* The queue keeps the promise CommandService makes to its callers.        *)
ImplementsService == Service!SSpec
=============================================================================
