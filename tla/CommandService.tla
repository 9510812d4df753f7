--------------------------- MODULE CommandService ---------------------------
(***************************************************************************)
(* What the serial queue promises its callers: every call is answered at   *)
(* most once, with one verdict; it is refused at once or answered when a   *)
(* command of its own leaves the wire; and the wire carries one command at *)
(* a time.  NeatoSerial implements it (see NeatoSerialRefinement).         *)
(***************************************************************************)
CONSTANTS Req, None

VARIABLES
    phase,   \* what each caller knows: "idle", "open", "ok" or "failed"
    busy     \* the request whose command is on the wire, or None

svars == <<phase, busy>>

SInit ==
    /\ phase = [r \in Req |-> "idle"]
    /\ busy = None

\* The call is accepted, or refused before it returns.
Call(r) ==
    /\ phase[r] = "idle"
    /\ \E p \in {"open", "failed"} : phase' = [phase EXCEPT ![r] = p]
    /\ UNCHANGED busy

\* A command of r goes out. r may be answered already: a detached clean-up.
Begin(r) ==
    /\ busy = None
    /\ phase[r] # "idle"
    /\ busy' = r
    /\ UNCHANGED phase

\* It comes back: the chain goes on, or the caller gets its verdict.
Finish(r) ==
    /\ busy = r
    /\ busy' = None
    /\ \/ UNCHANGED phase
       \/ /\ phase[r] = "open"
          /\ \E p \in {"ok", "failed"} : phase' = [phase EXCEPT ![r] = p]

SNext == \E r \in Req : Call(r) \/ Begin(r) \/ Finish(r)

SSpec == SInit /\ [][SNext]_svars
=============================================================================
