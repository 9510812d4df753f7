----------------------------- MODULE MoveSafety -----------------------------
(***************************************************************************)
(* Which wheel moves manual driving allows: isMoveAllowed() of             *)
(* firmware/src/manual_clean_manager.cpp, as operators on the set of       *)
(* obstacle flags that are raised.  Distances are any integers.            *)
(***************************************************************************)
EXTENDS Integers

Bumper == {"frontLeft", "frontRight", "sideLeft", "sideRight"}
Sensor == Bumper \cup {"lifted"}
Stall == {"stallFront", "stallRear"}
Flag == Sensor \cup Stall

Forward(l, r) == l > 0 \/ r > 0
Backward(l, r) == l < 0 \/ r < 0

\* The flags a move, or the mere attempt at one, takes down.
Cleared_Never(flags, l, r) == flags   \* mutant: stalls block for good

Cleared(flags, l, r) ==
    IF "lifted" \in flags THEN flags
    ELSE flags \ {s \in Stall :
            \/ s = "stallFront" /\ Backward(l, r) /\ ~Forward(l, r)
            \/ s = "stallRear" /\ Forward(l, r) /\ ~Backward(l, r)}

Allowed(flags, l, r) ==
    /\ "lifted" \notin flags
    /\ Forward(l, r) => flags \cap {"frontLeft", "frontRight", "stallFront"} = {}
    /\ Backward(l, r) => "stallRear" \notin flags
    /\ l > r /\ ~Backward(l, r) => flags \cap {"frontLeft", "sideLeft"} = {}
    /\ r > l /\ ~Backward(l, r) => flags \cap {"frontRight", "sideRight"} = {}

\* A robot that stands on the floor can be driven straight out of any
\* combination of contacts and stalls, d mm back, if need be by pushing
\* forward once against what stops it.
CanEscape(flags, d) ==
    "lifted" \in flags
    \/ Allowed(flags, -d, -d)
    \/ Allowed(Cleared(flags, d, d), -d, -d)
=============================================================================
