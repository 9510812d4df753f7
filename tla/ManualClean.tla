---------------------------- MODULE ManualClean ----------------------------
(***************************************************************************)
(* Manual driving (firmware/src/manual_clean_manager.cpp): the chains of   *)
(* serial commands that enter and leave it, moves and motors, the polling  *)
(* that raises obstacle flags, and the client watchdog.                    *)
(*                                                                         *)
(* The serial queue is NeatoSerial's seen from outside: commands wait in   *)
(* priority order, one is on the wire, and its completion runs the lambda  *)
(* its caller passed, here a tag (then).  The vacuum stands for the three  *)
(* cleaning motors.  The robot carries a command out when it completes, or *)
(* does not if the command fails.                                          *)
(***************************************************************************)
EXTENDS MoveSafety, Sequences, SequencesExt

CONSTANTS
    QueueMax,       \* NEATO_QUEUE_MAX_SIZE, less what other callers occupy
    Moves,          \* the <<left, right>> distances clients ask for
    Contacts,       \* the sensors the robot may find pressed
    MaxCalls,       \* bound on the client's calls
    Faults,         \* may commands fail?
    SlowLine,       \* may 10 s pass before an enable sequence is over?
    None            \* no command

ASSUME QueueMaxAssumption == QueueMax \in Nat \ {0}
ASSUME MovesAssumption == Moves \subseteq Int \X Int
ASSUME ContactsAssumption == Contacts \subseteq Sensor
ASSUME MaxCallsAssumption == MaxCalls \in Nat
ASSUME FaultsAssumption == Faults \in BOOLEAN /\ SlowLine \in BOOLEAN

Stopped == <<0, 0>>
StallCount == 2     \* MANUAL_STALL_COUNT

Cmd == {"WheelsDisable", "WheelsEnable", "WheelsMove", "TestModeOn", "TestModeOff",
        "LdsOn", "LdsOff", "GetSensors", "GetMotors", "VacuumOn", "VacuumOff"}
Then == {"nothing", "enable1", "enable2", "disable1", "disable2", "disable3"}

Priority(c) ==
    CASE c \in {"WheelsDisable", "WheelsEnable", "WheelsMove"} -> 1
      [] c \in {"VacuumOn", "VacuumOff"} -> 3
      [] OTHER -> 2

VARIABLES
    m,          \* the ManualCleanManager object
    queue,      \* the serial queue
    wire,       \* the command on the wire, or None
    lost,       \* a command was refused or failed (history)
    overdue,    \* an enable sequence was given up after 10 s (history)
    robot,      \* robot: TestMode, LDS, wheels, vacuum
    silent,     \* no API activity for MANUAL_CLIENT_TIMEOUT_MS
    calls,      \* calls made by the client
    driven      \* the robot was driven backward since the last front stall (history)

vars == <<m, queue, wire, lost, overdue, robot, silent, calls, driven>>

Entry == [cmd: Cmd, move: Moves \cup {Stopped}, then: Then]
ASSUME NoneAssumption == None \notin Entry

Manager == [active: BOOLEAN, enabling: BOOLEAN, disabling: BOOLEAN,
            flags: SUBSET Flag, moving: BOOLEAN, last: Moves \cup {Stopped},
            stalls: 0 .. StallCount, vacuumOn: BOOLEAN, watchdogStopped: BOOLEAN]
Robot == [testMode: BOOLEAN, lds: BOOLEAN, enabled: BOOLEAN,
          wheels: Moves \cup {Stopped}, vacuum: BOOLEAN]

TypeOK ==
    /\ m \in Manager
    /\ queue \in Seq(Entry) /\ Len(queue) <= QueueMax
    /\ wire \in Entry \cup {None}
    /\ lost \in BOOLEAN /\ overdue \in BOOLEAN
    /\ robot \in Robot
    /\ silent \in BOOLEAN
    /\ calls \in 0 .. MaxCalls
    /\ driven \in BOOLEAN

Init ==
    /\ m = [active |-> FALSE, enabling |-> FALSE, disabling |-> FALSE,
            flags |-> {}, moving |-> FALSE, last |-> Stopped,
            stalls |-> 0, vacuumOn |-> FALSE, watchdogStopped |-> FALSE]
    /\ queue = <<>>
    /\ wire = None
    /\ lost = FALSE /\ overdue = FALSE
    /\ robot = [testMode |-> FALSE, lds |-> FALSE, enabled |-> TRUE,
                wheels |-> Stopped, vacuum |-> FALSE]
    /\ silent = FALSE
    /\ calls = 0
    /\ driven = TRUE

-----------------------------------------------------------------------------
(* What a handler does is a function of s, the manager and the queue.      *)

Now == [m |-> m, queue |-> queue, lost |-> lost]

Becomes(s) == m' = s.m /\ queue' = s.queue /\ lost' = s.lost

Full(s) == Len(s.queue) >= QueueMax

\* enqueue(): the scan passes what is as urgent, up to the first that is not.
Insert(q, e) ==
    LET passed == {i \in DOMAIN q : \A j \in 1 .. i : Priority(q[j].cmd) <= Priority(e.cmd)}
    IN  InsertAt(q, Cardinality(passed) + 1, e)

\* A full queue runs the lambda on the spot, with false; whatever that sends
\* next is refused in its turn, down to the end of the chain.
Refused(s, then) ==
    [s EXCEPT !.lost = TRUE,
              !.m.enabling = @ /\ then \notin {"enable1", "enable2"},
              !.m.active = @ /\ then \notin {"disable1", "disable2", "disable3"},
              !.m.disabling = @ /\ then \notin {"disable1", "disable2", "disable3"},
              !.m.vacuumOn = @ /\ then # "disable1"]

SendMove(s, cmd, move, then) ==
    IF Full(s) THEN Refused(s, then)
    ELSE [s EXCEPT !.queue = Insert(@, [cmd |-> cmd, move |-> move, then |-> then])]

Send(s, cmd, then) == SendMove(s, cmd, Stopped, then)

StopWheels_StillMoving(s) == Send(s, "WheelsDisable", "nothing")   \* mutant

StopWheels(s) == Send([s EXCEPT !.m.moving = FALSE], "WheelsDisable", "nothing")

StopAllMotors(s) ==
    IF s.m.vacuumOn
    THEN [Send(s, "VacuumOff", "nothing") EXCEPT !.m.vacuumOn = FALSE]
    ELSE s

-----------------------------------------------------------------------------
(* The client's calls, on the web server's thread.                         *)

Call ==
    /\ calls < MaxCalls
    /\ calls' = calls + 1
    /\ silent' = FALSE
    /\ UNCHANGED <<wire, overdue, robot>>

\* enable(true); refused when active or on the way.
Enable ==
    /\ Call
    /\ ~m.active /\ ~m.enabling
    /\ Becomes(Send([Now EXCEPT !.m.enabling = TRUE], "TestModeOn", "enable1"))
    /\ UNCHANGED driven

\* enable(false)
Disable_Again ==   \* mutant: the test of disabling is missing
    /\ Call
    /\ m.active
    /\ Becomes(Send([Now EXCEPT !.m.disabling = TRUE], "WheelsDisable", "disable1"))
    /\ UNCHANGED driven

Disable ==
    /\ Call
    /\ m.active /\ ~m.disabling
    /\ Becomes(Send([Now EXCEPT !.m.disabling = TRUE], "WheelsDisable", "disable1"))
    /\ UNCHANGED driven

\* move(): an explicit stop, a blocked move (which stops), or a move.
Move_BlockedCoasts(l, r) ==   \* mutant: a blocked move does not stop the wheels
    /\ Call
    /\ m.active
    /\ LET flags == Cleared(m.flags, l, r)
           s == [Now EXCEPT !.m.flags = flags]
       IN  IF Allowed(m.flags, l, r)
           THEN /\ Becomes(SendMove([s EXCEPT !.m = [@ EXCEPT !.last = <<l, r>>, !.moving = TRUE,
                                                       !.stalls = IF m.moving THEN m.stalls ELSE 0]],
                                    "WheelsMove", <<l, r>>, "nothing"))
                /\ driven' = (driven \/ (Backward(l, r) /\ ~Forward(l, r)))
           ELSE /\ Becomes([s EXCEPT !.m.moving = FALSE])
                /\ UNCHANGED driven

Move(l, r) ==
    /\ Call
    /\ m.active
    /\ LET flags == Cleared(m.flags, l, r)
           s == [Now EXCEPT !.m.flags = flags]
       IN  IF Allowed(m.flags, l, r)
           THEN /\ Becomes(SendMove([s EXCEPT !.m = [@ EXCEPT !.last = <<l, r>>, !.moving = TRUE,
                                                       !.stalls = IF m.moving THEN m.stalls ELSE 0]],
                                    "WheelsMove", <<l, r>>, "nothing"))
                /\ driven' = (driven \/ (Backward(l, r) /\ ~Forward(l, r)))
           ELSE /\ Becomes(StopWheels(s))
                /\ UNCHANGED driven

Stop ==
    /\ Call
    /\ m.active
    /\ Becomes(StopWheels(Now))
    /\ UNCHANGED driven

\* setMotors(): only what changes is sent.
SetMotors ==
    /\ Call
    /\ m.active
    /\ Becomes([Send(Now, IF m.vacuumOn THEN "VacuumOff" ELSE "VacuumOn", "nothing")
                    EXCEPT !.m.vacuumOn = ~@])
    /\ UNCHANGED driven

-----------------------------------------------------------------------------
(* tick(), on the loop task.                                               *)

\* After 10 s an enable sequence is taken to be stuck.
EnableTimeout ==
    /\ SlowLine
    /\ m.enabling
    /\ m' = [m EXCEPT !.enabling = FALSE]
    /\ overdue' = TRUE
    /\ UNCHANGED <<queue, wire, lost, robot, silent, calls, driven>>

Poll(cmd) ==
    /\ m.active
    /\ Len(queue) <= QueueMax \div 2
    /\ \A i \in DOMAIN queue : queue[i].cmd # cmd   \* polls are 500 ms apart
    /\ Becomes(Send(Now, cmd, "nothing"))
    /\ UNCHANGED <<wire, overdue, robot, silent, calls, driven>>

PollBumpers == Poll("GetSensors")

PollStall == m.moving /\ Poll("GetMotors")

Watchdog_Never ==   \* mutant: the watchdog latches before it stops
    /\ m.active
    /\ ~m.watchdogStopped
    /\ silent
    /\ m' = [m EXCEPT !.watchdogStopped = TRUE]
    /\ UNCHANGED <<queue, wire, lost, overdue, robot, silent, calls, driven>>

Watchdog ==
    /\ m.active
    /\ ~m.watchdogStopped
    /\ silent
    /\ Becomes(StopWheels([Now EXCEPT !.m.watchdogStopped = TRUE]))
    /\ UNCHANGED <<wire, overdue, robot, silent, calls, driven>>

-----------------------------------------------------------------------------
(* Completions.                                                            *)

\* pollBumpers' lambda: a new contact stops the wheels, a new lift everything.
Observed_LiftOnly(s, sensors) ==   \* mutant: only a lift stops anything
    LET new == sensors \ s.m.flags
        s1 == [s EXCEPT !.m.flags = (@ \cap Stall) \cup sensors]
    IN  IF "lifted" \in new THEN StopAllMotors(StopWheels(s1)) ELSE s1

Observed(s, sensors) ==
    LET new == sensors \ s.m.flags
        s1 == [s EXCEPT !.m.flags = (@ \cap Stall) \cup sensors]
        s2 == IF "lifted" \in new THEN StopAllMotors(StopWheels(s1)) ELSE s1
    IN  IF new \cap Bumper # {} THEN StopWheels(s2) ELSE s2

\* pollStall's lambda: the second overload in a row raises the stall flags of
\* the commanded directions and stops the wheels.
Loaded(s, overload) ==
    IF ~overload THEN [s EXCEPT !.m.stalls = 0]
    ELSE IF s.m.stalls + 1 < StallCount THEN [s EXCEPT !.m.stalls = @ + 1]
    ELSE LET l == s.m.last[1]
             r == s.m.last[2]
             raised == {f \in Stall : \/ f = "stallFront" /\ Forward(l, r)
                                      \/ f = "stallRear" /\ Backward(l, r)}
         IN  StopWheels([s EXCEPT !.m.stalls = @ + 1, !.m.flags = @ \cup raised])

\* enable()'s last lambda resets everything.
Activated(s) ==
    [s EXCEPT !.m = [active |-> TRUE, enabling |-> FALSE, disabling |-> s.m.disabling,
                     flags |-> {}, moving |-> FALSE, last |-> s.m.last,
                     stalls |-> 0, vacuumOn |-> FALSE, watchdogStopped |-> FALSE]]

\* The lambda of a completed command.
Completed_NoLdsOff(s, e, ok) ==   \* mutant: disabling skips the LDS
    IF e.cmd = "WheelsDisable" THEN Send(s, "WheelsEnable", e.then)
    ELSE CASE e.then = "enable1" ->
                IF ok THEN Send(s, "LdsOn", "enable2") ELSE [s EXCEPT !.m.enabling = FALSE]
         [] e.then = "enable2" /\ ok -> Activated(s)
         [] e.then = "disable1" -> Send(StopAllMotors(s), "TestModeOff", "disable3")
         [] e.then = "disable3" -> [s EXCEPT !.m.active = FALSE, !.m.disabling = FALSE]
         [] OTHER -> s

Completed_NoRevert(s, e, ok) ==   \* mutant: a failed disable step ends the chain
    IF e.cmd = "WheelsDisable" THEN Send(s, "WheelsEnable", e.then)
    ELSE CASE e.then = "enable1" ->
                IF ok THEN Send(s, "LdsOn", "enable2") ELSE [s EXCEPT !.m.enabling = FALSE]
         [] e.then = "enable2" /\ ok -> Activated(s)
         [] e.then = "enable2" /\ ~ok ->
                Send([s EXCEPT !.m.enabling = FALSE], "TestModeOff", "nothing")
         [] e.then = "disable1" /\ ok -> Send(StopAllMotors(s), "LdsOff", "disable2")
         [] e.then = "disable2" /\ ok -> Send(s, "TestModeOff", "disable3")
         [] e.then = "disable3" /\ ok -> [s EXCEPT !.m.active = FALSE, !.m.disabling = FALSE]
         [] OTHER -> s

Completed(s, e, ok) ==
    IF e.cmd = "WheelsDisable" THEN Send(s, "WheelsEnable", e.then)
    ELSE CASE e.then = "enable1" ->
                IF ok THEN Send(s, "LdsOn", "enable2") ELSE [s EXCEPT !.m.enabling = FALSE]
         [] e.then = "enable2" /\ ok -> Activated(s)
         [] e.then = "enable2" /\ ~ok ->
                Send([s EXCEPT !.m.enabling = FALSE], "TestModeOff", "nothing")
         [] e.then = "disable1" -> Send(StopAllMotors(s), "LdsOff", "disable2")
         [] e.then = "disable2" -> Send(s, "TestModeOff", "disable3")
         [] e.then = "disable3" -> [s EXCEPT !.m.active = FALSE, !.m.disabling = FALSE]
         [] OTHER -> s

\* What the robot does when told to: motors need TestMode, moves also enabled
\* wheels, and leaving TestMode is assumed to end what was started in it.
Does(e) ==
    CASE e.cmd = "TestModeOn" -> [robot EXCEPT !.testMode = TRUE]
      [] e.cmd = "TestModeOff" ->
            [robot EXCEPT !.testMode = FALSE, !.wheels = Stopped, !.vacuum = FALSE]
      [] e.cmd = "LdsOn" -> [robot EXCEPT !.lds = TRUE]
      [] e.cmd = "LdsOff" -> [robot EXCEPT !.lds = FALSE]
      [] e.cmd = "WheelsDisable" /\ robot.testMode ->
            [robot EXCEPT !.wheels = Stopped, !.enabled = FALSE]
      [] e.cmd = "WheelsEnable" /\ robot.testMode -> [robot EXCEPT !.enabled = TRUE]
      [] e.cmd = "WheelsMove" /\ robot.testMode /\ robot.enabled ->
            [robot EXCEPT !.wheels = e.move]
      [] e.cmd \in {"VacuumOn", "VacuumOff"} /\ robot.testMode ->
            [robot EXCEPT !.vacuum = (e.cmd = "VacuumOn")]
      [] OTHER -> robot

SendNext ==
    /\ wire = None
    /\ queue # <<>>
    /\ wire' = Head(queue)
    /\ queue' = Tail(queue)
    /\ UNCHANGED <<m, lost, overdue, robot, silent, calls, driven>>

\* A failed command may still have been carried out.
Fail ==
    /\ Faults
    /\ wire # None
    /\ wire' = None
    /\ Becomes(Completed([Now EXCEPT !.lost = TRUE], wire, FALSE))
    /\ robot' \in {robot, Does(wire)}
    /\ UNCHANGED <<overdue, silent, calls, driven>>

Done ==
    /\ wire # None
    /\ wire.cmd \notin {"GetSensors", "GetMotors"}
    /\ wire' = None
    /\ Becomes(Completed(Now, wire, TRUE))
    /\ robot' = Does(wire)
    /\ driven' = (driven \/ wire.then = "enable2")
    /\ UNCHANGED <<overdue, silent, calls>>

\* The robot may find any of its sensors pressed.
SensorsRead(sensors) ==
    /\ wire # None
    /\ wire.cmd = "GetSensors"
    /\ wire' = None
    /\ IF m.active THEN Becomes(Observed(Now, sensors)) ELSE UNCHANGED <<m, queue, lost>>
    /\ UNCHANGED <<overdue, robot, silent, calls, driven>>

LoadRead(overload) ==
    /\ wire # None
    /\ wire.cmd = "GetMotors"
    /\ wire' = None
    /\ IF m.active /\ m.moving
       THEN /\ Becomes(Loaded(Now, overload))
            /\ driven' = (driven /\ ("stallFront" \in m.flags \/ "stallFront" \notin m'.flags))
       ELSE UNCHANGED <<m, queue, lost, driven>>
    /\ UNCHANGED <<overdue, robot, silent, calls>>

-----------------------------------------------------------------------------
(* The environment.                                                        *)

\* The wheels come to the end of the commanded distance.
Arrive ==
    /\ robot.wheels # Stopped
    /\ robot' = [robot EXCEPT !.wheels = Stopped]
    /\ UNCHANGED <<m, queue, wire, lost, overdue, silent, calls, driven>>

FallSilent ==
    /\ m.active
    /\ ~silent
    /\ silent' = TRUE
    /\ UNCHANGED <<m, queue, wire, lost, overdue, robot, calls, driven>>

Line ==
    \/ SendNext \/ Fail \/ Done
    \/ \E sensors \in SUBSET Contacts : SensorsRead(sensors)
    \/ \E overload \in BOOLEAN : LoadRead(overload)

Next ==
    \/ Enable \/ Disable \/ Stop \/ SetMotors
    \/ \E mv \in Moves : Move(mv[1], mv[2])
    \/ EnableTimeout \/ PollBumpers \/ PollStall \/ Watchdog
    \/ Line
    \/ Arrive \/ FallSilent

Spec == Init /\ [][Next]_vars

\* loop() runs for ever: the line moves on and the watchdog is looked at.
FairSpec == Spec /\ WF_vars(Line) /\ WF_vars(Watchdog)

-----------------------------------------------------------------------------
(* Properties.                                                             *)

\* All that was sent has been carried out, and no sequence given up.
Settled == queue = <<>> /\ wire = None /\ ~lost /\ ~overdue

InFlight(tags) == {i \in DOMAIN queue : queue[i].then \in tags}
                  \cup {i \in {0} : wire # None /\ wire.then \in tags}

(* A transition is refused while another is in progress: no two commands of *)
(* enable and disable sequences are ever in flight together.                *)
OneSequence == \A i, j \in InFlight(Then \ {"nothing"}) : i = j

(* One transition at a time, and the flags know, until the 10 s timeout     *)
(* gives a sequence up: enabling holds exactly while a command of an enable *)
(* sequence is queued or on the wire, and disabling while one of a disable  *)
(* sequence is, and only one ever is.                                       *)
OneTransition ==
    ~overdue =>
    /\ m.enabling <=> InFlight({"enable1", "enable2"}) # {}
    /\ m.disabling <=> InFlight({"disable1", "disable2", "disable3"}) # {}
    /\ OneSequence

(* Once everything sent has been carried out, the robot is in TestMode with *)
(* the LDS turning if manual mode is active, and neither if not.            *)
ModeMatchesRobot ==
    Settled => robot.testMode = m.active /\ robot.lds = m.active

(* Whatever the order of moves, stops, polls and contacts, once everything  *)
(* sent has been carried out a robot seen off the floor or against a bumper *)
(* does not drive forward.                                                  *)
ContactStops ==
    /\ Settled /\ "lifted" \in m.flags => robot.wheels = Stopped
    /\ Settled /\ m.flags \cap {"frontLeft", "frontRight"} # {}
        => ~Forward(robot.wheels[1], robot.wheels[2])

(* Stall detection is never blind: wheels that turn are wheels the manager  *)
(* believes to be moving.                                                   *)
MotionIsWatched == Settled /\ m.active /\ robot.wheels # Stopped => m.moving

(* The driver is never trapped: whatever has been touched and stalled, a    *)
(* robot on its wheels can be reversed out, after one push at most.         *)
NeverTrapped == CanEscape(m.flags, 1)

(* Transitions end, whatever fails: a disable leaves manual mode, an enable *)
(* does not hang.                                                           *)
TransitionsEnd == (m.enabling ~> ~m.enabling) /\ (m.disabling ~> ~m.active)

(* The first time a client goes silent, the wheels are told to stop.        *)
FirstSilenceStops ==
    m.active /\ silent /\ ~m.watchdogStopped /\ m.moving
        ~> ~m.moving \/ ~silent \/ ~m.active

(* Leaving manual mode, the motors go off before TestMode does.             *)
MotorsOffBeforeTestMode ==
    [][wire = None /\ wire' # None /\ wire'.then = "disable3"
        => \A i \in DOMAIN queue : queue[i].cmd # "VacuumOff"]_vars

(* Leaving manual mode starts with stopping the wheels: no move is sent     *)
(* after that.                                                              *)
NoMoveWhileLeaving ==
    [][wire = None /\ wire' # None /\ wire'.cmd = "WheelsMove"
        => InFlight({"disable2", "disable3"}) = {}]_vars

(* The watchdog stops wheels whenever the client goes silent.               *)
SilenceStops ==
    m.active /\ silent /\ m.moving ~> ~m.moving \/ ~silent \/ ~m.active

(* Wheels are re-enabled after a stop so that the next move works.          *)
MovesFindWheelsEnabled ==
    [][wire = None /\ wire' # None /\ wire'.cmd = "WheelsMove" /\ ~lost /\ robot.testMode
        => robot.enabled]_vars

(* A stall keeps blocking forward moves until the robot is reversed away.   *)
StallBlocksUntilReversed ==
    m.active /\ ~driven /\ "lifted" \notin m.flags => "stallFront" \in m.flags
=============================================================================
