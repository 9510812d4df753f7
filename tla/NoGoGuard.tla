----------------------------- MODULE NoGoGuard -----------------------------
(***************************************************************************)
(* The active no-go guard (firmware/src/nogo_guard.cpp) and the cleaning   *)
(* history that starts and ends its runs: poses near a line trigger an     *)
(* escape, by a pulse on the bumper relays or by the chain pause, TestMode *)
(* on, motors, stop, reverse, turn, TestMode off, resume.                  *)
(*                                                                         *)
(* The serial queue is NeatoSerial's seen from outside, as in ManualClean. *)
(* Poses are abstracted to what observePose() decides from them, deadlines *)
(* to whether they have passed, the three cleaning motors to one command,  *)
(* and the retry counters to 0, 1, "2 or more".                            *)
(***************************************************************************)
EXTENDS Naturals, Sequences, SequencesExt, FiniteSets

CONSTANTS
    Physical,       \* is this the build with bumper relays?
    QueueMax,       \* NEATO_QUEUE_MAX_SIZE, less what other callers occupy
    MaxStarts,      \* bound on the cleans that are started
    MaxConfigs,     \* bound on the configurations that are applied
    MaxFaults,      \* bound on the commands that fail
    MaxTests,       \* bound on the bumper tests
    ConfigAnytime,  \* may a configuration be applied during a run?
    Unanswered,     \* may a failed command have been carried out?
    None            \* no command

ASSUME BuildAssumption ==
    Physical \in BOOLEAN /\ Unanswered \in BOOLEAN /\ ConfigAnytime \in BOOLEAN
ASSUME QueueMaxAssumption == QueueMax \in Nat \ {0, 1}   \* room for a poll and a step
ASSUME BoundsAssumption ==
    MaxStarts \in Nat /\ MaxConfigs \in Nat /\ MaxFaults \in Nat /\ MaxTests \in Nat

Waiting == {"REVERSE_WAIT", "TURN_WAIT"}
Stage == {"IDLE", "PHYSICAL_BUMPER_OBSERVE", "PAUSE_PENDING", "TESTMODE_ON_PENDING",
          "CLEANING_MOTORS_PENDING", "STOP_PENDING", "REVERSE_PENDING", "TURN_PENDING",
          "TESTMODE_OFF_PENDING", "RESUME_PENDING", "COOLDOWN",
          "ABORT_TESTMODE_OFF_PENDING", "ABORT_RESUME_PENDING"} \cup Waiting
Maneuver == Stage \ {"IDLE", "COOLDOWN"}    \* isManeuverActive()
Timed == Waiting \cup {"PHYSICAL_BUMPER_OBSERVE"}

Cmd == {"Pause", "Resume", "TestModeOn", "TestModeOff", "MotorsOn", "WheelsDisable",
        "WheelsEnable", "Reverse", "Turn", "GetPose", "GetState", "GetSensors"}

\* What a completion is for: a step of the escape, named by its stage; the
\* stop that opens an abort; or a poll, a bumper test, nothing.
Step == {"PAUSE_PENDING", "TESTMODE_ON_PENDING", "CLEANING_MOTORS_PENDING", "STOP_PENDING",
         "REVERSE_PENDING", "TURN_PENDING", "TESTMODE_OFF_PENDING", "RESUME_PENDING",
         "ABORT_TESTMODE_OFF_PENDING", "ABORT_RESUME_PENDING", "abort"}
Then == Step \cup {"pose", "state", "test", "nothing"}

Priority(c) ==
    CASE c \in {"WheelsDisable", "WheelsEnable", "Reverse", "Turn"} -> 1
      [] c = "MotorsOn" -> 3
      [] c \in {"GetPose", "GetState"} -> 4
      [] OTHER -> 2

VARIABLES
    g,          \* the NoGoGuard object
    pulse,      \* what holds the relays closed: "escape", "test" or "none"
    due,        \* the deadlines that have passed
    line,       \* the serial queue
    wire,       \* the command on the wire, or None
    robot,      \* robot: UI state, TestMode
    refused,    \* a step of an escape found the queue full (history)
    starts, configs, faults, tests

vars == <<g, pulse, due, line, wire, robot, refused, starts, configs, faults, tests>>
counters == <<starts, configs, faults, tests>>

Entry == [cmd: Cmd, then: Then]
ASSUME NoneAssumption == None \notin Entry
Deadline == {"pulse", "stage", "cooldown"}

TypeOK ==
    /\ g \in [enabled: BOOLEAN, run: BOOLEAN, stage: Stage, entered: BOOLEAN,
              posePending: BOOLEAN, offs: 0 .. 2, resumes: 0 .. 2]
    /\ pulse \in {"none", "escape", "test"}
    /\ due \subseteq Deadline
    /\ line \in Seq(Entry) /\ Len(line) <= QueueMax
    /\ wire \in Entry \cup {None}
    /\ robot \in [ui: {"idle", "cleaning", "paused"}, testMode: BOOLEAN]
    /\ refused \in BOOLEAN
    /\ starts \in 0 .. MaxStarts /\ configs \in 0 .. MaxConfigs
    /\ faults \in 0 .. MaxFaults /\ tests \in 0 .. MaxTests

\* The configuration loaded at boot has lines and is enabled.
Init ==
    /\ g = [enabled |-> TRUE, run |-> FALSE, stage |-> "IDLE", entered |-> FALSE,
            posePending |-> FALSE, offs |-> 0, resumes |-> 0]
    /\ pulse = "none"
    /\ due = {}
    /\ line = <<>>
    /\ wire = None
    /\ robot = [ui |-> "idle", testMode |-> FALSE]
    /\ refused = FALSE
    /\ starts = 0 /\ configs = 0 /\ faults = 0 /\ tests = 0

-----------------------------------------------------------------------------
(* What a handler does is a function of s, the guard and the queue.        *)

Now == [g |-> g, pulse |-> pulse, due |-> due, line |-> line, refused |-> refused]

Becomes(s) ==
    /\ g' = s.g /\ pulse' = s.pulse /\ due' = s.due
    /\ line' = s.line /\ refused' = s.refused

Pending == {line[i] : i \in DOMAIN line} \cup ({wire} \ {None})
InLine == {e.cmd : e \in Pending}

Up(n) == IF n = 2 THEN 2 ELSE n + 1

Insert(q, e) ==
    LET passed == {i \in DOMAIN q : \A j \in 1 .. i : Priority(q[j].cmd) <= Priority(e.cmd)}
    IN  InsertAt(q, Cardinality(passed) + 1, e)

Release(s) == [s EXCEPT !.pulse = "none"]

Pulse(s, who) == [s EXCEPT !.pulse = who, !.due = @ \ {"pulse"}]

Cooldown(s) == [s EXCEPT !.g.stage = "COOLDOWN", !.due = @ \ {"cooldown"}]

Wait(s, stage) == [s EXCEPT !.g.stage = stage, !.due = @ \ {"stage"}]

\* A full queue runs the lambda on the spot, with false.  Whatever a step of
\* the escape sends then is refused too: the stop and both attempts to leave
\* TestMode if it was entered, or else both attempts to resume.
Refused(s, then) ==
    CASE then \in Step ->
            IF \/ then \in {"TESTMODE_OFF_PENDING", "ABORT_TESTMODE_OFF_PENDING", "abort"}
               \/ s.g.entered /\ then \notin {"RESUME_PENDING", "ABORT_RESUME_PENDING"}
            THEN Cooldown([s EXCEPT !.g.offs = 2, !.refused = TRUE])
            ELSE Cooldown([s EXCEPT !.g.resumes = 2, !.refused = TRUE])
      [] then = "pose" -> [s EXCEPT !.g.posePending = FALSE]
      [] then = "test" -> Release(s)
      [] OTHER -> s

Send_OffByOne(s, cmd, then) ==   \* mutant: the limit is tested with >
    IF Len(s.line) > QueueMax THEN Refused(s, then)
    ELSE [s EXCEPT !.line = Insert(@, [cmd |-> cmd, then |-> then])]

Send(s, cmd, then) ==
    IF Len(s.line) >= QueueMax THEN Refused(s, then)
    ELSE [s EXCEPT !.line = Insert(@, [cmd |-> cmd, then |-> then])]

\* send...(): the stage is set before the command is queued.
SendStep(s, cmd, stage) == Send([s EXCEPT !.g.stage = stage], cmd, stage)

SendTestModeOff(s, stage) == SendStep([s EXCEPT !.g.offs = Up(@)], "TestModeOff", stage)

SendResume(s, stage) == SendStep([s EXCEPT !.g.resumes = Up(@)], "Resume", stage)

FailStage(s) ==
    IF s.g.entered THEN Send(s, "WheelsDisable", "abort")
    ELSE SendResume(s, "ABORT_RESUME_PENDING")

ResetRunState(s) ==
    Release([s EXCEPT !.g.posePending = FALSE, !.g.entered = FALSE, !.g.stage = "IDLE",
                      !.g.offs = 0, !.g.resumes = 0])

StartRun(s) == ResetRunState([s EXCEPT !.g.run = TRUE])

\* endRun(): the stop and the TestMode Off are sent without a callback, and
\* testModeEntered stays as it is.
EndRun(s) ==
    LET stop == Send(s, "WheelsDisable", "nothing")
        off == Send(IF Len(s.line) >= QueueMax THEN s ELSE stop, "TestModeOff", "nothing")
    IN  Release([(IF s.g.entered THEN off ELSE s)
                    EXCEPT !.g.run = FALSE, !.g.posePending = FALSE, !.g.stage = "IDLE"])

-----------------------------------------------------------------------------
(* Completions.                                                            *)

\* What a pose says: far from the lines and not approaching one, within the
\* warning distance or approaching, across a line; and, of a robot whose
\* bumper was pulsed, that it has moved away.
View == {"clear", "near", "crossed", "away"}

Escape(s) ==
    IF Physical THEN Wait(Pulse(s, "escape"), "PHYSICAL_BUMPER_OBSERVE")
    ELSE SendStep(s, "Pause", "PAUSE_PENDING")

BeginTestModeFallback(s) == SendStep(Release(s), "Pause", "PAUSE_PENDING")

\* Between COOLDOWN_MIN_MS and COOLDOWN_MAX_MS only a pose away from the
\* lines arms the guard again; "clear" is such a pose after the minimum.
Observe(s, view) ==
    CASE s.g.stage = "PHYSICAL_BUMPER_OBSERVE" /\ view = "crossed" -> BeginTestModeFallback(s)
      [] s.g.stage = "PHYSICAL_BUMPER_OBSERVE" /\ view = "away" -> Cooldown(Release(s))
      [] s.g.stage = "COOLDOWN" /\ (view = "clear" \/ "cooldown" \in s.due) ->
            [s EXCEPT !.g.stage = "IDLE"]
      [] s.g.stage = "IDLE" /\ view \in {"near", "crossed"} -> Escape(s)
      [] OTHER -> s

PoseDone_FailKeepsPending(s, ok, view) ==   \* mutant: a failed pose leaves posePending
    IF ok THEN Observe([s EXCEPT !.g.posePending = FALSE], view) ELSE s

PoseDone(s, ok, view) ==
    LET read == [s EXCEPT !.g.posePending = FALSE]
    IN  IF ok THEN Observe(read, view) ELSE read

\* CleaningHistory: idle, a cleaning robot starts a run; recording, a robot
\* that is neither cleaning nor paused ends it, unless the guard is at work.
Cleaning(r) == ~r.testMode /\ r.ui \in {"cleaning", "paused"}

StateSeen(s, ok) ==
    CASE ok /\ ~s.g.run /\ Cleaning(robot) -> StartRun(s)
      [] ok /\ s.g.run /\ ~Cleaning(robot) /\ s.g.stage \notin Maneuver -> EndRun(s)
      [] OTHER -> s

TestModeOn_IgnoresOk(s, ok) ==   \* mutant: the lambda does not look at ok
    SendStep([s EXCEPT !.g.entered = TRUE], "MotorsOn", "CLEANING_MOTORS_PENDING")

TestModeOn(s, ok) ==
    IF ok THEN SendStep([s EXCEPT !.g.entered = TRUE], "MotorsOn", "CLEANING_MOTORS_PENDING")
    ELSE FailStage(s)

ResumeStage(stage) ==
    IF stage = "TESTMODE_OFF_PENDING" THEN "RESUME_PENDING" ELSE "ABORT_RESUME_PENDING"

TestModeOff_NoRetry(s, ok, stage) ==   \* mutant: the first failure is final
    IF ok THEN SendResume([s EXCEPT !.g.entered = FALSE], ResumeStage(stage)) ELSE Cooldown(s)

TestModeOff_NoResume(s, ok, stage) ==   \* mutant: the robot is left paused
    IF ok THEN Cooldown([s EXCEPT !.g.entered = FALSE])
    ELSE IF s.g.offs < 2 THEN SendTestModeOff(s, stage) ELSE Cooldown(s)

TestModeOff(s, ok, stage) ==
    IF ok THEN SendResume([s EXCEPT !.g.entered = FALSE], ResumeStage(stage))
    ELSE IF s.g.offs < 2 THEN SendTestModeOff(s, stage) ELSE Cooldown(s)

Resume_FailKeepsStage(s, ok, stage) ==   \* mutant: the last failure leaves the stage
    IF ok THEN Cooldown(s) ELSE IF s.g.resumes < 2 THEN SendResume(s, stage) ELSE s

Resume(s, ok, stage) ==
    IF ~ok /\ s.g.resumes < 2 THEN SendResume(s, stage) ELSE Cooldown(s)

\* The lambda of a completed command.
Completed(s, e, ok, view) ==
    IF e.cmd = "WheelsDisable" THEN Send(s, "WheelsEnable", e.then)
    ELSE CASE e.cmd = "GetPose" -> PoseDone(s, ok, view)
         [] e.cmd = "GetState" -> StateSeen(s, ok)
         [] e.cmd = "GetSensors" -> Release(s)
         [] e.then = "nothing" -> s
         [] e.then \in {"PAUSE_PENDING", "STOP_PENDING", "REVERSE_PENDING", "TURN_PENDING"} /\ ~ok ->
               FailStage(s)
         [] e.then = "PAUSE_PENDING" /\ ok -> SendStep(s, "TestModeOn", "TESTMODE_ON_PENDING")
         [] e.then = "TESTMODE_ON_PENDING" -> TestModeOn(s, ok)
         [] e.then = "CLEANING_MOTORS_PENDING" -> SendStep(s, "WheelsDisable", "STOP_PENDING")
         [] e.then = "STOP_PENDING" /\ ok -> SendStep(s, "Reverse", "REVERSE_PENDING")
         [] e.then = "REVERSE_PENDING" /\ ok -> Wait(s, "REVERSE_WAIT")
         [] e.then = "TURN_PENDING" /\ ok -> Wait(s, "TURN_WAIT")
         [] e.then = "abort" -> SendTestModeOff(s, "ABORT_TESTMODE_OFF_PENDING")
         [] e.then \in {"TESTMODE_OFF_PENDING", "ABORT_TESTMODE_OFF_PENDING"} ->
               TestModeOff(s, ok, e.then)
         [] e.then \in {"RESUME_PENDING", "ABORT_RESUME_PENDING"} -> Resume(s, ok, e.then)

-----------------------------------------------------------------------------
(* The loop task.                                                          *)

\* The pulse is released whether or not the guard is armed.
Released(s) == IF s.pulse # "none" /\ "pulse" \in s.due THEN Release(s) ELSE s

\* pollPose(): invalidate the cached pose and fetch.
PollPose(s) == Send([s EXCEPT !.g.posePending = TRUE], "GetPose", "pose")

StageDue_CoolsEarly(s) ==   \* mutant: the robot is given back before it has answered
    CASE s.g.stage = "REVERSE_WAIT" -> SendStep(s, "Turn", "TURN_PENDING")
      [] s.g.stage = "TURN_WAIT" ->
            Send(Cooldown([s EXCEPT !.g.offs = Up(@)]), "TestModeOff", "TESTMODE_OFF_PENDING")
      [] s.g.stage = "PHYSICAL_BUMPER_OBSERVE" -> BeginTestModeFallback(s)

StageDue_SendsOn(s) ==   \* mutant: the stage is set by the completion
    CASE s.g.stage = "REVERSE_WAIT" -> Send(s, "Turn", "TURN_PENDING")
      [] s.g.stage = "TURN_WAIT" -> SendTestModeOff(s, "TESTMODE_OFF_PENDING")
      [] s.g.stage = "PHYSICAL_BUMPER_OBSERVE" -> BeginTestModeFallback(s)

StageDue(s) ==
    CASE s.g.stage = "REVERSE_WAIT" -> SendStep(s, "Turn", "TURN_PENDING")
      [] s.g.stage = "TURN_WAIT" -> SendTestModeOff(s, "TESTMODE_OFF_PENDING")
      [] s.g.stage = "PHYSICAL_BUMPER_OBSERVE" -> BeginTestModeFallback(s)

Armed(s) == s.g.run /\ s.g.enabled

TickArmed(s) ==
    IF "stage" \in s.due /\ s.g.stage \in Timed THEN StageDue(s)
    ELSE IF s.g.stage \in {"IDLE", "PHYSICAL_BUMPER_OBSERVE", "COOLDOWN"} /\ ~s.g.posePending
    THEN PollPose(s)
    ELSE s

Ticked_ArmedOnly(s) ==   \* mutant: the pulse is released only if armed
    IF Armed(s) THEN TickArmed(Released(s)) ELSE s

Ticked(s) == IF Armed(s) THEN TickArmed(Released(s)) ELSE Released(s)

Tick ==
    /\ Becomes(Ticked(Now))
    /\ UNCHANGED <<wire, robot, counters>>

\* CleaningHistory::tick() asks for the state, one request at a time.
HistoryPoll ==
    /\ "GetState" \notin InLine
    /\ Becomes(Send(Now, "GetState", "state"))
    /\ UNCHANGED <<wire, robot, counters>>

\* The serial queue.
SendNext ==
    /\ wire = None
    /\ line # <<>>
    /\ wire' = Head(line)
    /\ line' = Tail(line)
    /\ UNCHANGED <<g, pulse, due, robot, refused, counters>>

\* What the robot does when told to.  TestMode suspends the cleaning UI.
Does(cmd) ==
    CASE cmd = "TestModeOn" -> [robot EXCEPT !.testMode = TRUE]
      [] cmd = "TestModeOff" -> [robot EXCEPT !.testMode = FALSE]
      [] cmd = "Pause" /\ robot.ui = "cleaning" /\ ~robot.testMode ->
            [robot EXCEPT !.ui = "paused"]
      [] cmd = "Resume" /\ robot.ui = "paused" /\ ~robot.testMode ->
            [robot EXCEPT !.ui = "cleaning"]
      [] OTHER -> robot

Done ==
    /\ wire # None
    /\ wire' = None
    /\ \E view \in IF wire.cmd = "GetPose" THEN View ELSE {"clear"} :
            Becomes(Completed(Now, wire, TRUE, view))
    /\ robot' = Does(wire.cmd)
    /\ UNCHANGED counters

Fail ==
    /\ wire # None
    /\ faults < MaxFaults
    /\ faults' = faults + 1
    /\ wire' = None
    /\ Becomes(Completed(Now, wire, FALSE, "clear"))
    /\ robot' \in {robot} \cup (IF Unanswered THEN {Does(wire.cmd)} ELSE {})
    /\ UNCHANGED <<starts, configs, tests>>

Line == SendNext \/ Done \/ Fail

-----------------------------------------------------------------------------
(* The web server's handlers, and the environment.                         *)

\* PUT /api/nogo/config: lines kept, enabled or disabled.
ApplyConfig ==
    /\ configs < MaxConfigs
    /\ ConfigAnytime \/ (~g.run /\ g.stage \notin Maneuver)
    /\ configs' = configs + 1
    /\ \E enabled \in BOOLEAN : Becomes(ResetRunState([Now EXCEPT !.g.enabled = enabled]))
    /\ UNCHANGED <<wire, robot, starts, faults, tests>>

\* POST /api/nogo/bumper-test
BumperTest_InRun ==   \* mutant: a test is accepted during a run
    /\ Physical
    /\ tests < MaxTests
    /\ g.stage \notin Maneuver /\ pulse = "none"
    /\ tests' = tests + 1
    /\ Becomes(Send(Pulse(Now, "test"), "GetSensors", "test"))
    /\ UNCHANGED <<wire, robot, starts, configs, faults>>

BumperTest ==
    /\ Physical
    /\ tests < MaxTests
    /\ ~g.run /\ g.stage \notin Maneuver /\ pulse = "none"
    /\ tests' = tests + 1
    /\ Becomes(Send(Pulse(Now, "test"), "GetSensors", "test"))
    /\ UNCHANGED <<wire, robot, starts, configs, faults>>

Elapse(d) ==
    /\ d \notin due
    /\ CASE d = "pulse" -> pulse # "none"
         [] d = "stage" -> g.stage \in Timed
         [] d = "cooldown" -> g.stage = "COOLDOWN"
    /\ due' = due \cup {d}
    /\ UNCHANGED <<g, pulse, line, wire, robot, refused, counters>>

StartClean ==
    /\ starts < MaxStarts
    /\ robot = [ui |-> "idle", testMode |-> FALSE]
    /\ starts' = starts + 1
    /\ robot' = [robot EXCEPT !.ui = "cleaning"]
    /\ UNCHANGED <<g, pulse, due, line, wire, refused, configs, faults, tests>>

\* The robot is done, or stopped by its button or by a client.
EndClean ==
    /\ ~robot.testMode
    /\ robot.ui # "idle"
    /\ robot' = [robot EXCEPT !.ui = "idle"]
    /\ UNCHANGED <<g, pulse, due, line, wire, refused, counters>>

Next ==
    \/ Tick \/ HistoryPoll
    \/ SendNext \/ Done \/ Fail
    \/ ApplyConfig \/ BumperTest
    \/ \E d \in Deadline : Elapse(d)
    \/ StartClean \/ EndClean

Spec == Init /\ [][Next]_vars

\* loop() ticks for ever, the line moves on, and time passes.
FairSpec ==
    /\ Spec
    /\ WF_vars(Tick) /\ WF_vars(Line)
    /\ \A d \in Deadline : WF_vars(Elapse(d))

-----------------------------------------------------------------------------
(* Properties.                                                             *)

\* Nothing but polls is queued or on the wire.
Quiet == \A e \in Pending : e.then \in {"pose", "state", "test"}

(* One escape at a time: never two commands of the chain in flight, and the *)
(* stage is that of the one that is.                                        *)
OneManeuver ==
    \A e, f \in Pending : e.then \in Step /\ f.then \in Step => e = f

(* The guard drives the wheels only while the robot is in TestMode, and it  *)
(* knows that it is, whatever failed before.                                *)
DrivesInTestMode ==
    [][wire' # wire /\ wire' # None /\ wire'.cmd \in {"Reverse", "Turn"}
        => robot.testMode /\ g.entered]_vars

(* A run that lost no command ends because the clean has: not because the   *)
(* history, which polls when it likes, saw a robot that an escape had       *)
(* paused, taken to TestMode or not yet taken out of it.                    *)
RunEndsWithClean ==
    [][g.run /\ ~g.run' /\ faults = 0 /\ ~refused
        => robot.ui = "idle" /\ ~robot.testMode]_vars

(* At rest during a run that lost no command, the robot is neither paused   *)
(* nor in TestMode: every escape gave it back to its own cleaning.          *)
EscapeGivesBack ==
    g.run /\ g.stage \notin Maneuver /\ Quiet /\ faults = 0 /\ ~refused
        => ~robot.testMode /\ robot.ui # "paused"

(* One lost command does not strand the robot in TestMode: leaving it is    *)
(* tried twice, unless an earlier escape of the run, which resumed the      *)
(* robot, has used the attempts up (they are counted over the run).         *)
OneFaultRecovered ==
    g.run /\ g.stage \notin Maneuver /\ Quiet /\ faults = 1 /\ ~refused
        => ~robot.testMode \/ g.resumes > 0

(* A robot in TestMode is one the guard knows to be in it, so that the end  *)
(* of the run takes it out.                                                 *)
TestModeKnown ==
    robot.testMode => g.entered \/ \E e \in Pending : e.cmd \in {"TestModeOn", "TestModeOff"}

(* In a run, the relays of an escape are not opened by the late answer of a *)
(* bumper test.                                                             *)
EscapePulseUncut == g.run /\ pulse = "escape" => \A e \in Pending : e.then # "test"

(* An escape ends, whatever fails or is refused: no stage is waited in for  *)
(* an answer that will not come.  And the relays always open again, whatever*)
(* becomes of the run, the escape or the bumper test that closed them.  In  *)
(* which state the robot is then, see EscapeGivesBack and OneFaultRecovered.*)
ManeuverEnds ==
    /\ g.run /\ g.stage \in Maneuver ~> g.stage \notin Maneuver
    /\ pulse # "none" ~> pulse = "none"

(* Leaving TestMode is the last step but one: the robot does not stay in it.*)
ExitsTestMode == g.run /\ g.stage \in Waiting ~> ~robot.testMode

(* While a run lasts the guard arms itself again, if lines are lost or not. *)
Rearms == g.run /\ g.stage = "COOLDOWN" ~> ~g.run \/ g.stage # "COOLDOWN"

(* The guard acts during a cleaning run only.                               *)
EscapesOnlyInRun ==
    [][g.stage \notin Maneuver /\ g'.stage \in Maneuver => g.run]_vars

=============================================================================
