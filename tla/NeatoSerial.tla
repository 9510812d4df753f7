---------------------------- MODULE NeatoSerial ----------------------------
(***************************************************************************)
(* The serial command queue of firmware/src/neato_serial.cpp: a bounded    *)
(* priority queue of commands, a four-state machine driven by tick() that  *)
(* has at most one command on the UART, and completion callbacks that may  *)
(* enqueue the next command of a chain.  The robot at the other end of the *)
(* wire is the environment.                                                *)
(*                                                                         *)
(* A request is one call of a public method (setMotorWheels, newBattery    *)
(* ...); it is answered when the callback its caller passed is invoked.    *)
(* The clock is abstracted to one bit: expired says that the deadline of   *)
(* the current state (3 s response timeout, 50 ms inter-command delay) has *)
(* passed.  Text is abstracted to what the code tests: the verb (first     *)
(* word) the response echoes, and whether it reads "Unknown Cmd".          *)
(***************************************************************************)
EXTENDS Naturals, Sequences

CONSTANTS
    Req,          \* the requests made of the queue
    OpOf,         \* the operation each request is a call of
    QueueMax,     \* NEATO_QUEUE_MAX_SIZE
    LateReplies,  \* may the robot answer after the response timeout?
    None          \* no command

Op == {"wheelsStop", "wheelsMove", "brushOn", "testModeOn", "newBattery", "powerCycle", "getState"}

Cmd == {"WheelsDisable", "WheelsEnable", "WheelsMove", "BrushEnable", "BrushRpm",
        "TestModeOn", "TestModeOff", "NewBattery", "SystemMode", "GetState"}

MotorCmds == {"WheelsDisable", "WheelsEnable", "WheelsMove", "BrushEnable", "BrushRpm"}

ASSUME OpOfAssumption == OpOf \in [Req -> Op]
ASSUME QueueMaxAssumption == QueueMax \in Nat \ {0}
ASSUME LateRepliesAssumption == LateReplies \in BOOLEAN

\* CRITICAL = 1, HIGH = 2, MEDIUM = 3, NORMAL = 4: the lower the more urgent.
Priority == [c \in Cmd |->
    CASE c \in {"WheelsDisable", "WheelsEnable", "WheelsMove"} -> 1
      [] c \in {"TestModeOn", "TestModeOff", "NewBattery", "SystemMode"} -> 2
      [] c \in {"BrushEnable", "BrushRpm"} -> 3
      [] c = "GetState" -> 4]

\* The first word of the command, all that the echo check compares.
Verb == [c \in Cmd |->
    CASE c \in MotorCmds -> "SetMotor"
      [] c \in {"TestModeOn", "TestModeOff"} -> "TestMode"
      [] OTHER -> c]

Verbs == {Verb[c] : c \in Cmd}

\* SetSystemMode is sent without waiting for a response.
WaitsForResponse == [c \in Cmd |-> c # "SystemMode"]

FirstCmd == [o \in Op |->
    CASE o = "wheelsStop" -> "WheelsDisable"
      [] o = "wheelsMove" -> "WheelsMove"
      [] o = "brushOn" -> "BrushEnable"
      [] o = "getState" -> "GetState"
      [] OTHER -> "TestModeOn"]

(***************************************************************************)
(* The completion lambda of command c in a chain of operation o: the       *)
(* command it enqueues, None when there is none ...                        *)
(***************************************************************************)
NextCmd(o, c, ok) ==
    CASE c = "WheelsDisable" -> "WheelsEnable"
      [] c = "BrushEnable" /\ ok -> "BrushRpm"
      [] c = "TestModeOn" /\ o = "newBattery" /\ ok -> "NewBattery"
      [] c = "TestModeOn" /\ o = "powerCycle" /\ ok -> "SystemMode"
      [] c = "NewBattery" -> "TestModeOff"
      [] OTHER -> None

(* ... and whether it answers the caller at once, before that command has  *)
(* run.  Only newBattery does both: it reports the failure and still sends *)
(* TestMode Off, with no callback.                                         *)
AnswersNow(o, c, ok) ==
    \/ NextCmd(o, c, ok) = None
    \/ c = "NewBattery" /\ ~ok

Entry == [req: Req, cmd: Cmd, seq: Nat, callback: BOOLEAN]
Body == {"ok", "unknown"}
Token == [kind: {"echo", "end"}, from: Entry, body: Body]
State == {"IDLE", "SENDING", "WAITING_RESPONSE", "INTER_DELAY"}

ASSUME NoneAssumption == None \notin Entry /\ None \notin Cmd

VARIABLES
    queue,        \* commands accepted and not yet dequeued, most urgent first
    state,        \* QueueState
    current,      \* currentCommand with its callback, or None
    echo,         \* responseBuffer: whose echo line it starts with, or None
    expired,      \* the deadline of the current state has passed
    nextSeq,      \* stamp of the next accepted command (history)
    issued,       \* requests made so far
    replies,      \* what each request's callback has been called with (history)
    inbox,        \* robot: commands received and not yet taken up
    replying,     \* robot: the reply whose terminator is still owed, or None
    rx,           \* bytes on their way to, or in, the ESP32's UART buffer
    executed,     \* robot: <<request, command>> pairs carried out (history)
    echoed        \* robot: the verbs of the replies it has begun (history)

callers == <<issued, replies, nextSeq>>
robot == <<inbox, replying, executed, echoed>>
vars == <<queue, state, current, echo, expired, nextSeq, issued, replies,
          inbox, replying, rx, executed, echoed>>

TypeOK ==
    /\ queue \in Seq(Entry)
    /\ state \in State
    /\ current \in Entry \cup {None}
    /\ echo \in Entry \cup {None}
    /\ expired \in BOOLEAN
    /\ nextSeq \in Nat
    /\ issued \in SUBSET Req
    /\ replies \in [Req -> Seq(BOOLEAN)]
    /\ inbox \in Seq(Entry)
    /\ replying \in Token \cup {None}
    /\ rx \in Seq(Token)
    /\ executed \in SUBSET (Req \X Cmd)
    /\ echoed \in SUBSET Verbs

Init ==
    /\ queue = <<>>
    /\ state = "IDLE"
    /\ current = None
    /\ echo = None
    /\ expired = FALSE
    /\ nextSeq = 0
    /\ issued = {}
    /\ replies = [r \in Req |-> <<>>]
    /\ inbox = <<>>
    /\ replying = None
    /\ rx = <<>>
    /\ executed = {}
    /\ echoed = {}

-----------------------------------------------------------------------------
(* The queue.                                                              *)

\* The place enqueue() inserts at: before the first less urgent entry.
IsInsertPos_Append(q, p, i) == i = Len(q) + 1   \* mutant: push_back for insert

IsInsertPos(q, p, i) ==
    /\ i \in 1 .. Len(q) + 1
    /\ \A j \in 1 .. i - 1 : Priority[q[j].cmd] <= p
    /\ i <= Len(q) => Priority[q[i].cmd] > p

Inserted(q, e, i) ==
    [j \in 1 .. Len(q) + 1 |->
        IF j < i THEN q[j] ELSE IF j = i THEN e ELSE q[j - 1]]

\* enqueue(): refused when full, else inserted in priority order.
HasRoom_OffByOne(q) == Len(q) <= QueueMax   \* mutant: > for >= in the size test

HasRoom(q) == Len(q) < QueueMax

Enqueue(q, e) ==
    \E i \in 1 .. Len(q) + 1 :
        /\ IsInsertPos(q, Priority[e.cmd], i)
        /\ queue' = Inserted(q, e, i)
        /\ nextSeq' = nextSeq + 1

NewEntry_NoCallback(r, c, cb) == [req |-> r, cmd |-> c, seq |-> nextSeq]   \* mutant

NewEntry(r, c, cb) == [req |-> r, cmd |-> c, seq |-> nextSeq, callback |-> cb]

Answer(r, ok) == replies' = [replies EXCEPT ![r] = Append(@, ok)]

\* A public method is called: its first command is enqueued, or the queue is
\* full and the callback gets false before the call returns.
Submit(r) ==
    /\ r \notin issued
    /\ issued' = issued \cup {r}
    /\ IF HasRoom(queue)
       THEN /\ Enqueue(queue, NewEntry(r, FirstCmd[OpOf[r]], TRUE))
            /\ UNCHANGED replies
       ELSE /\ Answer(r, FALSE)
            /\ UNCHANGED <<queue, nextSeq>>
    /\ UNCHANGED <<state, current, echo, expired, rx>>
    /\ UNCHANGED robot

-----------------------------------------------------------------------------
(* tick().  Its sKey part (neato_serial.cpp:94-97) is a caller like any    *)
(* other: a Submit immediately before.                                     *)

\* The command a lambda enqueues carries the caller's callback on, unless the
\* lambda has answered already ...
PassesOn_Always(e, now) == e.callback   \* mutant: newBattery's clean-up gets it too

PassesOn(e, now) == ~now /\ e.callback

\* ... and a next command that finds the queue full fails on the spot, and so
\* does, at once, everything after it in the chain.
AnswersCaller_NotIfFull(e, now) == e.callback /\ now   \* mutant: silent rejection

AnswersCaller(e, now) == e.callback /\ (now \/ ~HasRoom(queue))

\* The completion of command e: enqueue the next one, answer the caller, or both.
Callback(e, ok) ==
    LET next == NextCmd(OpOf[e.req], e.cmd, ok)
        now == AnswersNow(OpOf[e.req], e.cmd, ok)
    IN  /\ IF next # None /\ HasRoom(queue)
           THEN Enqueue(queue, NewEntry(e.req, next, PassesOn(e, now)))
           ELSE UNCHANGED <<queue, nextSeq>>
        /\ IF AnswersCaller(e, now)
           THEN Answer(e.req, ok /\ next = None)
           ELSE UNCHANGED replies

CompleteCommand(ok) ==
    /\ current' = None
    /\ echo' = None
    /\ expired' = FALSE
    /\ state' = "INTER_DELAY"
    /\ Callback(current, ok)

\* QUEUE_IDLE: take the most urgent command.
DequeueNext ==
    /\ state = "IDLE"
    /\ queue # <<>>
    /\ current' = Head(queue)
    /\ queue' = Tail(queue)
    /\ echo' = None
    /\ state' = "SENDING"
    /\ UNCHANGED <<expired, rx>>
    /\ UNCHANGED callers
    /\ UNCHANGED robot

\* QUEUE_SENDING: drop stale bytes, transmit, and wait unless the command is
\* sent without waiting.
SendCurrentCommand ==
    /\ state = "SENDING"
    /\ rx' = <<>>
    /\ inbox' = Append(inbox, current)
    /\ IF WaitsForResponse[current.cmd]
       THEN /\ state' = "WAITING_RESPONSE"
            /\ expired' = FALSE
            /\ UNCHANGED <<queue, current, echo, nextSeq, replies>>
       ELSE CompleteCommand(TRUE)
    /\ UNCHANGED <<issued, replying, executed, echoed>>

\* Where the first terminator in rx is, 0 when there is none: a reply is an
\* echo and an end, and a flush may have eaten the echo.
Terminator ==
    IF rx # <<>> /\ rx[1].kind = "end" THEN 1
    ELSE IF Len(rx) > 1 /\ rx[2].kind = "end" THEN 2
    ELSE 0

EchoHeard == IF echo = None /\ rx # <<>> /\ rx[1].kind = "echo" THEN rx[1].from ELSE echo

ValidEcho_AnyEcho == EchoHeard # None   \* mutant: the echoed verb is not compared

ValidEcho == EchoHeard # None /\ Verb[EchoHeard.cmd] = Verb[current.cmd]

\* QUEUE_WAITING_RESPONSE, a terminator is read: desync (flush and fail),
\* unsupported, or success.
ReceiveResponse ==
    /\ state = "WAITING_RESPONSE"
    /\ Terminator > 0
    /\ CompleteCommand(ValidEcho /\ rx[Terminator].body = "ok")
    /\ rx' = IF ValidEcho THEN SubSeq(rx, Terminator + 1, Len(rx)) ELSE <<>>
    /\ UNCHANGED issued
    /\ UNCHANGED robot

\* QUEUE_WAITING_RESPONSE, the bytes read end short of a terminator.
ReadPartial ==
    /\ state = "WAITING_RESPONSE"
    /\ Terminator = 0
    /\ ~expired
    /\ rx # <<>>
    /\ echo' = EchoHeard
    /\ rx' = <<>>
    /\ UNCHANGED <<queue, state, current, expired>>
    /\ UNCHANGED callers
    /\ UNCHANGED robot

\* QUEUE_WAITING_RESPONSE, no terminator and the deadline has passed.
ResponseTimeout ==
    /\ state = "WAITING_RESPONSE"
    /\ Terminator = 0
    /\ expired
    /\ rx' = <<>>
    /\ CompleteCommand(FALSE)
    /\ UNCHANGED issued
    /\ UNCHANGED robot

\* QUEUE_INTER_DELAY is over.
DelayOver ==
    /\ state = "INTER_DELAY"
    /\ expired
    /\ state' = "IDLE"
    /\ expired' = FALSE
    /\ UNCHANGED <<queue, current, echo, rx>>
    /\ UNCHANGED callers
    /\ UNCHANGED robot

Tick == DequeueNext \/ SendCurrentCommand \/ ReceiveResponse
        \/ ReadPartial \/ ResponseTimeout \/ DelayOver

-----------------------------------------------------------------------------
(* The environment: the clock and the robot.                               *)

DeadlinePasses ==
    /\ state \in {"WAITING_RESPONSE", "INTER_DELAY"}
    /\ ~expired
    /\ expired' = TRUE
    /\ UNCHANGED <<queue, state, current, echo, rx>>
    /\ UNCHANGED callers
    /\ UNCHANGED robot

InTime(e) == LateReplies \/ (state = "WAITING_RESPONSE" /\ e = current)

\* The robot takes up a command and starts its reply with the echo line.
RobotEcho(body) ==
    /\ replying = None
    /\ inbox # <<>>
    /\ InTime(Head(inbox))
    /\ LET e == Head(inbox)
           t == [kind |-> "echo", from |-> e, body |-> body]
       IN  /\ rx' = Append(rx, t)
           /\ replying' = [t EXCEPT !.kind = "end"]
           /\ executed' = IF body = "ok" THEN executed \cup {<<e.req, e.cmd>>} ELSE executed
           /\ echoed' = echoed \cup {Verb[e.cmd]}
    /\ inbox' = Tail(inbox)
    /\ UNCHANGED <<queue, state, current, echo, expired>>
    /\ UNCHANGED callers

\* The rest of the reply, with its terminator.
RobotEnd ==
    /\ replying # None
    /\ InTime(replying.from)
    /\ rx' = Append(rx, replying)
    /\ replying' = None
    /\ UNCHANGED <<queue, state, current, echo, expired, inbox, executed, echoed>>
    /\ UNCHANGED callers

\* The robot drops a reply for the next command; one it drops for none is a
\* reply not finished yet.
RobotGiveUp ==
    /\ replying # None
    /\ inbox # <<>>
    /\ replying' = None
    /\ UNCHANGED <<queue, state, current, echo, expired, inbox, rx, executed, echoed>>
    /\ UNCHANGED callers

\* A command is lost (robot off or asleep), or carried out with no reply.
RobotSilent(done) ==
    /\ replying = None
    /\ inbox # <<>>
    /\ inbox' = Tail(inbox)
    /\ executed' = IF done THEN executed \cup {<<Head(inbox).req, Head(inbox).cmd>>} ELSE executed
    /\ UNCHANGED <<queue, state, current, echo, expired, replying, rx, echoed>>
    /\ UNCHANGED callers

Robot ==
    \/ \E body \in Body : RobotEcho(body)
    \/ RobotEnd
    \/ RobotGiveUp
    \/ \E done \in BOOLEAN : RobotSilent(done)

Next ==
    \/ \E r \in Req : Submit(r)
    \/ Tick
    \/ DeadlinePasses
    \/ Robot

Spec == Init /\ [][Next]_vars

\* loop() calls tick() for ever and millis() advances; the robot owes nothing.
FairSpec == Spec /\ WF_vars(Tick) /\ WF_vars(DeadlinePasses)

-----------------------------------------------------------------------------
(* Properties.                                                             *)

\* An entry still owes request r its answer.
Owes(e, r) == e # None /\ e.req = r /\ e.callback

Pending(r) == Owes(current, r) \/ \E i \in DOMAIN queue : Owes(queue[i], r)

(* Exactly-once completion: a caller's callback is never invoked twice and  *)
(* never dropped, through rejection, timeout, desync and chained commands:  *)
(* a request not answered yet is on the queue or on the wire, exactly once. *)
ExactlyOnce ==
    \A r \in Req :
        /\ Len(replies[r]) <= 1
        /\ Pending(r) <=> r \in issued /\ replies[r] = <<>>
        /\ Owes(current, r) => \A i \in DOMAIN queue : ~Owes(queue[i], r)
        /\ \A i, j \in DOMAIN queue : Owes(queue[i], r) /\ Owes(queue[j], r) => i = j

Before(a, b) ==
    \/ Priority[a.cmd] < Priority[b.cmd]
    \/ Priority[a.cmd] = Priority[b.cmd] /\ a.seq < b.seq

(* The queue never outgrows its limit, whatever callbacks enqueue from      *)
(* within a completion, and is always in the order the robot will see:      *)
(* by priority, and by submission within a priority.                        *)
QueueInOrder ==
    /\ Len(queue) <= QueueMax
    /\ \A i, j \in DOMAIN queue : i < j => Before(queue[i], queue[j])

(* A command is never taken from the queue past a more urgent or an equally *)
(* urgent older one: an emergency stop waits for the command on the wire    *)
(* and no other.                                                            *)
MostUrgentFirst ==
    [][state = "IDLE" /\ state' = "SENDING" =>
        \A i \in DOMAIN queue : queue[i] = current' \/ Before(current', queue[i])]_vars

\* What the robot must have done for an operation to be reported successful:
\* the commands whose response the chain waits for and tests.
Tested(o) ==
    CASE o = "wheelsStop" -> {"WheelsEnable"}
      [] o = "wheelsMove" -> {"WheelsMove"}
      [] o = "brushOn" -> {"BrushEnable", "BrushRpm"}
      [] o = "testModeOn" -> {"TestModeOn"}
      [] o = "newBattery" -> {"TestModeOn", "NewBattery", "TestModeOff"}
      [] o = "powerCycle" -> {"TestModeOn"}
      [] o = "getState" -> {"GetState"}

(* A caller that is told "ok" was told so about its own commands: the robot *)
(* carried out every command of the chain that was checked.                 *)
OkMeansExecuted ==
    \A r \in Req : replies[r] = <<TRUE>> => {r} \X Tested(OpOf[r]) \subseteq executed

(* Even when replies come late or break off, a success is never reported on *)
(* the strength of a reply to another kind of command: the robot began one  *)
(* to every command of the chain that was checked, or to one of its verb.   *)
OkMeansEchoed ==
    \A r \in Req : replies[r] = <<TRUE>> =>
        \A c \in Tested(OpOf[r]) : Verb[c] \in echoed

(* The stronger claim that it carried one out: an echo broken off by the    *)
(* reply to a later command lends it its verb.                              *)
OkMeansVerbExecuted ==
    \A r \in Req : replies[r] = <<TRUE>> =>
        \A c \in Tested(OpOf[r]) : \E x \in executed : Verb[x[2]] = Verb[c]

(* A stop is reported successful only if the wheels were really disabled.   *)
StopMeansDisabled ==
    \A r \in Req : OpOf[r] = "wheelsStop" /\ replies[r] = <<TRUE>>
        => <<r, "WheelsDisable">> \in executed

(* TestMode goes out before motor commands that were queued before it.      *)
TestModeBeforeMotors ==
    [][state = "IDLE" /\ state' = "SENDING" /\ current'.cmd \in MotorCmds
        => \A i \in DOMAIN queue : queue[i].cmd # "TestModeOn"]_vars

\* What the proofs add to make the invariants above inductive.
Bookkeeping ==
    /\ current # None <=> state \in {"SENDING", "WAITING_RESPONSE"}
    /\ current # None => current.req \in issued
    /\ \A i \in DOMAIN queue : queue[i].seq < nextSeq /\ queue[i].req \in issued
    /\ \A r \in Req \ issued : replies[r] = <<>>

IInv == TypeOK /\ Bookkeeping /\ ExactlyOnce /\ QueueInOrder

\* The commands of o's chain that have been tested once c is enqueued.
TestedBefore(o, c) ==
    CASE o = "brushOn" /\ c = "BrushRpm" -> {"BrushEnable"}
      [] o \in {"newBattery", "powerCycle"} /\ c \in {"NewBattery", "SystemMode"} -> {"TestModeOn"}
      [] o = "newBattery" /\ c = "TestModeOff" -> {"TestModeOn", "NewBattery"}
      [] OTHER -> {}

Chain(o) ==
    CASE o = "wheelsStop" -> {"WheelsDisable", "WheelsEnable"}
      [] o = "powerCycle" -> {"TestModeOn", "SystemMode"}
      [] OTHER -> Tested(o)

\* An entry that answers its caller stands in the chain of its operation, and
\* what was tested before it was echoed.
InChain(e, heard) ==
    e.callback =>
        /\ e.cmd \in Chain(OpOf[e.req])
        /\ \A c \in TestedBefore(OpOf[e.req], e.cmd) : Verb[c] \in heard

\* What has been read or is on its way was sent by the robot.
EchoesAreReal ==
    /\ echo # None => Verb[echo.cmd] \in echoed
    /\ \A i \in DOMAIN rx : rx[i].kind = "echo" => Verb[rx[i].from.cmd] \in echoed
    /\ replying # None => replying.kind = "end"

ChainsTested ==
    /\ current # None => InChain(current, echoed)
    /\ \A i \in DOMAIN queue : InChain(queue[i], echoed)

EInv == EchoesAreReal /\ ChainsTested /\ OkMeansEchoed

(* Every call is answered in the end, whether or not the robot replies.     *)
EveryCallAnswered == \A r \in Req : r \in issued ~> replies[r] # <<>>

=============================================================================
