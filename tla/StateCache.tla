----------------------------- MODULE StateCache -----------------------------
(***************************************************************************)
(* The robot's UI state as the firmware sees it: stateCache of             *)
(* NeatoSerial, an AsyncCache whose fetcher sends GetState, against        *)
(* clean(), which reads the cache, invalidates it and sends an event, all  *)
(* over one serial line that takes events (HIGH priority) before polls     *)
(* (NORMAL).  The line is NeatoSerial's queue cut down to those two kinds. *)
(***************************************************************************)
EXTENDS AsyncCache

CONSTANTS
    Act,        \* the calls of clean()
    ActionOf    \* "pause", "stop" or "clean": what each asks for

Ui == {"IDLE", "CLEANING", "PAUSED"}
Event == {"PAUSE", "STOP", "RESUME", "START_HOUSE"}
Command == [act: Act, event: Event]
Poll == [act |-> None, event |-> "GetState"]

ASSUME NoneNotAct == None \notin Act
ASSUME NoneNotCommand == None \notin Command \cup {Poll}
ASSUME ActionOfAssumption == ActionOf \in [Act -> {"pause", "stop", "clean"}]

VARIABLES
    uiAt,       \* uiAt[v + 1]: the robot's UI state in version v of source
    pollQueued, \* GetState is on the queue
    events,     \* the events on the queue, oldest first
    wire,       \* the command on the wire: an event, Poll, or None
    handled,    \* the robot has carried it out
    asked,      \* calls of clean() made so far
    polled,     \* those made while GetState was on the wire (history)
    confirmed,  \* the version each confirmed event left the robot in (history)
    newest      \* the newest of those when each get() was called (history)

line == <<pollQueued, events, wire, handled>>
history == <<asked, polled, confirmed, newest>>
svars == <<cvars, uiAt, line, history>>

STypeOK ==
    /\ CTypeOK
    /\ uiAt \in Seq(Ui) /\ Len(uiAt) = source + 1
    /\ pollQueued \in BOOLEAN /\ handled \in BOOLEAN
    /\ events \in Seq(Command)
    /\ wire \in Command \cup {None, Poll}
    /\ asked \in SUBSET Act /\ polled \in SUBSET asked
    /\ confirmed \in [Act -> Data]
    /\ newest \in [Reader -> SUBSET Act]

ui == uiAt[source + 1]

\* stateCache.hasCached() && getCached().uiState ... PAUSED: no time to live.
PausedInCache == hasValue /\ uiAt[cached + 1] = "PAUSED"

SInit ==
    /\ CInit
    /\ \E u \in Ui : uiAt = <<u>>
    /\ pollQueued = FALSE
    /\ events = <<>>
    /\ wire = None
    /\ handled = FALSE
    /\ asked = {}
    /\ polled = {}
    /\ confirmed = [a \in Act |-> None]
    /\ newest = [r \in Reader |-> {}]

-----------------------------------------------------------------------------
\* getState(): a get() whose fetch enqueues GetState at NORMAL priority.
GetState(r) ==
    /\ Get(r)
    /\ newest' = [newest EXCEPT ![r] = {a \in Act : confirmed[a] # None}]
    /\ pollQueued' = (pollQueued \/ StartFetch(r))
    /\ UNCHANGED <<uiAt, events, wire, handled, asked, polled, confirmed>>

\* The event clean() sends: for "pause" and "stop" as asked, else a resume of
\* what the cache says is paused, or a new house clean.
EventOf(a) ==
    CASE ActionOf[a] = "pause" -> "PAUSE"
      [] ActionOf[a] = "stop" -> "STOP"
      [] ActionOf[a] = "clean" -> IF PausedInCache THEN "RESUME" ELSE "START_HOUSE"

\* clean(): invalidateState(), then enqueue; a full queue refuses the event.
Clean(a) ==
    /\ a \notin asked
    /\ asked' = asked \cup {a}
    /\ polled' = IF wire = Poll THEN polled \cup {a} ELSE polled
    /\ Invalidate
    /\ events' \in {events, Append(events, [act |-> a, event |-> EventOf(a)])}
    /\ UNCHANGED <<uiAt, pollQueued, wire, handled, confirmed, newest>>

-----------------------------------------------------------------------------
(* The line.                                                               *)

\* An event before a poll.
SendNext_PollFirst ==   \* mutant: events are enqueued below NORMAL
    /\ wire = None
    /\ \/ /\ pollQueued
          /\ wire' = Poll
          /\ pollQueued' = FALSE
          /\ UNCHANGED events
       \/ /\ ~pollQueued
          /\ events # <<>>
          /\ wire' = Head(events)
          /\ events' = Tail(events)
          /\ UNCHANGED pollQueued
    /\ handled' = FALSE
    /\ UNCHANGED <<cvars, uiAt, history>>

SendNext ==
    /\ wire = None
    /\ \/ /\ events # <<>>
          /\ wire' = Head(events)
          /\ events' = Tail(events)
          /\ UNCHANGED pollQueued
       \/ /\ events = <<>>
          /\ pollQueued
          /\ wire' = Poll
          /\ pollQueued' = FALSE
          /\ UNCHANGED events
    /\ handled' = FALSE
    /\ UNCHANGED <<cvars, uiAt, history>>

\* What an event makes of the robot's UI state.
After(event) ==
    CASE event = "PAUSE" /\ ui = "CLEANING" -> "PAUSED"
      [] event = "STOP" -> "IDLE"
      [] event = "RESUME" /\ ui = "PAUSED" -> "CLEANING"
      [] event = "START_HOUSE" -> "CLEANING"
      [] OTHER -> ui

\* The robot goes from one UI state to another: a new version of the data.
Becomes(u) ==
    IF u = ui THEN UNCHANGED <<cvars, uiAt>>
    ELSE Change /\ uiAt' = Append(uiAt, u)

RobotHandles ==
    /\ wire # None
    /\ ~handled
    /\ handled' = TRUE
    /\ IF wire = Poll THEN Sample /\ UNCHANGED uiAt ELSE Becomes(After(wire.event))
    /\ UNCHANGED <<pollQueued, events, wire, history>>

\* The command on the wire completes: a reply, or a timeout.
LineDone(ok) ==
    /\ wire # None
    /\ ok => handled
    /\ wire' = None
    /\ handled' = FALSE
    /\ IF wire = Poll
       THEN FetchDone(ok) /\ UNCHANGED confirmed
       ELSE /\ delivery = <<>>
            /\ confirmed' = IF ok THEN [confirmed EXCEPT ![wire.act] = source] ELSE confirmed
            /\ UNCHANGED cvars
    /\ UNCHANGED <<uiAt, pollQueued, events, asked, polled, newest>>

\* The robot finishes a clean, or its button is pressed.
RobotMoves ==
    /\ ~handled
    /\ \E u \in Ui \ {ui} : Becomes(u)
    /\ UNCHANGED <<line, history>>

SDeliver == Deliver /\ UNCHANGED <<uiAt, line, history>>
SExpire == Expire /\ UNCHANGED <<uiAt, line, history>>

SNext ==
    \/ \E r \in Reader : GetState(r)
    \/ \E a \in Act : Clean(a)
    \/ SendNext
    \/ RobotHandles
    \/ \E ok \in BOOLEAN : LineDone(ok)
    \/ RobotMoves
    \/ SDeliver
    \/ SExpire

SSpec == SInit /\ [][SNext]_svars

\* tick() runs for ever and a command times out if it is not answered.
SFairSpec ==
    SSpec /\ WF_svars(SendNext) /\ WF_svars(\E ok \in BOOLEAN : LineDone(ok)) /\ WF_svars(SDeliver)

-----------------------------------------------------------------------------
(* Properties.                                                             *)

Sees(r, a) == \A i \in DOMAIN answers[r] : answers[r][i].ok => answers[r][i].data >= confirmed[a]

(* After an action has been confirmed, getState() shows the robot as it was *)
(* then or later, if no GetState was on the wire when clean() was called:   *)
(* invalidation and the priority of events over polls see to it.            *)
ReadYourWritesUnlessPolled ==
    \A r \in Reader : \A a \in newest[r] \ polled : Sees(r, a)

(* What the proofs add: an event is sent once; a poll reads the robot only  *)
(* while it is on the wire; while an event that was not polled under is     *)
(* under way, nothing is cached; what is cached, read or about to be handed *)
(* out is as new as what was confirmed.                                     *)
Underway(a) ==
    \/ wire \in Command /\ wire.act = a
    \/ \E i \in DOMAIN events : events[i].act = a

SentOnce ==
    /\ \A a \in Act : Underway(a) => a \in asked /\ confirmed[a] = None
    /\ \A i, j \in DOMAIN events : events[i].act = events[j].act => i = j
    /\ wire \in Command => \A i \in DOMAIN events : events[i].act # wire.act
    /\ \A a \in Act : confirmed[a] # None => a \in asked /\ confirmed[a] <= source

NothingPolled ==
    /\ fetching /\ sample # None => wire = Poll
    /\ \A a \in Act \ polled : Underway(a) => wire # Poll /\ ~hasValue

AsNewAsConfirmed ==
    /\ \A a \in Act \ polled : confirmed[a] # None =>
        /\ hasValue => cached >= confirmed[a]
        /\ fetching /\ sample # None => sample >= confirmed[a]
    /\ \A r \in Reader : \A a \in newest[r] : confirmed[a] # None
    /\ \A r \in ToSet(delivery) : \A a \in newest[r] \ polled : result.ok => result.data >= confirmed[a]

SIInv == STypeOK /\ SentOnce /\ NothingPolled /\ AsNewAsConfirmed /\ ReadYourWritesUnlessPolled

(* The same without the condition: "the next poll fetches fresh data" (the  *)
(* comment on invalidateState(), neato_serial.h).  An older poll that is on *)
(* the wire stores what it read as fresh.                                   *)
ReadYourWrites == \A r \in Reader : \A a \in newest[r] : Sees(r, a)

\* Some caller of getState() has been shown the robot's present state.
Shown == \E r \in Reader : \E i \in DOMAIN answers[r] : answers[r][i] = [ok |-> TRUE, data |-> source]

(* clean() with the generic action resumes whatever is paused: a robot that *)
(* is paused, has been seen to be, and has nothing under way is not sent    *)
(* off on a new clean.                                                      *)
ResumesWhatIsPaused ==
    [][\A a \in asked' \ asked :
        ActionOf[a] = "clean" /\ ui = "PAUSED" /\ Shown
        /\ wire = None /\ events = <<>> /\ events' # <<>>
            => events'[1].event = "RESUME"]_svars

(* Every getState() is answered, whatever the robot does.                   *)
PollAnswered == \A r \in Reader : r \in called ~> answers[r] # <<>>
=============================================================================
