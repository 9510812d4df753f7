--------------------------- MODULE Notifications ---------------------------
(***************************************************************************)
(* The push notifications (firmware/src/notification_manager.cpp): the     *)
(* robot's state and error are polled, a change of either becomes a        *)
(* message, and "Cleaning done" waits for the statistics that              *)
(* CleaningHistory computes on its own.                                    *)
(*                                                                         *)
(* Time advances in units; the manager's tick comes as soon as its         *)
(* interval has passed.  CleaningHistory is what its users see of it: a    *)
(* session that begins and, some time after the clean, is finalized, which *)
(* moves lastCleanStats.sessionId.  A message that is not delivered is not *)
(* sent again, so a message counts when it is tried.  All kinds of         *)
(* messages are switched on.                                               *)
(***************************************************************************)
EXTENDS Integers, FiniteSets

CONSTANTS
    MaxCleans,      \* bound on the cleans
    MaxPauses,      \* bound on pauses, recharges and manoeuvres in the middle of one
    MaxOutages,     \* bound on losses of the network and of a state read
    Active, Idle,   \* NOTIF_INTERVAL_ACTIVE_MS, NOTIF_INTERVAL_IDLE_MS
    DoneTimeout,    \* NTFY_DONE_PENDING_TIMEOUT_MS
    MinClean,       \* the shortest clean
    LateError       \* may a manoeuvre end between the state's answer and the error's?

ASSUME BoundsAssumption ==
    /\ MaxCleans \in Nat /\ MaxPauses \in Nat /\ MaxOutages \in Nat
    /\ Active \in Nat \ {0} /\ Idle \in Nat \ {0} /\ DoneTimeout \in Nat /\ MinClean \in Nat
ASSUME SwitchAssumption == LateError \in BOOLEAN
\* A clean outlasts the wait for the statistics and the look that ends it.
ASSUME TimingAssumption ==
    Active <= Idle /\ DoneTimeout > 0 /\ DoneTimeout + Idle <= MinClean

Clean == 1 .. MaxCleans
\* "returning" and "suspended" are the robot state Charging_Cleaning; "test"
\* is what a manoeuvre of the no-go guard shows.
Ui == {"idle", "running", "paused", "docking", "returning", "suspended", "test"}

VARIABLES
    ui, clean,  \* the robot, and the number of its present or last clean
    since,      \* time since the clean began, up to MinClean
    history,    \* CleaningHistory: the clean recorded, its end, lastCleanStats
    manager,    \* the NotificationManager object
    online,     \* is WiFi connected?
    budget,     \* what is left of the bounds
    log         \* history: the messages

vars == <<ui, clean, since, history, manager, online, budget, log>>

Histories == [recorded: 0 .. MaxCleans, closing: BOOLEAN, id: Nat, of: 0 .. MaxCleans,
              valid: BOOLEAN]
Managers == [prev: Ui \cup {"unknown"}, beforeDock: BOOLEAN, fetch: {"none", "state", "error"},
             seen: Ui \cup {"none"}, seenClean: 0 .. MaxCleans, pending: BOOLEAN, trigger: Nat,
             about: 0 .. MaxCleans, age: 0 .. DoneTimeout, wait: Nat, interval: {Active, Idle}]
Budgets == [pauses: 0 .. MaxPauses, outages: 0 .. MaxOutages]
Logs == [started: [Clean -> Nat], done: [Clean -> Nat], stats: [Clean -> SUBSET Clean],
         plain: SUBSET Clean, ended: SUBSET Clean]

NTypeOK ==
    /\ ui \in Ui /\ clean \in 0 .. MaxCleans
    /\ since \in 0 .. MinClean /\ online \in BOOLEAN
    /\ history \in Histories /\ manager \in Managers /\ budget \in Budgets /\ log \in Logs

Init ==
    /\ ui = "idle" /\ clean = 0 /\ since = 0 /\ online = TRUE
    /\ history = [recorded |-> 0, closing |-> FALSE, id |-> 0, of |-> 0, valid |-> FALSE]
    /\ manager = [prev |-> "unknown", beforeDock |-> FALSE,
                  fetch |-> "none", seen |-> "none", seenClean |-> 0,
                  pending |-> FALSE, trigger |-> 0, about |-> 0, age |-> 0,
                  wait |-> 0, interval |-> Idle]
    /\ budget = [pauses |-> MaxPauses, outages |-> MaxOutages]
    /\ log = [started |-> [c \in Clean |-> 0],  \* "Cleaning started" for a clean
              done |-> [c \in Clean |-> 0],     \* "Cleaning done" for a clean
              stats |-> [c \in Clean |-> {}],   \* the cleans whose statistics it named
              plain |-> {},                     \* cleans that must be reported
              ended |-> {}]                     \* cleans that are over

-----------------------------------------------------------------------------
(* What a handler does is a function of s.                                 *)

Now == [m |-> manager, log |-> log]
Becomes(s) == manager' = s.m /\ log' = s.log

IsRunning(u) == u = "running"
IsDocking(u) == u \in {"docking", "returning"}
IsRecharging(u) == u \in {"returning", "suspended"}
InCleaning(u) == u \in {"running", "paused", "suspended"} \/ IsDocking(u)
IsActiveState(u) == InCleaning(u)

Up(n) == IF n = 2 THEN 2 ELSE n + 1
SendStarted(s, c) == [s EXCEPT !.log.started[c] = Up(@)]

SendDone(s, withStats) ==
    [s EXCEPT !.log.done[s.m.about] = Up(@),
              !.log.stats[s.m.about] = IF withStats THEN @ \cup {history.of} ELSE @]

\* mutant: the statistics at hand are sent, finalized or not
FlushPendingDone_Stale(s) ==
    IF s.m.pending
    THEN [SendDone(s, history.valid) EXCEPT !.m.pending = FALSE, !.m.age = 0]
    ELSE s

(* flushPendingDone(): the statistics are those of the session that was    *)
(* finalized since, or are left out after a while.                         *)
FlushPendingDone(s) ==
    LET finalized == history.id # s.m.trigger
    IN  IF s.m.pending /\ (finalized \/ s.m.age >= DoneTimeout)
        THEN [SendDone(s, finalized /\ history.valid) EXCEPT !.m.pending = FALSE, !.m.age = 0]
        ELSE s

(* checkTransitions(), the state's part: u is the state that was read.     *)
Started(s, u) ==
    IF IsRunning(u) /\ ~InCleaning(s.m.prev) THEN SendStarted(s, s.m.seenClean) ELSE s

Completes(s, u) ==
    /\ u = "idle"
    /\ \/ IsRunning(s.m.prev)
       \/ IsDocking(s.m.prev) /\ s.m.beforeDock /\ ~IsRecharging(u)
       \/ s.m.prev = "suspended" /\ s.m.beforeDock

Deferred(s, u) ==
    IF Completes(s, u) /\ ~s.m.pending
    THEN [s EXCEPT !.m.pending = TRUE, !.m.trigger = history.id, !.m.age = 0,
                   !.m.about = s.m.seenClean]
    ELSE s

\* mutant: the flag is cleared on the base of a recharge too
DockTracked_Forgets(s, u) ==
    [s EXCEPT !.m.beforeDock =
        /\ @ \/ (IsRunning(s.m.prev) /\ IsDocking(u))
        /\ ~(IsDocking(s.m.prev) /\ ~IsDocking(u))]

DockTracked(s, u) ==
    [s EXCEPT !.m.beforeDock =
        /\ @ \/ (IsRunning(s.m.prev) /\ IsDocking(u))
        /\ ~(IsDocking(s.m.prev) /\ ~IsDocking(u) /\ u # "suspended")]

(* The flag is set before it is read and cleared after.                    *)
Transition(s, u) ==
    LET entered == [s EXCEPT !.m.beforeDock = @ \/ (IsRunning(s.m.prev) /\ IsDocking(u))]
    IN  DockTracked(Deferred(Started(entered, u), u), u)

\* mutant: a manoeuvre is taken for what the robot does
StateSeen_Maneuver(s) ==
    LET u == s.m.seen
        t == IF s.m.prev = "unknown" THEN s ELSE Transition(s, u)
    IN  [t EXCEPT !.m.interval = IF IsActiveState(u) THEN Active ELSE Idle, !.m.prev = u]

StateSeen(s) ==
    LET u == s.m.seen
        t == IF s.m.prev = "unknown" THEN s ELSE Transition(s, u)
    IN  IF ui = "test"
        THEN [s EXCEPT !.m.interval = Active]
        ELSE [t EXCEPT !.m.interval = IF IsActiveState(u) THEN Active ELSE Idle, !.m.prev = u]

-----------------------------------------------------------------------------
(* The loop task.                                                          *)

Due == manager.wait >= manager.interval

Tick ==
    /\ Due
    /\ LET s == FlushPendingDone(Now)
           asks == manager.fetch = "none" /\ online
       IN  Becomes([s EXCEPT !.m.wait = 0, !.m.fetch = IF asks THEN "state" ELSE @])
    /\ UNCHANGED <<ui, clean, since, history, online, budget>>

StateRead ==
    /\ manager.fetch = "state"
    /\ manager' = [manager EXCEPT !.fetch = "error", !.seen = ui, !.seenClean = clean]
    /\ UNCHANGED <<ui, clean, since, history, online, budget, log>>

Excuse == log' = [log EXCEPT !.plain = {}]

StateFails ==
    /\ manager.fetch = "state" /\ budget.outages > 0
    /\ budget' = [budget EXCEPT !.outages = @ - 1]
    /\ manager' = [manager EXCEPT !.fetch = "error", !.seen = "none"]
    /\ Excuse
    /\ UNCHANGED <<ui, clean, since, history, online>>

ErrorRead ==
    /\ manager.fetch = "error"
    /\ LET s == [Now EXCEPT !.m.fetch = "none"]
           t == IF manager.seen = "none" THEN s ELSE StateSeen(s)
       IN  Becomes([t EXCEPT !.m.seen = "none"])
    /\ UNCHANGED <<ui, clean, since, history, online, budget>>

-----------------------------------------------------------------------------
(* CleaningHistory, as CleaningHistory.tla has it: a session is recorded,  *)
(* its end is noticed when the robot is idle, and the charger's answer     *)
(* finalizes it; a short session leaves no statistics.                     *)
HistoryStarts ==
    /\ ui # "idle" /\ history.recorded = 0
    /\ history' = [history EXCEPT !.recorded = clean]
    /\ UNCHANGED <<ui, clean, since, manager, online, budget, log>>

HistoryStops ==
    /\ ui = "idle" /\ history.recorded # 0 /\ ~history.closing
    /\ history' = [history EXCEPT !.closing = TRUE]
    /\ UNCHANGED <<ui, clean, since, manager, online, budget, log>>

HistoryFinalizes ==
    /\ history.closing
    /\ \E valid \in BOOLEAN :
         history' = [recorded |-> 0, closing |-> FALSE, id |-> history.id + 1,
                     of |-> history.recorded, valid |-> valid]
    /\ UNCHANGED <<ui, clean, since, manager, online, budget, log>>

-----------------------------------------------------------------------------
(* The robot, the network and time.                                        *)

Goes(from, to) == ui \in from /\ ui' = to
Spends == budget.pauses > 0 /\ budget' = [budget EXCEPT !.pauses = @ - 1]

(* A clean whose end the manager had no time to see is not counted.        *)
Unnoticed == IF InCleaning(manager.prev) THEN {clean} ELSE {}

(* CleaningHistory looks every two seconds: it has seen the end of a clean *)
(* before the next begins, and the charger has answered before that ends.  *)
Starts ==
    /\ Goes({"idle"}, "running") /\ clean < MaxCleans
    /\ history.recorded = 0 \/ history.closing
    /\ clean' = clean + 1 /\ since' = 0
    /\ log' = [log EXCEPT !.plain = (@ \ Unnoticed) \cup (IF online THEN {clean + 1} ELSE {})]
    /\ UNCHANGED <<history, manager, online, budget>>

(* A robot that goes home, or starts a manoeuvre, before the manager has   *)
(* seen it clean, or clean on after a recharge, is not counted either.     *)
LeavesRunning == IF since > Idle /\ manager.prev = "running" THEN UNCHANGED log ELSE Excuse

(* A pause may end the clean, or be followed by a return to the base that  *)
(* wasCleaningBeforeDock does not know of: such a clean is not counted.    *)
Pauses ==
    /\ Goes({"running"}, "paused") /\ Spends
    /\ Excuse
    /\ UNCHANGED <<clean, since, history, manager, online>>

Maneuvers ==
    /\ Goes({"running"}, "test") /\ Spends /\ LeavesRunning
    /\ UNCHANGED <<clean, since, history, manager, online>>

ManeuverEnds ==
    /\ Goes({"test"}, "running")
    /\ LateError \/ manager.fetch # "error"
    /\ UNCHANGED <<clean, since, history, manager, online, budget, log>>

Recharges ==
    /\ Goes({"running"}, "returning") /\ Spends /\ LeavesRunning
    /\ UNCHANGED <<clean, since, history, manager, online>>

Docks ==
    /\ Goes({"running", "paused"}, "docking") /\ LeavesRunning
    /\ UNCHANGED <<clean, since, history, manager, online, budget>>

GoesOn ==
    /\ \/ Goes({"paused", "suspended"}, "running")
       \/ /\ Goes({"returning"}, "suspended")  \* the way to the base is seen, if anything is
          /\ manager.prev = "returning" \/ clean \notin log.plain
    /\ UNCHANGED <<clean, since, history, manager, online, budget, log>>

Ends ==
    /\ Goes({"running", "paused", "docking", "suspended"}, "idle")
    /\ since = MinClean /\ ~history.closing
    /\ log' = [log EXCEPT !.ended = @ \cup {clean}]
    /\ UNCHANGED <<clean, since, history, manager, online, budget>>

NetworkChanges ==
    /\ \/ online /\ budget.outages > 0 /\ budget' = [budget EXCEPT !.outages = @ - 1]
       \/ ~online /\ UNCHANGED budget
    /\ online' = ~online
    /\ Excuse
    /\ UNCHANGED <<ui, clean, since, history, manager>>

(* The robot's answers come within a unit.                                 *)
Time ==
    /\ ~Due /\ manager.fetch = "none"
    /\ since' = IF ui # "idle" /\ since < MinClean THEN since + 1 ELSE since
    /\ manager' = [manager EXCEPT !.wait = @ + 1,
                                  !.age = IF manager.pending /\ @ < DoneTimeout THEN @ + 1 ELSE @]
    /\ UNCHANGED <<ui, clean, history, online, budget, log>>

Manager == Tick \/ StateRead \/ StateFails \/ ErrorRead
History == HistoryStarts \/ HistoryStops \/ HistoryFinalizes
Robot == Starts \/ Pauses \/ Maneuvers \/ ManeuverEnds \/ Recharges \/ Docks \/ GoesOn \/ Ends
         \/ NetworkChanges

Next == Manager \/ History \/ Robot \/ Time

(* Time goes on and the loop with it.                                      *)
Fairness == WF_vars(Time) /\ WF_vars(Tick) /\ WF_vars(StateRead) /\ WF_vars(ErrorRead)
Spec == Init /\ [][Next]_vars /\ Fairness

-----------------------------------------------------------------------------
(* Properties.                                                             *)

(* A clean is told of once when it begins and once when it is done:        *)
(* pauses, recharges, returns to the base, manoeuvres of the no-go guard   *)
(* and lost reads in the middle of it make no second message.              *)
ToldOnce == \A c \in Clean : log.started[c] <= 1 /\ log.done[c] <= 1

(* The statistics in a "Cleaning done" are those of the clean it is about, *)
(* although they are computed by another task of the loop, before or after *)
(* the end is noticed, and may never come.                                 *)
StatsAreOfThatClean == \A c \in Clean : log.stats[c] \subseteq {c}

(* Every clean that ends without a pause while the network is up is told   *)
(* of, with the statistics or, after the timeout, without.                 *)
DoneIsTold == \A c \in Clean :
    (c \in log.ended /\ c \in log.plain) ~> (log.done[c] > 0 \/ c \notin log.plain)
=============================================================================
