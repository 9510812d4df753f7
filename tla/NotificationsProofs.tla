------------------------ MODULE NotificationsProofs ------------------------
(***************************************************************************)
(* Proofs about Notifications, for any number of cleans, pauses and        *)
(* outages and any intervals that TimingAssumption allows: a clean is told *)
(* of once at each end, with its own statistics or none.                   *)
(***************************************************************************)
EXTENDS Notifications, TLAPS

(* What the answer being handled says is still true of the robot, but for  *)
(* the clean that may have begun since.                                    *)
AnswerIsRecent ==
    manager.fetch = "error" /\ manager.seen # "none" =>
        /\ clean <= manager.seenClean + 1
        /\ clean = manager.seenClean + 1 => ui # "idle" /\ since = 0
        /\ manager.seen = "idle" /\ clean = manager.seenClean => ui = "idle"
        /\ manager.seen = "test" => LateError \/ ui = "test"
        /\ manager.seen # "idle" => manager.seenClean > 0

ReadsInOrder ==
    /\ manager.seenClean <= clean
    /\ manager.fetch # "none" => manager.wait = 0
    /\ manager.wait <= manager.interval
    /\ InCleaning(manager.prev) => manager.seenClean > 0
    /\ ui # "idle" => clean > 0

(* A clean whose start was told is one the manager has in mind: it cannot  *)
(* seem to start again.                                                    *)
StartedOnce ==
    /\ \A c \in Clean : log.started[c] <= 1 /\ (c > manager.seenClean => log.started[c] = 0)
    /\ manager.fetch = "error" /\ manager.seen = "running" /\ log.started[manager.seenClean] > 0
        => InCleaning(manager.prev)
    /\ ui # "idle" /\ log.started[clean] > 0 => InCleaning(manager.prev)

(* A clean whose end is told, or about to be, is over: it cannot seem to   *)
(* end again.                                                              *)
EndHeard(c) == log.done[c] > 0 \/ (manager.pending /\ manager.about = c)

DoneOnce ==
    /\ \A c \in Clean : log.done[c] <= 1 /\ (c > manager.seenClean => log.done[c] = 0)
    /\ manager.pending =>
          /\ manager.about > 0 /\ manager.about <= manager.seenClean
          /\ log.done[manager.about] = 0
    /\ manager.seenClean > 0 /\ EndHeard(manager.seenClean) =>
          /\ manager.prev = "idle"
          /\ clean = manager.seenClean => ui = "idle"
          /\ manager.fetch = "error" => manager.seen \in {"idle", "none"}

(* The history records the clean that runs, or still closes the last one.  *)
HistoryKeepsUp ==
    /\ history.closing => history.recorded # 0
    /\ history.recorded # 0 =>
          /\ history.recorded = clean \/ history.recorded + 1 = clean
          /\ ui = "idle" => history.recorded = clean
          /\ ui # "idle" => (history.closing <=> history.recorded # clean)

(* While a message waits for statistics, the clean after the one it is     *)
(* about has not had the time to end: what is finalized is of that clean.  *)
StillWaiting ==
    /\ manager.age < DoneTimeout => since <= manager.age
    /\ manager.age = DoneTimeout => since <= DoneTimeout - 1 + manager.wait

StatsWillFit ==
    manager.pending =>
        /\ clean = manager.about \/ clean = manager.about + 1
        /\ clean = manager.about => ui = "idle"
        /\ clean # manager.about => ui # "idle" /\ StillWaiting
        /\ history.id # manager.trigger =>
              /\ history.of = manager.about
              /\ history.recorded # 0 => history.recorded = clean /\ clean # manager.about

NIInv ==
    /\ NTypeOK
    /\ AnswerIsRecent
    /\ ReadsInOrder
    /\ LateError \/ StartedOnce
    /\ DoneOnce
    /\ HistoryKeepsUp
    /\ StatsWillFit
    /\ StatsAreOfThatClean

USE DEF InCleaning, IsDocking, IsRunning, IsRecharging, IsActiveState, EndHeard

LEMMA Bounds ==
    /\ MaxCleans \in Nat /\ MaxPauses \in Nat /\ MaxOutages \in Nat
    /\ Active \in Nat /\ Idle \in Nat /\ Active > 0 /\ Idle > 0 /\ Active <= Idle
    /\ DoneTimeout \in Nat /\ DoneTimeout > 0
    /\ MinClean \in Nat /\ MinClean > 0 /\ DoneTimeout + Idle <= MinClean
BY BoundsAssumption, TimingAssumption

\* What NTypeOK says of the fields, one by one.
Numbers ==
    /\ clean \in Nat /\ clean <= MaxCleans /\ since \in Nat /\ since <= MinClean
    /\ manager.seenClean \in Nat /\ manager.about \in Nat /\ manager.trigger \in Nat
    /\ manager.age \in Nat /\ manager.age <= DoneTimeout
    /\ manager.wait \in Nat /\ manager.interval \in Nat /\ manager.interval <= Idle
    /\ history.id \in Nat /\ history.recorded \in Nat

LEMMA Typed == NTypeOK => Numbers
<1> SUFFICES ASSUME NTypeOK
             PROVE  Numbers
  OBVIOUS
<1>1. manager.seenClean \in 0 .. MaxCleans /\ manager.about \in 0 .. MaxCleans
      /\ manager.trigger \in Nat /\ manager.age \in 0 .. DoneTimeout /\ manager.wait \in Nat
      /\ manager.interval \in {Active, Idle}
  BY DEF NTypeOK, Managers
<1>2. history.id \in Nat /\ history.recorded \in 0 .. MaxCleans
  BY DEF NTypeOK, Histories
<1>3. clean \in 0 .. MaxCleans /\ since \in 0 .. MinClean
  BY DEF NTypeOK
<1>4. QED
  BY <1>1, <1>2, <1>3, Bounds DEF Numbers

LEMMA InitTypes == Init => NTypeOK
<1> SUFFICES ASSUME Init
             PROVE  NTypeOK
  OBVIOUS
<1> USE Bounds DEF Init
<1>1. history \in Histories
  BY DEF Histories
<1>2. manager \in Managers
  BY DEF Managers, Ui
<1>3. budget \in Budgets
  BY DEF Budgets
<1>4. log \in Logs
  BY DEF Logs, Clean
<1>5. QED
  BY <1>1, <1>2, <1>3, <1>4 DEF NTypeOK, Ui

LEMMA InitInv == Init => NIInv
<1> SUFFICES ASSUME Init
             PROVE  NIInv
  OBVIOUS
<1> USE Bounds DEF Init
<1>1. NTypeOK
  BY InitTypes
<1>2. AnswerIsRecent /\ ReadsInOrder /\ StartedOnce
  BY DEF AnswerIsRecent, ReadsInOrder, StartedOnce
<1>3. DoneOnce /\ HistoryKeepsUp /\ StatsWillFit /\ StatsAreOfThatClean
  BY DEF DoneOnce, HistoryKeepsUp, StatsWillFit, StatsAreOfThatClean
<1>4. QED
  BY <1>1, <1>2, <1>3 DEF NIInv

-----------------------------------------------------------------------------
(* The robot and the network.                                              *)

SameMessages ==
    log'.started = log.started /\ log'.done = log.done /\ log'.stats = log.stats

\* A robot that goes from one thing to another without ending its clean.
Roams ==
    /\ \/ ui' = ui
       \/ /\ ui # "idle" /\ ui' # "idle"
          /\ ui = "test" => LateError \/ manager.fetch # "error"
    /\ UNCHANGED <<clean, since, history, manager>>
    /\ SameMessages

LEMMA RoamsInv == NIInv /\ NTypeOK' /\ Roams => NIInv'
<1> SUFFICES ASSUME NIInv, NTypeOK', Roams
             PROVE  NIInv'
  OBVIOUS
<1> USE DEF NIInv, Roams, SameMessages
<1>1. AnswerIsRecent'
  BY DEF AnswerIsRecent
<1>2. ReadsInOrder'
  BY DEF ReadsInOrder
<1>3. LateError \/ StartedOnce'
  BY DEF StartedOnce
<1>4. DoneOnce'
  BY DEF DoneOnce
<1>5. HistoryKeepsUp'
  BY DEF HistoryKeepsUp
<1>6. StatsWillFit'
  BY DEF StatsWillFit, StillWaiting
<1>7. StatsAreOfThatClean'
  BY DEF StatsAreOfThatClean
<1>8. QED
  BY <1>1, <1>2, <1>3, <1>4, <1>5, <1>6, <1>7

LEMMA SpendsTypes == budget \in Budgets /\ Spends => budget' \in Budgets
<1> SUFFICES ASSUME budget \in Budgets, Spends
             PROVE  budget' \in Budgets
  OBVIOUS
<1>1. budget.pauses - 1 \in 0 .. MaxPauses
  BY Bounds DEF Budgets, Spends
<1>2. QED
  BY <1>1 DEF Budgets, Spends

LEMMA OutageTypes ==
    budget \in Budgets /\ budget.outages > 0 /\ budget' = [budget EXCEPT !.outages = @ - 1]
        => budget' \in Budgets
<1> SUFFICES ASSUME budget \in Budgets, budget.outages > 0,
                    budget' = [budget EXCEPT !.outages = @ - 1]
             PROVE  budget' \in Budgets
  OBVIOUS
<1>1. budget.outages - 1 \in 0 .. MaxOutages
  BY Bounds DEF Budgets
<1>2. QED
  BY <1>1 DEF Budgets

LEMMA ExcuseTypes == log \in Logs /\ Excuse => log' \in Logs /\ SameMessages
BY DEF Excuse, Logs, SameMessages

LEMMA LeavesTypes == log \in Logs /\ LeavesRunning => log' \in Logs /\ SameMessages
BY ExcuseTypes DEF LeavesRunning, SameMessages

LEMMA RoamingActions ==
    ASSUME NTypeOK
    PROVE  \/ Pauses \/ Maneuvers \/ ManeuverEnds \/ Recharges \/ Docks \/ GoesOn
           \/ NetworkChanges \/ UNCHANGED vars
           => NTypeOK' /\ Roams
<1> USE DEF NTypeOK, Roams, Goes, Ui
<1>1. Pauses => NTypeOK' /\ Roams
  BY SpendsTypes, ExcuseTypes DEF Pauses
<1>2. Maneuvers => NTypeOK' /\ Roams
  BY SpendsTypes, LeavesTypes DEF Maneuvers
<1>3. ManeuverEnds => NTypeOK' /\ Roams
  BY DEF ManeuverEnds, SameMessages
<1>4. Recharges => NTypeOK' /\ Roams
  BY SpendsTypes, LeavesTypes DEF Recharges
<1>5. Docks => NTypeOK' /\ Roams
  BY LeavesTypes DEF Docks
<1>6. GoesOn => NTypeOK' /\ Roams
  BY DEF GoesOn, SameMessages
<1>7. NetworkChanges => NTypeOK' /\ Roams
  BY OutageTypes, ExcuseTypes DEF NetworkChanges
<1>8. UNCHANGED vars => NTypeOK' /\ Roams
  BY DEF vars, SameMessages
<1>9. QED
  BY <1>1, <1>2, <1>3, <1>4, <1>5, <1>6, <1>7, <1>8

LEMMA StartsInv == NIInv /\ Starts => NIInv'
<1> SUFFICES ASSUME NIInv, Starts
             PROVE  NIInv'
  OBVIOUS
<1> USE Bounds DEF NIInv
<1>1. Numbers
  BY Typed
<1>2. ui = "idle" /\ ui' = "running" /\ clean < MaxCleans /\ clean' = clean + 1 /\ since' = 0
      /\ manager' = manager /\ history' = history /\ online' = online /\ budget' = budget
      /\ (history.recorded = 0 \/ history.closing)
  BY DEF Starts, Goes
<1>3. log' \in Logs /\ SameMessages
  <2>1. clean + 1 \in Clean
    BY <1>1, <1>2 DEF Numbers, Clean
  <2>2. (log.plain \ Unnoticed) \cup (IF online THEN {clean + 1} ELSE {}) \in SUBSET Clean
    BY <2>1 DEF NTypeOK, Logs
  <2>3. QED
    BY <2>2 DEF NTypeOK, Logs, Starts, SameMessages
<1>4. NTypeOK'
  BY <1>1, <1>2, <1>3 DEF NTypeOK, Numbers, Ui
<1>5. AnswerIsRecent' /\ ReadsInOrder'
  BY <1>1, <1>2 DEF AnswerIsRecent, ReadsInOrder, Numbers
<1>6. LateError \/ StartedOnce'
  <2>1. clean + 1 \in Clean
    BY <1>1, <1>2 DEF Numbers, Clean
  <2>2. QED
    BY <1>1, <1>2, <1>3, <2>1 DEF StartedOnce, ReadsInOrder, SameMessages, Numbers
<1>7. DoneOnce'
  BY <1>1, <1>2, <1>3 DEF DoneOnce, ReadsInOrder, SameMessages, Numbers
<1>8. HistoryKeepsUp'
  BY <1>1, <1>2 DEF HistoryKeepsUp, Numbers
<1>9. StatsWillFit'
  BY <1>1, <1>2 DEF StatsWillFit, StillWaiting, HistoryKeepsUp, Numbers
<1>10. StatsAreOfThatClean'
  BY <1>3 DEF StatsAreOfThatClean, SameMessages
<1>11. QED
  BY <1>4, <1>5, <1>6, <1>7, <1>8, <1>9, <1>10

\* No clean ends while a message waits for the statistics of the last one.
LEMMA NothingPending == NIInv /\ Ends => ~manager.pending
<1> SUFFICES ASSUME NIInv, Ends, manager.pending
             PROVE  FALSE
  OBVIOUS
<1>1. StillWaiting /\ since = MinClean
  BY DEF NIInv, Ends, Goes, StatsWillFit
<1>2. Numbers /\ manager.wait <= manager.interval
  BY Typed DEF NIInv, ReadsInOrder
<1>3. QED
  BY <1>1, <1>2, Bounds DEF Numbers, StillWaiting

LEMMA EndsInv == NIInv /\ Ends => NIInv'
<1> SUFFICES ASSUME NIInv, Ends
             PROVE  NIInv'
  OBVIOUS
<1> USE Bounds DEF NIInv
<1>1. Numbers /\ ~manager.pending
  BY Typed, NothingPending
<1>2. ui \notin {"idle", "test"} /\ ui' = "idle" /\ since = MinClean /\ ~history.closing
      /\ clean' = clean /\ since' = since /\ manager' = manager /\ history' = history
      /\ online' = online /\ budget' = budget
  BY DEF Ends, Goes
<1>3. log' \in Logs /\ SameMessages
  <2>1. clean \in Clean
    BY <1>1, <1>2 DEF Numbers, Clean, ReadsInOrder
  <2>2. log.ended \cup {clean} \in SUBSET Clean
    BY <2>1 DEF NTypeOK, Logs
  <2>3. QED
    BY <2>2 DEF NTypeOK, Logs, Ends, SameMessages
<1>4. NTypeOK'
  BY <1>2, <1>3 DEF NTypeOK, Ui
<1>5. AnswerIsRecent' /\ ReadsInOrder'
  BY <1>1, <1>2 DEF AnswerIsRecent, ReadsInOrder, Numbers
<1>6. LateError \/ StartedOnce'
  BY <1>2, <1>3 DEF StartedOnce, SameMessages
<1>7. DoneOnce'
  BY <1>1, <1>2, <1>3 DEF DoneOnce, SameMessages
<1>8. HistoryKeepsUp'
  BY <1>1, <1>2 DEF HistoryKeepsUp, Numbers
<1>9. StatsWillFit'
  BY <1>1, <1>2 DEF StatsWillFit
<1>10. StatsAreOfThatClean'
  BY <1>3 DEF StatsAreOfThatClean, SameMessages
<1>11. QED
  BY <1>4, <1>5, <1>6, <1>7, <1>8, <1>9, <1>10

-----------------------------------------------------------------------------
(* The history.                                                            *)

LEMMA HistoryTypes == NIInv /\ History => NTypeOK'
<1> SUFFICES ASSUME NIInv, History
             PROVE  NTypeOK'
  OBVIOUS
<1> USE DEF NIInv, NTypeOK
<1>1. CASE HistoryStarts
  BY <1>1 DEF HistoryStarts, Histories
<1>2. CASE HistoryStops
  BY <1>2 DEF HistoryStops, Histories
<1>3. CASE HistoryFinalizes
  <2>1. history.id + 1 \in Nat /\ history.recorded \in 0 .. MaxCleans /\ 0 \in 0 .. MaxCleans
    BY Bounds DEF Histories
  <2>2. QED
    BY <1>3, <2>1 DEF HistoryFinalizes, Histories
<1>4. QED
  BY <1>1, <1>2, <1>3 DEF History

LEMMA HistoryInv == NIInv /\ History => NIInv'
<1> SUFFICES ASSUME NIInv, History
             PROVE  NIInv'
  OBVIOUS
<1> USE DEF NIInv
<1>1. Numbers /\ NTypeOK'
  BY Typed, HistoryTypes
<1>2. UNCHANGED <<ui, clean, since, manager, log>>
  BY DEF History, HistoryStarts, HistoryStops, HistoryFinalizes
<1>3. AnswerIsRecent' /\ ReadsInOrder'
  BY <1>2 DEF AnswerIsRecent, ReadsInOrder
<1>4. (LateError \/ StartedOnce') /\ DoneOnce'
  BY <1>2 DEF StartedOnce, DoneOnce
<1>5. CASE HistoryStarts
  <2>1. history'.recorded = clean /\ history'.closing = history.closing
        /\ history'.id = history.id /\ history'.of = history.of
        /\ ui # "idle" /\ history.recorded = 0
    BY <1>5 DEF HistoryStarts, NTypeOK, Histories
  <2>2. HistoryKeepsUp'
    BY <1>1, <1>2, <2>1 DEF HistoryKeepsUp, ReadsInOrder, Numbers
  <2>3. StatsWillFit'
    BY <1>1, <1>2, <2>1 DEF StatsWillFit, StillWaiting, Numbers
  <2>4. QED
    BY <1>1, <1>2, <1>3, <1>4, <2>2, <2>3 DEF StatsAreOfThatClean
<1>6. CASE HistoryStops
  <2>1. history'.recorded = history.recorded /\ history'.closing = TRUE
        /\ history'.id = history.id /\ history'.of = history.of
        /\ ui = "idle" /\ history.recorded # 0
    BY <1>6 DEF HistoryStops, NTypeOK, Histories
  <2>2. HistoryKeepsUp'
    BY <1>1, <1>2, <2>1 DEF HistoryKeepsUp
  <2>3. StatsWillFit'
    BY <1>1, <1>2, <2>1 DEF StatsWillFit, StillWaiting
  <2>4. QED
    BY <1>1, <1>2, <1>3, <1>4, <2>2, <2>3 DEF StatsAreOfThatClean
<1>7. CASE HistoryFinalizes
  <2>1. history'.recorded = 0 /\ history'.closing = FALSE
        /\ history'.id = history.id + 1 /\ history'.of = history.recorded
        /\ history.closing
    BY <1>7 DEF HistoryFinalizes
  <2>2. HistoryKeepsUp'
    BY <2>1 DEF HistoryKeepsUp
  <2>3. StatsWillFit'
    BY <1>1, <1>2, <2>1 DEF StatsWillFit, StillWaiting, HistoryKeepsUp, Numbers
  <2>4. QED
    BY <1>1, <1>2, <1>3, <1>4, <2>2, <2>3 DEF StatsAreOfThatClean
<1>8. QED
  BY <1>5, <1>6, <1>7 DEF History

-----------------------------------------------------------------------------
(* The manager.                                                            *)

LEMMA TimeInv == NIInv /\ Time => NIInv'
<1> SUFFICES ASSUME NIInv, Time
             PROVE  NIInv'
  OBVIOUS
<1> USE Bounds DEF NIInv
<1>1. Numbers
  BY Typed
<1>2. manager.wait < manager.interval /\ manager.fetch = "none"
      /\ UNCHANGED <<ui, clean, history, online, budget, log>>
  BY <1>1 DEF Time, Due, Numbers
<1>3. /\ manager'.wait = manager.wait + 1
      /\ manager'.age = (IF manager.pending /\ manager.age < DoneTimeout
                         THEN manager.age + 1 ELSE manager.age)
      /\ \A f \in {"prev", "beforeDock", "fetch", "seen", "seenClean", "pending", "trigger",
                   "about", "interval"} : manager'[f] = manager[f]
      /\ manager' \in Managers
  <2>1. manager.wait + 1 \in Nat
        /\ (IF manager.pending /\ manager.age < DoneTimeout
            THEN manager.age + 1 ELSE manager.age) \in 0 .. DoneTimeout
    BY <1>1 DEF Numbers
  <2>2. QED
    BY <2>1 DEF Time, NTypeOK, Managers
<1>4. since' = (IF ui # "idle" /\ since < MinClean THEN since + 1 ELSE since)
  BY DEF Time
<1>5. NTypeOK'
  BY <1>1, <1>2, <1>3, <1>4 DEF NTypeOK, Numbers
<1>6. AnswerIsRecent' /\ ReadsInOrder'
  BY <1>1, <1>2, <1>3 DEF AnswerIsRecent, ReadsInOrder, Numbers
<1>7. (LateError \/ StartedOnce') /\ DoneOnce'
  BY <1>2, <1>3 DEF StartedOnce, DoneOnce
<1>8. HistoryKeepsUp'
  BY <1>2 DEF HistoryKeepsUp
<1>9. StatsWillFit'
  BY <1>1, <1>2, <1>3, <1>4 DEF StatsWillFit, StillWaiting, Numbers
<1>10. StatsAreOfThatClean'
  BY <1>2 DEF StatsAreOfThatClean
<1>11. QED
  BY <1>5, <1>6, <1>7, <1>8, <1>9, <1>10

LEMMA StateReadInv == NIInv /\ StateRead => NIInv'
<1> SUFFICES ASSUME NIInv, StateRead
             PROVE  NIInv'
  OBVIOUS
<1> USE DEF NIInv
<1>1. Numbers
  BY Typed
<1>2. UNCHANGED <<ui, clean, since, history, online, budget, log>> /\ manager.fetch = "state"
  BY DEF StateRead
<1>3. /\ manager'.fetch = "error" /\ manager'.seen = ui /\ manager'.seenClean = clean
      /\ \A f \in {"prev", "beforeDock", "pending", "trigger", "about", "age", "wait", "interval"} :
            manager'[f] = manager[f]
      /\ manager' \in Managers
  BY DEF StateRead, NTypeOK, Managers
<1>4. NTypeOK'
  BY <1>2, <1>3 DEF NTypeOK
<1>5. AnswerIsRecent' /\ ReadsInOrder'
  BY <1>1, <1>2, <1>3 DEF AnswerIsRecent, ReadsInOrder, Numbers, NTypeOK, Ui
<1>6. clean > manager.seenClean => clean \in Clean
  BY <1>1 DEF Numbers, Clean
<1>7. LateError \/ StartedOnce'
  BY <1>1, <1>2, <1>3, <1>6 DEF StartedOnce, ReadsInOrder, Numbers, Clean
<1>8. DoneOnce'
  BY <1>1, <1>2, <1>3, <1>6 DEF DoneOnce, ReadsInOrder, Numbers, Clean
<1>9. HistoryKeepsUp' /\ StatsAreOfThatClean'
  BY <1>2 DEF HistoryKeepsUp, StatsAreOfThatClean
<1>10. StatsWillFit'
  BY <1>2, <1>3 DEF StatsWillFit, StillWaiting
<1>11. QED
  BY <1>4, <1>5, <1>7, <1>8, <1>9, <1>10

LEMMA StateFailsInv == NIInv /\ StateFails => NIInv'
<1> SUFFICES ASSUME NIInv, StateFails
             PROVE  NIInv'
  OBVIOUS
<1> USE DEF NIInv
<1>1. UNCHANGED <<ui, clean, since, history, online>> /\ manager.fetch = "state"
  BY DEF StateFails
<1>2. /\ manager'.fetch = "error" /\ manager'.seen = "none"
      /\ \A f \in {"prev", "beforeDock", "seenClean", "pending", "trigger", "about", "age",
                   "wait", "interval"} : manager'[f] = manager[f]
      /\ manager' \in Managers
  BY DEF StateFails, NTypeOK, Managers
<1>3. budget' \in Budgets /\ log' \in Logs /\ SameMessages
  BY OutageTypes, ExcuseTypes DEF StateFails, NTypeOK
<1>4. NTypeOK'
  BY <1>1, <1>2, <1>3 DEF NTypeOK
<1>5. AnswerIsRecent' /\ ReadsInOrder'
  BY <1>1, <1>2 DEF AnswerIsRecent, ReadsInOrder
<1>6. (LateError \/ StartedOnce') /\ DoneOnce'
  BY <1>1, <1>2, <1>3 DEF StartedOnce, DoneOnce, SameMessages
<1>7. HistoryKeepsUp' /\ StatsAreOfThatClean'
  BY <1>1, <1>3 DEF HistoryKeepsUp, StatsAreOfThatClean, SameMessages
<1>8. StatsWillFit'
  BY <1>1, <1>2 DEF StatsWillFit, StillWaiting
<1>9. QED
  BY <1>4, <1>5, <1>6, <1>7, <1>8

LEMMA TickInv == NIInv /\ Tick => NIInv'
<1> SUFFICES ASSUME NIInv, Tick
             PROVE  NIInv'
  OBVIOUS
<1> USE Bounds DEF NIInv
<1> DEFINE finalized == history.id # manager.trigger
           sends == manager.pending /\ (finalized \/ manager.age >= DoneTimeout)
<1>1. Numbers
  BY Typed
<1>2. UNCHANGED <<ui, clean, since, history, online, budget>>
  BY DEF Tick
<1>3. CASE sends
  <2>1. manager.about \in Clean
    BY <1>1, <1>3 DEF DoneOnce, ReadsInOrder, Numbers, Clean
  <2>2. /\ manager' = [manager EXCEPT !.pending = FALSE, !.age = 0, !.wait = 0, !.fetch =
                         IF manager.fetch = "none" /\ online THEN "state" ELSE manager.fetch]
        /\ log' = [log EXCEPT !.done[manager.about] = Up(@),
                              !.stats[manager.about] =
                                 IF finalized /\ history.valid THEN @ \cup {history.of} ELSE @]
    BY <1>3 DEF Tick, Becomes, FlushPendingDone, SendDone, Now, NTypeOK, Managers
  <2>3. /\ ~manager'.pending /\ manager'.wait = 0
        /\ manager'.fetch \in {"state", manager.fetch}
        /\ \A f \in {"prev", "beforeDock", "seen", "seenClean", "trigger", "about", "interval"} :
              manager'[f] = manager[f]
        /\ manager' \in Managers
    <3>1. 0 \in 0 .. DoneTimeout /\ 0 \in Nat /\ FALSE \in BOOLEAN
          /\ (IF manager.fetch = "none" /\ online THEN "state" ELSE manager.fetch)
                \in {"none", "state", "error"}
      BY DEF NTypeOK, Managers
    <3>2. manager' \in Managers
      BY <2>2, <3>1 DEF NTypeOK, Managers
    <3>3. QED
      BY <2>2, <3>2 DEF NTypeOK, Managers
  <2>4. log.done[manager.about] = 0 /\ (finalized => history.of = manager.about)
    BY <1>3 DEF DoneOnce, StatsWillFit
  <2>5. /\ log'.started = log.started
        /\ log'.done = [log.done EXCEPT ![manager.about] = 1]
        /\ log'.stats[manager.about] \subseteq log.stats[manager.about] \cup {manager.about}
        /\ \A c \in Clean \ {manager.about} : log'.stats[c] = log.stats[c]
        /\ log' \in Logs
    <3>1. log.done[manager.about] \in Nat /\ log.stats[manager.about] \in SUBSET Clean
      BY <2>1 DEF NTypeOK, Logs
    <3>2. log' = [log EXCEPT !.done[manager.about] = 1,
                             !.stats[manager.about] =
                                IF finalized /\ history.valid THEN @ \cup {history.of} ELSE @]
      BY <2>2, <2>4 DEF Up
    <3>3. (IF finalized /\ history.valid THEN log.stats[manager.about] \cup {history.of}
           ELSE log.stats[manager.about]) \in SUBSET Clean
      BY <2>1, <2>4, <3>1
    <3>4. log' \in Logs
      BY <2>1, <3>2, <3>3 DEF NTypeOK, Logs
    <3>5. QED
      BY <2>1, <2>4, <3>2, <3>4 DEF NTypeOK, Logs
  <2>6. NTypeOK'
    BY <1>2, <2>3, <2>5 DEF NTypeOK
  <2>7. AnswerIsRecent' /\ ReadsInOrder'
    BY <1>1, <1>2, <2>3 DEF AnswerIsRecent, ReadsInOrder, Numbers
  <2>8. LateError \/ StartedOnce'
    BY <1>2, <2>3, <2>5 DEF StartedOnce
  <2>9. DoneOnce'
    BY <1>1, <1>2, <1>3, <2>1, <2>3, <2>5 DEF DoneOnce, Numbers, NTypeOK, Logs
  <2>10. HistoryKeepsUp' /\ StatsWillFit'
    BY <1>2, <2>3 DEF HistoryKeepsUp, StatsWillFit
  <2>11. StatsAreOfThatClean'
    BY <2>5 DEF StatsAreOfThatClean
  <2>12. QED
    BY <2>6, <2>7, <2>8, <2>9, <2>10, <2>11
<1>4. CASE ~sends
  <2>1. /\ manager' = [manager EXCEPT !.wait = 0, !.fetch =
                         IF manager.fetch = "none" /\ online THEN "state" ELSE manager.fetch]
        /\ log' = log
    BY <1>4 DEF Tick, Becomes, FlushPendingDone, Now
  <2>2. /\ manager'.wait = 0 /\ manager'.fetch \in {"state", manager.fetch}
        /\ \A f \in {"prev", "beforeDock", "seen", "seenClean", "pending", "trigger", "about",
                     "age", "interval"} : manager'[f] = manager[f]
        /\ manager' \in Managers
    BY <2>1 DEF NTypeOK, Managers
  <2>3. NTypeOK'
    BY <1>2, <2>1, <2>2 DEF NTypeOK
  <2>4. AnswerIsRecent' /\ ReadsInOrder'
    BY <1>1, <1>2, <2>2 DEF AnswerIsRecent, ReadsInOrder, Numbers
  <2>5. (LateError \/ StartedOnce') /\ DoneOnce'
    BY <1>2, <2>1, <2>2 DEF StartedOnce, DoneOnce
  <2>6. HistoryKeepsUp' /\ StatsAreOfThatClean'
    BY <1>2, <2>1 DEF HistoryKeepsUp, StatsAreOfThatClean
  <2>7. StatsWillFit'
    BY <1>1, <1>2, <1>4, <2>2 DEF StatsWillFit, StillWaiting, Numbers
  <2>8. QED
    BY <2>3, <2>4, <2>5, <2>6, <2>7
<1>5. QED
  BY <1>3, <1>4

\* What checkTransitions() does of a state u that was read.
Begins(s, u) == IsRunning(u) /\ ~InCleaning(s.m.prev)
Entered(s, u) == [s EXCEPT !.m.beforeDock = @ \/ (IsRunning(s.m.prev) /\ IsDocking(u))]
Finishes(s, u) == Completes(Entered(s, u), u) /\ ~s.m.pending

States == [m: Managers, log: Logs]

LEMMA TransitionResult ==
    ASSUME history.id \in Nat, NEW s \in States, NEW u \in Ui, u # "idle" => s.m.seenClean \in Clean
    PROVE  LET t == Transition(s, u)
           IN  /\ t \in States
               /\ \A f \in {"prev", "fetch", "seen", "seenClean", "wait", "interval"} :
                     t.m[f] = s.m[f]
               /\ t.log.done = s.log.done /\ t.log.stats = s.log.stats
               /\ t.log.started = IF Begins(s, u)
                                  THEN [s.log.started EXCEPT ![s.m.seenClean] = Up(@)]
                                  ELSE s.log.started
               /\ IF Finishes(s, u)
                  THEN t.m.pending /\ t.m.trigger = history.id /\ t.m.age = 0
                       /\ t.m.about = s.m.seenClean
                  ELSE \A f \in {"pending", "trigger", "age", "about"} : t.m[f] = s.m[f]
<1> DEFINE e == Entered(s, u)
           b == Started(e, u)
           d == Deferred(b, u)
           t == Transition(s, u)
<1>1. /\ e \in States /\ e.log = s.log
      /\ \A f \in {"prev", "fetch", "seen", "seenClean", "wait", "interval", "pending",
                   "trigger", "age", "about"} : e.m[f] = s.m[f]
  BY DEF Entered, States, Managers
<1> HIDE DEF e
<1>2. /\ b.m = e.m
      /\ b.log.started = (IF Begins(s, u) THEN [s.log.started EXCEPT ![s.m.seenClean] = Up(@)]
                          ELSE s.log.started)
      /\ b.log.done = s.log.done /\ b.log.stats = s.log.stats
      /\ b \in States
  <2>1. CASE Begins(s, u)
    <3>1. s.m.seenClean \in Clean
      BY <2>1 DEF Begins
    <3>2. b = [e EXCEPT !.log.started[s.m.seenClean] = Up(@)]
      BY <1>1, <2>1 DEF Started, SendStarted, Begins
    <3>3. Up(s.log.started[s.m.seenClean]) \in Nat
      BY <3>1 DEF States, Logs, Up
    <3> HIDE DEF b
    <3>4. /\ b.m = e.m /\ b.log = [e.log EXCEPT !.started[s.m.seenClean] =
                                                 Up(s.log.started[s.m.seenClean])]
          /\ b = [m |-> b.m, log |-> b.log]
      BY <1>1, <3>2 DEF States
    <3>5. b.log \in Logs /\ b.log.started = [s.log.started EXCEPT ![s.m.seenClean] = Up(@)]
          /\ b.log.done = s.log.done /\ b.log.stats = s.log.stats
      BY <1>1, <3>1, <3>3, <3>4 DEF States, Logs
    <3>6. QED
      BY <1>1, <2>1, <3>4, <3>5 DEF States
  <2>2. CASE ~Begins(s, u)
    BY <1>1, <2>2 DEF Started, Begins
  <2>3. QED
    BY <2>1, <2>2
<1> HIDE DEF b
<1>3. /\ d \in States /\ d.log = b.log
      /\ \A f \in {"prev", "fetch", "seen", "seenClean", "wait", "interval", "beforeDock"} :
            d.m[f] = b.m[f]
      /\ IF Finishes(s, u)
         THEN d.m.pending /\ d.m.trigger = history.id /\ d.m.age = 0
              /\ d.m.about = s.m.seenClean
         ELSE \A f \in {"pending", "trigger", "age", "about"} : d.m[f] = s.m[f]
  <2>1. Completes(b, u) = Completes(e, u) /\ b.m.pending = s.m.pending
        /\ b.m.seenClean = s.m.seenClean
    BY <1>1, <1>2 DEF Completes
  <2>2. CASE Finishes(s, u)
    <3>1. d = [b EXCEPT !.m.pending = TRUE, !.m.trigger = history.id, !.m.age = 0,
                        !.m.about = s.m.seenClean]
      BY <2>1, <2>2 DEF Deferred, Finishes, e
    <3>2. s.m.seenClean \in 0 .. MaxCleans /\ 0 \in 0 .. DoneTimeout
      BY Bounds DEF States, Managers
    <3> HIDE DEF d
    <3>3. /\ d.log = b.log /\ d.m = [b.m EXCEPT !.pending = TRUE, !.trigger = history.id,
                                                !.age = 0, !.about = s.m.seenClean]
          /\ d = [m |-> d.m, log |-> d.log]
      BY <1>2, <3>1 DEF States
    <3>4. d.m \in Managers
      BY <1>2, <3>2, <3>3 DEF States, Managers
    <3>5. QED
      BY <1>2, <2>2, <3>3, <3>4 DEF States, Managers
  <2>3. CASE ~Finishes(s, u)
    <3>1. d = b
      BY <2>1, <2>3 DEF Deferred, Finishes, e
    <3>2. QED
      BY <1>1, <1>2, <2>3, <3>1
  <2>4. QED
    BY <2>2, <2>3
<1>4. /\ t \in States /\ t.log = d.log
      /\ \A f \in {"prev", "fetch", "seen", "seenClean", "wait", "interval", "pending",
                   "trigger", "age", "about"} : t.m[f] = d.m[f]
  <2>1. PICK k \in BOOLEAN : t = [d EXCEPT !.m.beforeDock = k]
    BY <1>3 DEF Transition, DockTracked, Entered, States, Managers, e, b, d
  <2> HIDE DEF t, d
  <2>2. t.log = d.log /\ t.m = [d.m EXCEPT !.beforeDock = k] /\ t = [m |-> t.m, log |-> t.log]
    BY <1>3, <2>1 DEF States
  <2>3. QED
    BY <1>3, <2>2 DEF States, Managers
<1> HIDE DEF t, d
<1>5. QED
  BY <1>1, <1>2, <1>3, <1>4 DEF t

\* ErrorRead without its effects on the manager's view: the read is over.
ReadOver ==
    /\ UNCHANGED <<ui, clean, since, history, online, budget>>
    /\ manager'.fetch = "none" /\ manager'.seen = "none"
    /\ manager'.seenClean = manager.seenClean /\ manager'.wait = manager.wait
    /\ manager' \in Managers /\ log' \in Logs

SameDone ==
    /\ \A f \in {"pending", "trigger", "age", "about"} : manager'[f] = manager[f]
    /\ log'.done = log.done /\ log'.stats = log.stats

\* The read failed, or the robot is in the middle of a manoeuvre.
Ignored ==
    ReadOver /\ SameDone /\ manager'.prev = manager.prev /\ log'.started = log.started

\* The first state that is seen says nothing of what was before.
First == ReadOver /\ SameDone /\ manager'.prev = manager.seen /\ log'.started = log.started

Judged ==
    /\ ReadOver
    /\ manager'.prev = manager.seen
    /\ log'.done = log.done /\ log'.stats = log.stats
    /\ IF manager.seen = "running" /\ ~InCleaning(manager.prev)
       THEN log'.started = [log.started EXCEPT ![manager.seenClean] = Up(@)]
       ELSE log'.started = log.started
    /\ \/ SameDone
       \/ /\ manager.seen = "idle" /\ InCleaning(manager.prev) /\ ~manager.pending
          /\ manager'.pending /\ manager'.trigger = history.id /\ manager'.age = 0
          /\ manager'.about = manager.seenClean

LEMMA ErrorReadCases ==
    NIInv /\ ErrorRead =>
        \/ Ignored
        \/ manager.seen # "none" /\ ui # "test" /\ (First \/ Judged)
<1> SUFFICES ASSUME NIInv, ErrorRead
             PROVE  \/ Ignored
                    \/ manager.seen # "none" /\ ui # "test" /\ (First \/ Judged)
  OBVIOUS
<1> DEFINE s == [m |-> [manager EXCEPT !.fetch = "none"], log |-> log]
           t == IF manager.seen = "none" THEN s ELSE StateSeen(s)
<1>1. /\ manager.fetch = "error" /\ manager' = [t.m EXCEPT !.seen = "none"] /\ log' = t.log
      /\ UNCHANGED <<ui, clean, since, history, online, budget>>
  BY DEF ErrorRead, Becomes, Now
<1>2. /\ s \in States /\ s.log = log
      /\ \A f \in {"prev", "seen", "seenClean", "wait", "interval", "pending", "trigger",
                   "age", "about"} : s.m[f] = manager[f]
      /\ s.m.fetch = "none"
  BY DEF NIInv, NTypeOK, Managers, States
<1> HIDE DEF s
<1>3. CASE manager.seen = "none" \/ ui = "test"
  <2>1. PICK i \in {Active, Idle} : t.m = [s.m EXCEPT !.interval = i] /\ t.log = s.log
    BY <1>2, <1>3 DEF StateSeen, States, Managers
  <2> HIDE DEF t
  <2>2. manager' = [s.m EXCEPT !.interval = i, !.seen = "none"] /\ log' = log
    BY <1>1, <1>2, <2>1 DEF States, Managers
  <2>3. manager' \in Managers /\ log' \in Logs
    BY <1>2, <2>2 DEF States, Managers
  <2>4. ReadOver
    BY <1>1, <1>2, <2>2, <2>3 DEF ReadOver, States, Managers
  <2>5. SameDone /\ manager'.prev = manager.prev
    BY <1>2, <2>2 DEF SameDone, States, Managers
  <2>6. QED
    BY <2>2, <2>4, <2>5 DEF Ignored
<1>4. CASE manager.seen # "none" /\ ui # "test"
  <2> DEFINE w == IF s.m.prev = "unknown" THEN s ELSE Transition(s, manager.seen)
  <2>1. PICK i \in {Active, Idle} :
           t = [w EXCEPT !.m.interval = i, !.m.prev = manager.seen]
    BY <1>2, <1>4 DEF StateSeen
  <2>2. manager.seen \in Ui /\ history.id \in Nat
        /\ (manager.seen # "idle" => manager.seenClean \in Clean)
    <3>1. Numbers /\ manager.seenClean <= clean
      BY Typed DEF NIInv, ReadsInOrder
    <3>2. manager.seen # "idle" => manager.seenClean > 0
      BY <1>1, <1>4 DEF NIInv, AnswerIsRecent
    <3>3. QED
      BY <1>4, <3>1, <3>2, Bounds DEF NIInv, NTypeOK, Managers, Numbers, Clean
  <2>3. CASE manager.prev = "unknown"
    <3>1. w = s
      BY <1>2, <2>3
    <3> HIDE DEF t, w
    <3>2. t.m = [s.m EXCEPT !.interval = i, !.prev = manager.seen] /\ t.log = s.log
      BY <1>2, <2>1, <3>1 DEF States
    <3>3. manager' = [s.m EXCEPT !.interval = i, !.prev = manager.seen, !.seen = "none"]
          /\ log' = log
      BY <1>1, <1>2, <3>2 DEF States, Managers
    <3>4. manager' \in Managers /\ log' \in Logs
      BY <1>2, <2>2, <3>3 DEF States, Managers
    <3>5. ReadOver
      BY <1>1, <1>2, <3>3, <3>4 DEF ReadOver, States, Managers
    <3>6. SameDone /\ manager'.prev = manager.seen
      BY <1>2, <3>3 DEF SameDone, States, Managers
    <3>7. QED
      BY <1>4, <3>3, <3>5, <3>6 DEF First
  <2>4. CASE manager.prev # "unknown"
    <3>1. w = Transition(s, manager.seen)
      BY <1>2, <2>4
    <3>2. /\ w \in States
          /\ \A f \in {"prev", "fetch", "seen", "seenClean", "wait", "interval"} :
                w.m[f] = s.m[f]
          /\ w.log.done = s.log.done /\ w.log.stats = s.log.stats
          /\ w.log.started = IF Begins(s, manager.seen)
                             THEN [s.log.started EXCEPT ![s.m.seenClean] = Up(@)]
                             ELSE s.log.started
          /\ IF Finishes(s, manager.seen)
             THEN w.m.pending /\ w.m.trigger = history.id /\ w.m.age = 0
                  /\ w.m.about = s.m.seenClean
             ELSE \A f \in {"pending", "trigger", "age", "about"} : w.m[f] = s.m[f]
      BY <1>2, <2>2, <3>1, TransitionResult
    <3>3. Finishes(s, manager.seen)
            => manager.seen = "idle" /\ InCleaning(manager.prev) /\ ~manager.pending
      BY <1>2 DEF Finishes, Completes, Entered, States, Managers
    <3>4. Begins(s, manager.seen) <=> manager.seen = "running" /\ ~InCleaning(manager.prev)
      BY <1>2 DEF Begins
    <3> HIDE DEF t, w
    <3>5. t.m = [w.m EXCEPT !.interval = i, !.prev = manager.seen] /\ t.log = w.log
      BY <2>1, <3>2 DEF States
    <3>6. ReadOver /\ manager'.prev = manager.seen
      BY <1>1, <1>2, <2>2, <3>2, <3>5 DEF ReadOver, States, Managers
    <3>7. \A f \in {"pending", "trigger", "age", "about"} : manager'[f] = w.m[f]
      BY <1>1, <3>2, <3>5 DEF States, Managers
    <3>8. Judged
      BY <1>1, <1>2, <3>2, <3>3, <3>4, <3>5, <3>6, <3>7 DEF Judged, SameDone
    <3>9. QED
      BY <1>4, <3>8
  <2>5. QED
    BY <2>3, <2>4
<1>5. QED
  BY <1>3, <1>4

LEMMA ErrorReadInv == NIInv /\ ErrorRead => NIInv'
<1> SUFFICES ASSUME NIInv, ErrorRead
             PROVE  NIInv'
  OBVIOUS
<1> USE Bounds DEF NIInv
<1>1. Numbers /\ manager.fetch = "error" /\ manager.wait = 0
  BY Typed DEF ErrorRead, ReadsInOrder
<1>2. /\ ReadOver /\ NTypeOK'
      /\ \/ Ignored
         \/ manager.seen # "none" /\ ui # "test" /\ (First \/ Judged)
  BY ErrorReadCases DEF Ignored, First, Judged, ReadOver, NTypeOK
<1>3. manager'.interval \in Nat
  BY <1>2, Typed DEF NTypeOK, Managers
<1>4. AnswerIsRecent'
  BY <1>2 DEF AnswerIsRecent, ReadOver
<1>5. HistoryKeepsUp'
  BY <1>2 DEF HistoryKeepsUp, ReadOver
<1>6. StatsAreOfThatClean'
  BY <1>2 DEF StatsAreOfThatClean, Ignored, First, Judged, SameDone
<1>7. CASE Ignored
  <2>1. ReadsInOrder'
    BY <1>1, <1>2, <1>3, <1>7 DEF ReadsInOrder, ReadOver, Ignored
  <2>2. (LateError \/ StartedOnce') /\ DoneOnce'
    BY <1>2, <1>7 DEF StartedOnce, DoneOnce, ReadOver, Ignored, SameDone
  <2>3. StatsWillFit'
    BY <1>2, <1>7 DEF StatsWillFit, StillWaiting, ReadOver, Ignored, SameDone
  <2>4. QED
    BY <1>2, <1>4, <1>5, <1>6, <2>1, <2>2, <2>3
<1>8. CASE manager.seen # "none" /\ ui # "test" /\ (First \/ Judged)
  <2>1. manager'.prev = manager.seen
    BY <1>8 DEF First, Judged
  <2>2. /\ clean <= manager.seenClean + 1
        /\ clean = manager.seenClean + 1 => ui # "idle" /\ since = 0
        /\ manager.seen = "idle" /\ clean = manager.seenClean => ui = "idle"
        /\ manager.seen = "test" => LateError
        /\ manager.seen # "idle" => manager.seenClean > 0
        /\ manager.seenClean <= clean
        /\ manager.seen \in Ui
    BY <1>1, <1>8 DEF AnswerIsRecent, ReadsInOrder, NTypeOK, Managers
  <2>3. ReadsInOrder'
    BY <1>1, <1>2, <1>3, <2>1, <2>2 DEF ReadsInOrder, ReadOver
  <2>4. LateError \/ StartedOnce'
    <3>1. SUFFICES ASSUME ~LateError
                   PROVE  StartedOnce'
      OBVIOUS
    <3>2. ASSUME NEW c \in Clean
          PROVE  log'.started[c] <= 1 /\ (c > manager.seenClean => log'.started[c] = 0)
      <4>1. log.started \in [Clean -> Nat]
            /\ log.started[c] <= 1 /\ (c > manager.seenClean => log.started[c] = 0)
        BY <3>1, <3>2 DEF StartedOnce, NTypeOK, Logs
      <4>2. CASE manager.seen = "running" /\ ~InCleaning(manager.prev) /\ c = manager.seenClean
        <5>1. log.started[c] = 0
          BY <1>1, <3>1, <4>1, <4>2 DEF StartedOnce
        <5>2. log'.started[c] \in {0, 1}
          BY <1>8, <4>1, <4>2, <5>1 DEF First, Judged, Up
        <5>3. QED
          BY <1>1, <4>2, <5>2 DEF Numbers
      <4>3. CASE ~(manager.seen = "running" /\ ~InCleaning(manager.prev)
                   /\ c = manager.seenClean)
        BY <1>8, <4>1, <4>3 DEF First, Judged
      <4>4. QED
        BY <4>2, <4>3
    <3>3. ASSUME ui # "idle", log'.started[clean] > 0
          PROVE  InCleaning(manager.seen)
      <4>1. clean \in Clean
        BY <1>1, <3>3 DEF ReadsInOrder, Numbers, Clean
      <4>2. manager.seen # "idle"
        BY <1>1, <2>2, <3>2, <3>3, <4>1 DEF Numbers
      <4>3. QED
        BY <1>8, <2>2, <3>1, <4>2 DEF Ui
    <3>4. QED
      BY <1>2, <2>1, <3>2, <3>3 DEF StartedOnce, ReadOver
  <2>5. DoneOnce'
    <3>1. /\ log'.done = log.done /\ manager'.seenClean = manager.seenClean
          /\ UNCHANGED <<clean, ui>> /\ manager'.fetch = "none"
      BY <1>2, <1>8 DEF ReadOver, First, Judged, SameDone
    <3>2. CASE SameDone
      BY <2>1, <3>1, <3>2, <1>1, <1>8 DEF DoneOnce, SameDone
    <3>3. CASE ~SameDone
      <4>1. /\ manager.seen = "idle" /\ InCleaning(manager.prev)
            /\ manager'.pending /\ manager'.about = manager.seenClean
        BY <1>8, <3>3 DEF First, Judged
      <4>2. manager.seenClean > 0 /\ manager.seenClean \in Clean
        BY <1>1, <2>2, <4>1 DEF ReadsInOrder, Numbers, Clean
      <4>3. log.done \in [Clean -> Nat] /\ log.done[manager.seenClean] = 0
        <5>1. ~EndHeard(manager.seenClean)
          BY <4>1, <4>2 DEF DoneOnce
        <5>2. QED
          BY <4>2, <5>1 DEF NTypeOK, Logs
      <4>4. QED
        BY <1>1, <2>1, <2>2, <3>1, <4>1, <4>2, <4>3 DEF DoneOnce, Numbers
    <3>4. QED
      BY <3>2, <3>3
  <2>6. StatsWillFit'
    <3>1. CASE SameDone
      BY <1>2, <3>1 DEF StatsWillFit, StillWaiting, ReadOver, SameDone
    <3>2. CASE ~SameDone
      BY <1>1, <1>2, <1>8, <2>2, <3>2
         DEF StatsWillFit, StillWaiting, ReadOver, First, Judged, Numbers
    <3>3. QED
      BY <3>1, <3>2
  <2>7. QED
    BY <1>2, <1>4, <1>5, <1>6, <2>3, <2>4, <2>5, <2>6
<1>9. QED
  BY <1>2, <1>7, <1>8

-----------------------------------------------------------------------------
(* The theorems.                                                           *)

LEMMA NextInv == NIInv /\ [Next]_vars => NIInv'
<1> SUFFICES ASSUME NIInv, [Next]_vars
             PROVE  NIInv'
  OBVIOUS
<1>1. NTypeOK
  BY DEF NIInv
<1>2. CASE Manager
  BY <1>2, TickInv, StateReadInv, StateFailsInv, ErrorReadInv DEF Manager
<1>3. CASE History
  BY <1>3, HistoryInv
<1>4. CASE Robot
  BY <1>1, <1>4, RoamingActions, RoamsInv, StartsInv, EndsInv DEF Robot
<1>5. CASE Time
  BY <1>5, TimeInv
<1>6. CASE UNCHANGED vars
  BY <1>1, <1>6, RoamingActions, RoamsInv
<1>7. QED
  BY <1>2, <1>3, <1>4, <1>5, <1>6 DEF Next

LEMMA Invariance == Spec => []NIInv
BY InitInv, NextInv, PTL DEF Spec

(* The statistics a message names are those of the clean it is about, for  *)
(* any number of cleans and any wait for them that is shorter than a clean *)
(* (flushPendingDone(), notification_manager.cpp).                         *)
THEOREM StatsFit == Spec => []StatsAreOfThatClean
<1>1. NIInv => StatsAreOfThatClean
  BY DEF NIInv
<1>2. QED
  BY Invariance, <1>1, PTL

ToldDoneOnce == \A c \in Clean : log.done[c] <= 1

(* No clean is told of as done twice, whether or not a manoeuvre ends      *)
(* between two answers (checkTransitions(), notification_manager.cpp).     *)
THEOREM DoneIsToldOnce == Spec => []ToldDoneOnce
<1>1. NIInv => ToldDoneOnce
  BY DEF NIInv, DoneOnce, ToldDoneOnce
<1>2. QED
  BY Invariance, <1>1, PTL

(* If no manoeuvre ends between the state's answer and the error's, no     *)
(* clean is told of as started twice either.                               *)
THEOREM NothingIsToldTwice ==
    ASSUME ~LateError
    PROVE  Spec => []ToldOnce
<1>1. NIInv => ToldOnce
  BY DEF NIInv, StartedOnce, DoneOnce, ToldOnce
<1>2. QED
  BY Invariance, <1>1, PTL
=============================================================================
