----------------------------- MODULE Scheduler -----------------------------
(***************************************************************************)
(* The cleaning schedule (firmware/src/scheduler.cpp) over one day: slots, *)
(* the skip request, the restart ten minutes ahead, the restart at clean   *)
(* time, the maintenance restart; with the deferred reboot of the bridge   *)
(* (SystemManager) and the memory each kind of reboot keeps.               *)
(*                                                                         *)
(* Time is counted in ticks of SCHEDULE_CHECK_INTERVAL_MS.  A slot is      *)
(* named by its index; firedSlots holds whether its time is the one fired, *)
(* so that editing the schedule is left out.  State reads join the fetch   *)
(* in flight (AsyncCache) and are answered together, in order.             *)
(***************************************************************************)
EXTENDS Integers, Sequences

CONSTANTS
    At,                     \* the tick of each slot that is on, <<t1, t2>> or fewer
    AutoRestartAt,          \* the tick of the maintenance restart, or End
    RestartBeforeClean,     \* the setting restartBeforeClean
    Lead, LeadWindow,       \* restart ahead: when, and for how long it is due
    Window,                 \* SCHEDULE_WINDOW_MINS, in ticks
    Grace,                  \* uptime before a restart ahead
    BootTimeout,            \* RESTART_BOOT_TIMEOUT_MS, in ticks
    End,                    \* bound on time
    CutsPower,              \* does the robot's restart cut the bridge's power?
    MaxSlow,                \* bound on ticks that find something unanswered
    MaxFaults,              \* bound on reads and commands that fail
    None                    \* no slot

Slot == DOMAIN At

ASSUME AtAssumption == At \in Seq(Nat) /\ None \notin Slot
ASSUME TimesAssumption ==
    /\ AutoRestartAt \in Nat /\ Lead \in Nat /\ LeadWindow \in Nat /\ Window \in Nat
    /\ Grace \in Nat /\ BootTimeout \in Nat /\ End \in Nat
    /\ MaxSlow \in Nat /\ MaxFaults \in Nat
ASSUME SwitchAssumption == RestartBeforeClean \in BOOLEAN /\ CutsPower \in BOOLEAN

VARIABLES
    now,        \* the time, in ticks
    ram,        \* the Scheduler object
    prepared,   \* RTC memory: the slot preparedCleanAt stands for, or None
    skip,       \* NVS: NVS_KEY_SKIP_NEXT_CLEAN
    uptime,     \* ticks since the bridge booted, up to Grace
    rebootPending,  \* SystemManager: a reboot has been scheduled
    reads,      \* the callbacks that wait for the robot's state
    charger,    \* the slot whose restart waits for the charger, or None
    orders,     \* commands queued for the robot
    robot,      \* robot: "idle", "cleaning", "booting"
    docked,     \* robot: on external power
    faults,     \* reads and commands that failed so far
    slow,       \* ticks that found something unanswered
    log         \* history: see Init

vars == <<now, ram, prepared, skip, uptime, rebootPending, reads, charger, orders, robot,
          docked, faults, slow, log>>
bridge == <<ram, prepared, skip, uptime, rebootPending, reads, charger, orders, log>>

Read == [for: {"ahead", "slot", "boot", "auto"}, slot: Slot \cup {None}, first: BOOLEAN]
Order == [cmd: {"restart", "clean"}, for: {"ahead", "slot", "boot", "auto"}, slot: Slot \cup {None}]

TypeOK ==
    /\ now \in 0 .. End
    /\ ram \in [fired: SUBSET Slot, firedAuto: BOOLEAN, pending: Slot \cup {None},
                issuedAt: 0 .. End, aheadPending: BOOLEAN]
    /\ prepared \in Slot \cup {None}
    /\ skip \in BOOLEAN /\ rebootPending \in BOOLEAN /\ docked \in BOOLEAN
    /\ uptime \in 0 .. Grace
    /\ reads \in Seq(Read)
    /\ charger \in Slot \cup {None}
    /\ orders \in Seq(Order)
    /\ robot \in {"idle", "cleaning", "booting"}
    /\ faults \in 0 .. MaxFaults /\ slow \in 0 .. MaxSlow
    /\ log \in [cleaned: [Slot -> 0 .. 2], restarted: [Slot -> 0 .. 2],
                skipped: SUBSET Slot, excused: SUBSET Slot, wild: BOOLEAN]

Fresh == [fired |-> {}, firedAuto |-> FALSE, pending |-> None, issuedAt |-> 0,
          aheadPending |-> FALSE]

Init ==
    /\ now = 0
    /\ ram = Fresh
    /\ prepared = None
    /\ skip = FALSE
    /\ uptime = Grace
    /\ rebootPending = FALSE
    /\ reads = <<>>
    /\ charger = None
    /\ orders = <<>>
    /\ robot = "idle"
    /\ docked \in BOOLEAN
    /\ faults = 0 /\ slow = 0
    /\ log = [cleaned |-> [s \in Slot |-> 0],       \* cleans sent for a slot
              restarted |-> [s \in Slot |-> 0],     \* restarts of the robot for it
              skipped |-> {},                       \* slots skipped at the user's request
              excused |-> {},                       \* slots that had a reason not to clean
              wild |-> FALSE]                       \* a clean was triggered for slot -1

-----------------------------------------------------------------------------
(* What a handler does is a function of s.                                 *)

Now == [ram |-> ram, prepared |-> prepared, skip |-> skip, uptime |-> uptime,
        rebootPending |-> rebootPending, reads |-> reads, charger |-> charger,
        orders |-> orders, log |-> log]

Becomes(s) ==
    /\ ram' = s.ram /\ prepared' = s.prepared /\ skip' = s.skip /\ uptime' = s.uptime
    /\ rebootPending' = s.rebootPending /\ reads' = s.reads /\ charger' = s.charger
    /\ orders' = s.orders /\ log' = s.log

Up(n) == IF n = 2 THEN 2 ELSE n + 1

\* Slots a fault, a busy robot or a late boot takes away.
Excuse(s, slots) == [s EXCEPT !.log.excused = @ \cup slots]

Ask(s, for, slot, first) ==
    [s EXCEPT !.reads = Append(@, [for |-> for, slot |-> slot, first |-> first])]

Command(s, cmd, for, slot) ==
    [s EXCEPT !.orders = Append(@, [cmd |-> cmd, for |-> for, slot |-> slot])]

\* The slot's day and index are not checked: for -1 and -1, garbage is what
\* the memory before the schedule says of that slot.
TriggerClean(s, for, slot, garbage) ==
    CASE slot # None -> [Command(s, "clean", for, slot) EXCEPT !.log.cleaned[slot] = Up(@)]
      [] slot = None /\ garbage -> [Command(s, "clean", for, None) EXCEPT !.log.wild = TRUE]
      [] slot = None /\ ~garbage -> [s EXCEPT !.log.wild = TRUE]

ClearPendingClean(s) == [s EXCEPT !.ram.pending = None, !.ram.issuedAt = 0]

-----------------------------------------------------------------------------
(* tick()                                                                  *)

HandlePendingClean_NotAsked(s, t) ==   \* mutant: pendingCleanAfterRestart is not tested
    IF t > s.ram.issuedAt + BootTimeout
    THEN ClearPendingClean(Excuse(s, {s.ram.pending}))
    ELSE Ask(s, "boot", None, FALSE)

HandlePendingClean(s, t) ==
    IF s.ram.pending = None THEN s
    ELSE IF t > s.ram.issuedAt + BootTimeout
    THEN ClearPendingClean(Excuse(s, {s.ram.pending}))
    ELSE Ask(s, "boot", None, FALSE)

\* preCleanRestartDue()
AheadDue(s, t, slot) ==
    /\ s.uptime >= Grace
    /\ s.prepared # slot
    /\ t + Lead >= At[slot] /\ t + Lead < At[slot] + LeadWindow

AheadSlots(s, t) ==
    IF \/ ~RestartBeforeClean
       \/ s.ram.pending # None \/ s.ram.aheadPending \/ s.rebootPending \/ s.skip
    THEN {}
    ELSE {slot \in Slot : AheadDue(s, t, slot)}

\* isActionDue() for a slot not yet fired.
Due(s, t, slot) == slot \notin s.ram.fired /\ t >= At[slot] /\ t < At[slot] + Window

First(slots) == CHOOSE slot \in slots : \A other \in slots : slot <= other

HandleScheduledCleaning_SkipStays(s, slot) ==   \* mutant: the skip does not fire the slot
    IF s.skip
    THEN [s EXCEPT !.skip = FALSE, !.log.skipped = @ \cup {slot}]
    ELSE Ask([s EXCEPT !.ram.fired = @ \cup {slot}], "slot", slot,
             RestartBeforeClean /\ s.prepared # slot)

HandleScheduledCleaning(s, slot) ==
    IF s.skip
    THEN [s EXCEPT !.skip = FALSE, !.ram.fired = @ \cup {slot}, !.log.skipped = @ \cup {slot}]
    ELSE Ask([s EXCEPT !.ram.fired = @ \cup {slot}], "slot", slot,
             RestartBeforeClean /\ s.prepared # slot)

AutoRestartDue(s, t) ==
    ~s.ram.firedAuto /\ t >= AutoRestartAt /\ t < AutoRestartAt + Window

Ticked(s0, t) ==
    LET s == HandlePendingClean(s0, t)
        ahead == AheadSlots(s, t)
        due == {slot \in Slot : Due(s, t, slot)}
    IN  IF ahead # {} THEN Ask([s EXCEPT !.ram.aheadPending = TRUE], "ahead", First(ahead), FALSE)
        ELSE IF due # {} THEN HandleScheduledCleaning(s, First(due))
        ELSE IF AutoRestartDue(s, t) THEN Ask(s, "auto", None, FALSE)
        ELSE s

Answered == reads = <<>> /\ charger = None /\ orders = <<>> /\ ~rebootPending

Tick ==
    /\ now < End
    /\ IF Answered THEN UNCHANGED slow ELSE slow < MaxSlow /\ slow' = slow + 1
    /\ now' = now + 1
    /\ Becomes(Ticked([Now EXCEPT !.uptime = IF @ < Grace THEN @ + 1 ELSE @], now + 1))
    /\ UNCHANGED <<robot, docked, faults>>

-----------------------------------------------------------------------------
(* Answers.                                                                *)

SlotRead_KeepsClaim(s, r, ok, idle) ==   \* mutant: a failed read leaves the slot fired
    CASE ~ok -> s
      [] ok /\ ~idle -> [Excuse(s, {r.slot}) EXCEPT !.ram.fired = @ \cup {r.slot}]
      [] ok /\ idle /\ r.first -> Command(s, "restart", "slot", r.slot)
      [] ok /\ idle /\ ~r.first -> TriggerClean(s, "slot", r.slot, FALSE)

SlotRead(s, r, ok, idle) ==
    CASE ~ok -> [s EXCEPT !.ram.fired = @ \ {r.slot}]
      [] ok /\ ~idle -> [Excuse(s, {r.slot}) EXCEPT !.ram.fired = @ \cup {r.slot}]
      [] ok /\ idle /\ r.first -> Command(s, "restart", "slot", r.slot)
      [] ok /\ idle /\ ~r.first -> TriggerClean(s, "slot", r.slot, FALSE)

\* handlePendingCleanAfterRestart's lambda reads the members, not the tick's.
BootRead_NoClear(s, ok, idle, garbage) ==   \* mutant: the pending clean is not cleared
    IF ok /\ idle THEN TriggerClean(s, "boot", s.ram.pending, garbage) ELSE s

BootRead(s, ok, idle, garbage) ==
    IF ok /\ idle THEN ClearPendingClean(TriggerClean(s, "boot", s.ram.pending, garbage)) ELSE s

AutoRead(s, ok, idle) ==
    CASE ~ok -> s
      [] ok /\ ~idle -> [s EXCEPT !.ram.firedAuto = TRUE]
      [] ok /\ idle -> [Command(s, "restart", "auto", None) EXCEPT !.ram.firedAuto = TRUE]

AheadRead_Prepares(s, r, ok, idle) ==   \* mutant: prepared before the restart is accepted
    IF ok /\ idle THEN [s EXCEPT !.charger = r.slot, !.prepared = r.slot]
    ELSE [s EXCEPT !.ram.aheadPending = FALSE]

AheadRead(s, r, ok, idle) ==
    IF ok /\ idle THEN [s EXCEPT !.charger = r.slot] ELSE [s EXCEPT !.ram.aheadPending = FALSE]

Seen(s, r, ok, idle, garbage) ==
    CASE r.for = "slot" -> SlotRead(s, r, ok, idle)
      [] r.for = "boot" -> BootRead(s, ok, idle, garbage)
      [] r.for = "auto" -> AutoRead(s, ok, idle)
      [] r.for = "ahead" -> AheadRead(s, r, ok, idle)

\* One answer is handed to all who asked, in the order they did.
AllSeen(s, waiting, ok, idle, garbage) ==
    LET seen[i \in 0 .. Len(waiting)] ==
            IF i = 0 THEN s ELSE Seen(seen[i - 1], waiting[i], ok, idle, garbage)
    IN  seen[Len(waiting)]

Fault == faults < MaxFaults /\ faults' = faults + 1

\* The state arrives, for all who asked; a robot that boots does not answer.
StateRead(ok, garbage) ==
    /\ reads # <<>>
    /\ ok => robot # "booting"
    /\ IF ok \/ robot = "booting" THEN UNCHANGED faults ELSE Fault
    /\ LET late == {reads[i].slot : i \in DOMAIN reads} \ {None}
           s == [Now EXCEPT !.reads = <<>>]
       IN  Becomes(AllSeen(IF robot = "booting" THEN Excuse(s, late) ELSE s, reads,
                           ok, robot = "idle", garbage))
    /\ UNCHANGED <<now, robot, docked, slow>>

ChargerRead(ok) ==
    /\ charger # None
    /\ ok => robot # "booting"
    /\ IF ok \/ robot = "booting" THEN UNCHANGED faults ELSE Fault
    /\ Becomes(IF ok /\ docked
               THEN Command([Now EXCEPT !.charger = None], "restart", "ahead", charger)
               ELSE [Now EXCEPT !.charger = None, !.ram.aheadPending = FALSE])
    /\ UNCHANGED <<now, robot, docked, slow>>

Reboot_ForgetsPrepared(s, cold) ==   \* mutant: preparedCleanAt in ordinary memory
    [s EXCEPT !.ram = Fresh, !.uptime = 0, !.rebootPending = FALSE, !.reads = <<>>,
              !.charger = None, !.orders = <<>>, !.prepared = None]

\* The bridge reboots: RAM is lost, NVS is kept, RTC memory through a soft
\* reboot only.
Reboot(s, cold) ==
    [s EXCEPT !.ram = Fresh, !.uptime = 0, !.rebootPending = FALSE, !.reads = <<>>,
              !.charger = None, !.orders = <<>>, !.prepared = IF cold THEN None ELSE @]

\* The robot has accepted the restart.
Restarted(s, o) ==
    LET r == IF o.slot = None THEN s ELSE [s EXCEPT !.log.restarted[o.slot] = Up(@)]
    IN  CASE o.for = "slot" -> [r EXCEPT !.ram.pending = o.slot, !.ram.issuedAt = now]
          [] o.for = "ahead" -> [r EXCEPT !.ram.aheadPending = FALSE, !.prepared = o.slot,
                                          !.rebootPending = TRUE]
          [] o.for = "auto" -> r

RestartDone ==
    /\ orders # <<>>
    /\ Head(orders).cmd = "restart"
    /\ robot # "booting"
    /\ LET s == Restarted([Now EXCEPT !.orders = Tail(@)], Head(orders))
       IN  Becomes(IF CutsPower THEN Reboot(s, TRUE) ELSE s)
    /\ robot' = "booting"
    /\ UNCHANGED <<now, docked, faults, slow>>

CleanDone ==
    /\ orders # <<>>
    /\ Head(orders).cmd = "clean"
    /\ robot # "booting"
    /\ Becomes([Now EXCEPT !.orders = Tail(@)])
    /\ robot' = "cleaning"
    /\ UNCHANGED <<now, docked, faults, slow>>

\* A command that fails is not tried again.
CommandFails ==
    /\ orders # <<>>
    /\ IF robot = "booting" THEN UNCHANGED faults ELSE Fault
    /\ LET o == Head(orders)
           s == Excuse([Now EXCEPT !.orders = Tail(@)], {o.slot} \ {None})
       IN  Becomes(IF o.for = "ahead" THEN [s EXCEPT !.ram.aheadPending = FALSE] ELSE s)
    /\ UNCHANGED <<now, robot, docked, slow>>

\* SystemManager::checkPendingReboot()
SoftReboot ==
    /\ rebootPending
    /\ Becomes(Reboot(Now, FALSE))
    /\ UNCHANGED <<now, robot, docked, faults, slow>>

-----------------------------------------------------------------------------
(* The user and the robot.                                                 *)

RequestSkip ==
    /\ ~skip
    /\ skip' = TRUE
    /\ UNCHANGED <<now, ram, prepared, uptime, rebootPending, reads, charger, orders, robot,
                   docked, faults, slow, log>>

CancelSkip ==
    /\ skip
    /\ skip' = FALSE
    /\ UNCHANGED <<now, ram, prepared, uptime, rebootPending, reads, charger, orders, robot,
                   docked, faults, slow, log>>

RobotBoots ==
    /\ robot = "booting"
    /\ robot' = "idle"
    /\ UNCHANGED <<now, bridge, docked, faults, slow>>

\* Longer than the window: a clean outlasts the slot it was started for.
RobotFinishes ==
    /\ robot = "cleaning"
    /\ \A slot \in Slot : log.cleaned[slot] > 0 => now >= At[slot] + Window + BootTimeout
    /\ robot' = "idle"
    /\ UNCHANGED <<now, bridge, docked, faults, slow>>

Next ==
    \/ Tick
    \/ \E ok, garbage \in BOOLEAN : StateRead(ok, garbage)
    \/ \E ok \in BOOLEAN : ChargerRead(ok)
    \/ RestartDone \/ CleanDone \/ CommandFails \/ SoftReboot
    \/ RequestSkip \/ CancelSkip
    \/ RobotBoots \/ RobotFinishes

Spec == Init /\ [][Next]_vars

-----------------------------------------------------------------------------
(* Properties.                                                             *)

(* A slot is sent at most one clean, though reads and commands fail, answers*)
(* come late and several at a time, and robot and bridge are restarted ahead*)
(* of it.  `fired' and `pending' are in memory only, so this is no more than*)
(* that: a reboot of the bridge within an open window, by a restart that    *)
(* cuts its power or by the restart ahead of a slot 10 to 15 minutes later, *)
(* fires the slot again (RestartedOnce; MCScheduler, Slots12Apart).  Nor are*)
(* cleans for no slot counted, which the second of two boot reads answered  *)
(* together may trigger (NoWildClean).                                      *)
CleanedOnce == \A slot \in Slot : log.cleaned[slot] <= 1

(* No clean is sent for a slot once it has been skipped at the user's       *)
(* request, though its window goes on.  `fired' is in memory only: a reboot *)
(* within the window, such as the restart ahead of a slot 10 to 15 minutes  *)
(* later makes, fires the slot again and cleans (MCScheduler, Slots12Apart).*)
SkippedIsNotCleaned ==
    [][\A slot \in log.skipped : log'.cleaned[slot] = log.cleaned[slot]]_vars

(* With restartBeforeClean a clean goes only to a robot restarted for it.   *)
RestartsBeforeClean ==
    RestartBeforeClean => \A slot \in Slot : log.cleaned[slot] > 0 => log.restarted[slot] > 0

Alone(slot) ==
    \A other \in Slot \ {slot} : At[other] \notin At[slot] - Window .. At[slot] + Window

(* A slot whose window overlaps no other's is not lost: by its end and that *)
(* of the robot's time to boot it has been cleaned or skipped, or there was *)
(* a reason.  Of two that overlap, one clean may serve both: the member     *)
(* pendingCleanSlot holds only the last.                                    *)
SlotNotLost ==
    \A slot \in Slot : Alone(slot) /\ now > At[slot] + Window + BootTimeout /\ Answered
        => log.cleaned[slot] > 0 \/ slot \in log.skipped \cup log.excused

(* No clean is triggered for the slot that clearPendingCleanAfterRestart()  *)
(* leaves behind, day -1 and index -1.                                      *)
NoWildClean == ~log.wild

(* A slot restarts the robot once, even if that cuts the bridge's power: the*)
(* grace after a cold boot is asked for by the restart ahead only.          *)
RestartedOnce == \A slot \in Slot : log.restarted[slot] <= 1

(* The maintenance restart and the others find the robot idle.              *)
RestartsIdleRobot == [][robot' = "booting" /\ robot # "booting" => robot = "idle"]_vars
=============================================================================
