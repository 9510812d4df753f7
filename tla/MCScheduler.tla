---------------------------- MODULE MCScheduler ----------------------------
(***************************************************************************)
(* Instances of Scheduler for TLC.  A tick is 30 s, as in the code: 20 of  *)
(* them are the lead of ten minutes, 2 the minute in which a restart ahead *)
(* is due, 12 the window of five minutes and the minute it ends in, 4 the  *)
(* two minutes of grace and of RESTART_BOOT_TIMEOUT_MS.                    *)
(***************************************************************************)
EXTENDS Scheduler

OneSlot == <<22>>

\* The window of the first is over in the tick in which the restart ahead of
\* the second is due: SchedulerProofs!Apart holds, and with 53 it would not.
TwoSlots == <<22, 54>>

\* So soon after the bridge's start that there is no restart ahead of it.
SoonSlot == <<4>>

\* Closer together than the run has them: 4, 12 and 2 minutes.
Slots4Apart == <<22, 30>>
Slots12Apart == <<22, 46>>
Slots2Apart == <<22, 26>>
=============================================================================
