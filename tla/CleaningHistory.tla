-------------------------- MODULE CleaningHistory --------------------------
(***************************************************************************)
(* The recorder of cleaning sessions (firmware/src/cleaning_history.cpp):  *)
(* it notices that the robot cleans, buffers poses and flushes them to     *)
(* /history/<epoch>.jsonl, closes the session with a summary, compresses   *)
(* it to .jsonl.hs in steps and removes the raw file; after a boot it      *)
(* resumes or finalizes what a power cut left; and it serves, deletes and  *)
(* imports sessions for the web server.                                    *)
(*                                                                         *)
(* A file is named by its epoch and by "raw" or "hs"; epochs grow with     *)
(* every session.  A file is a sequence of lines, a pose is a number.      *)
(* The loop task and its callbacks run one after another; the web server's *)
(* task comes in between.  Answers of the robot arrive in any order that   *)
(* AsyncCache allows.                                                      *)
(***************************************************************************)
EXTENDS Naturals, Sequences, FiniteSets, SequencesExt

CONSTANTS
    MaxCleans,          \* bound on the cleans the robot runs
    MaxCharges,         \* bound on the recharges in the middle of a clean
    MaxPoses,           \* bound on the poses that are measured
    MaxCuts,            \* bound on power cuts
    MaxRequests,        \* bound on the requests of the web server's task
    MinSnapshots,       \* HISTORY_MIN_SNAPSHOTS
    MaxFiles,           \* HISTORY_MAX_FILES
    MotorWaits,         \* bound on the reads of the motors that wait
    Web,                \* the requests the web server gets
    SlowCharger,        \* may a tick find the charger's last answer still missing?
    DeleteBusy,         \* does a user delete the file that is recorded or compressed?
    DiskMayFill,        \* may a write during compression fall short?
    NoFile, None

ASSUME BoundsAssumption ==
    /\ MaxCleans \in Nat \ {0} /\ MaxCharges \in Nat /\ MaxPoses \in Nat
    /\ MaxCuts \in Nat /\ MaxRequests \in Nat
    /\ MinSnapshots \in Nat /\ MaxFiles \in Nat /\ MotorWaits \in Nat
ASSUME SwitchAssumption ==
    /\ Web \subseteq {"list", "delete", "deleteAll", "import"}
    /\ SlowCharger \in BOOLEAN /\ DeleteBusy \in BOOLEAN /\ DiskMayFill \in BOOLEAN

LastEpoch == 1 + MaxCleans + MaxCuts
Epoch == 1 .. LastEpoch
Backup == 1                 \* the epoch of the session a user imports
Name == Epoch \X {"raw", "hs"}
Pose(n) == <<"pose", n>>
Session == <<"session", 0>>
Recharge == <<"recharge", 0>>
Summary == <<"summary", 0>>
Line == {Session, Recharge, Summary} \cup {Pose(n) : n \in 1 .. MaxPoses}
Meta == [header: BOOLEAN, summary: BOOLEAN]     \* is the line there?
Compressed == [lines: Seq(Line), whole: BOOLEAN]

ASSUME NoneAssumption == None \notin Epoch
ASSUME NoFileAssumption == NoFile \notin Seq(Line) /\ NoFile \notin Compressed
Ui == {"idle", "cleaning", "paused", "docking", "returning", "suspended"}

VARIABLES
    ui,         \* the robot; "returning" and "suspended" are Charging_Cleaning
    cleans,     \* cleans the robot has started
    charges,    \* recharges it has interrupted them for
    poses,      \* poses that were measured
    cuts,       \* power cuts so far
    requests,   \* requests so far
    ram,        \* the CleaningHistory object, lost with the power
    raw, hs,    \* the files of /history
    log         \* history: see Init

vars == <<ui, cleans, charges, poses, cuts, requests, ram, raw, hs, log>>

Boot == [prev |-> "unknown", recovered |-> FALSE, fetch |-> "none",
         collecting |-> FALSE, recharging |-> FALSE, snaps |-> 0, active |-> None,
         open |-> FALSE, buf |-> <<>>, motors |-> <<>>, charger |-> <<>>, guard |-> FALSE,
         compressing |-> None, inputDone |-> FALSE, importing |-> FALSE,
         pending |-> [header |-> FALSE, summary |-> FALSE],
         meta |-> [n \in Name |-> None]]

HTypeOK ==
    /\ ui \in Ui
    /\ cleans \in 0 .. MaxCleans /\ charges \in 0 .. MaxCharges /\ poses \in 0 .. MaxPoses
    /\ cuts \in 0 .. MaxCuts /\ requests \in 0 .. MaxRequests
    /\ ram \in [prev: {"unknown", "cleaning", "other"}, recovered: BOOLEAN,
                fetch: {"none", "check", "state", "pos"},
                collecting: BOOLEAN, recharging: BOOLEAN, snaps: Nat,
                active: Epoch \cup {None}, open: BOOLEAN, buf: Seq(Line),
                motors: Seq(1 .. MaxPoses), charger: Seq({"header", "summary"}),
                guard: BOOLEAN, compressing: Epoch \cup {None}, inputDone: BOOLEAN,
                importing: BOOLEAN, pending: Meta, meta: [Name -> Meta \cup {None}]]
    /\ DOMAIN raw = Epoch /\ \A e \in Epoch : raw[e] = NoFile \/ raw[e] \in Seq(Line)
    /\ DOMAIN hs = Epoch
    /\ \A e \in Epoch : hs[e] = NoFile \/ hs[e] \in Compressed
    /\ log \in [saved: SUBSET (1 .. MaxPoses), dropped: SUBSET (1 .. MaxPoses),
                torn: SUBSET Epoch, unmerged: SUBSET (1 .. MaxPoses), next: Nat]

Init ==
    /\ ui \in {"idle", "cleaning"}
    /\ cleans = IF ui = "idle" THEN 0 ELSE 1
    /\ charges = 0 /\ poses = 0 /\ cuts = 0 /\ requests = 0
    /\ ram = Boot
    /\ raw = [e \in Epoch |-> NoFile]
    /\ hs = [e \in Epoch |-> NoFile]
    /\ log = [saved |-> {},         \* poses that have been in a file
              dropped |-> {},       \* poses deleted on purpose
              torn |-> {},          \* sessions whose compression the power cut
              unmerged |-> {},      \* poses lost with a merge the power cut
              next |-> Backup + 1]  \* the epoch of the next session

-----------------------------------------------------------------------------
(* What a handler does is a function of s.                                 *)

Now == [ram |-> ram, raw |-> raw, hs |-> hs, dropped |-> log.dropped, next |-> log.next]

PosesIn(f) == {n \in 1 .. MaxPoses : \E i \in DOMAIN f : f[i] = Pose(n)}
InRaw(s, e) == IF s.raw[e] = NoFile THEN {} ELSE PosesIn(s.raw[e])
InHs(s, e) == IF s.hs[e] = NoFile \/ ~s.hs[e].whole THEN {} ELSE PosesIn(s.hs[e].lines)
OnDisk(s) == UNION {InRaw(s, e) \cup InHs(s, e) : e \in Epoch}

(* A .hs file that was not finished, or whose raw file was not removed.    *)
Torn(s) == {e \in Epoch : s.hs[e] # NoFile /\ (~s.hs[e].whole \/ s.raw[e] # NoFile)}

Becomes(s) ==
    \E t \in {s} :
        /\ ram' = t.ram /\ raw' = t.raw /\ hs' = t.hs
        /\ log' = [log EXCEPT !.dropped = t.dropped, !.next = t.next,
                              !.saved = @ \cup OnDisk(t),
                              !.torn = @ \cap Torn(t)]

RemoveRaw(s, e) == [s EXCEPT !.raw[e] = NoFile, !.dropped = @ \cup InRaw(s, e)]
RemoveHs(s, e) == [s EXCEPT !.hs[e] = NoFile, !.dropped = @ \cup InHs(s, e)]
RemoveFile(s, n) == IF n[2] = "raw" THEN RemoveRaw(s, n[1]) ELSE RemoveHs(s, n[1])

Files(s) == {<<e, "raw">> : e \in {d \in Epoch : s.raw[d] # NoFile}}
            \cup {<<e, "hs">> : e \in {d \in Epoch : s.hs[d] # NoFile}}

IsCleaning(u) == u \in {"cleaning", "paused"}
IsDocking(u) == u \in {"docking", "returning"}
IsSuspended(u) == u = "suspended"
IsCharging(u) == u \in {"returning", "suspended"}

Kind_Any(u) == IF u # "idle" THEN "cleaning" ELSE "other"   \* mutant: docking counts as cleaning

(* What is kept of prevUiState: the code asks no more of it.               *)
Kind(u) == IF IsCleaning(u) THEN "cleaning" ELSE "other"

(* writeLine and flushWriteBuffer: what is written to a file that was      *)
(* removed under its handle is gone.                                       *)
Write(s, lines) ==
    IF s.ram.open /\ s.raw[s.ram.active] # NoFile
    THEN [s EXCEPT !.raw[s.ram.active] = @ \o lines]
    ELSE s

FlushWriteBuffer(s) ==
    [Write(s, s.ram.buf) EXCEPT !.ram.buf = IF s.ram.open THEN <<>> ELSE @]

ResetSession(s) == [s EXCEPT !.ram.snaps = 0, !.ram.recharging = FALSE,
                             !.ram.pending = [header |-> FALSE, summary |-> FALSE]]

WriteHeader(s) == [Write(s, <<Session>>) EXCEPT !.ram.pending.header = TRUE]
WriteSummary(s) == [Write(s, <<Summary>>) EXCEPT !.ram.pending.summary = TRUE]

(* Compression starts when both files open; the second is created even if  *)
(* the first is missing.                                                   *)
StartCompression(s, e) ==
    [s EXCEPT !.hs[e] = [lines |-> <<>>, whole |-> FALSE],
              !.ram.compressing = IF s.raw[e] = NoFile THEN @ ELSE e,
              !.ram.inputDone = IF s.raw[e] = NoFile THEN @ ELSE FALSE]

Finish(s) ==
    LET t == WriteSummary(s)
    IN  StartCompression([t EXCEPT !.ram.open = FALSE, !.ram.collecting = FALSE,
                                   !.ram.recharging = FALSE], s.ram.active)

(* The charger answers: the header of a session that starts, or the end of *)
(* one that stops.                                                         *)
WithBattery(s, for) == IF for = "header" THEN WriteHeader(s) ELSE Finish(s)

GetCharger(s, for, cached) ==
    IF cached THEN WithBattery(s, for) ELSE [s EXCEPT !.ram.charger = Append(@, for)]

StartCollection(s, cached) ==
    LET r == ResetSession(s)
        e == s.next
    IN  GetCharger([r EXCEPT !.ram.collecting = TRUE, !.ram.active = e, !.ram.open = TRUE,
                             !.ram.guard = TRUE, !.raw[e] = <<>>, !.next = e + 1],
                   "header", cached)

StopCollection_TooShort(s, cached) ==   \* mutant: a short session is left collecting
    LET t == FlushWriteBuffer([s EXCEPT !.ram.guard = FALSE])
    IN  IF t.ram.snaps < MinSnapshots
        THEN [RemoveRaw(t, t.ram.active) EXCEPT !.ram.open = FALSE]
        ELSE GetCharger(t, "summary", cached)

StopCollection_Hasty(s, cached) ==   \* mutant: closed before the charger is asked, too
    LET t == FlushWriteBuffer([s EXCEPT !.ram.guard = FALSE])
    IN  IF t.ram.snaps < MinSnapshots
        THEN [RemoveRaw(t, t.ram.active) EXCEPT
                !.ram.open = FALSE, !.ram.collecting = FALSE, !.ram.recharging = FALSE]
        ELSE GetCharger(WriteSummary(t), "summary", cached)

StopCollection(s, cached) ==
    LET t == FlushWriteBuffer([s EXCEPT !.ram.guard = FALSE])
    IN  IF t.ram.snaps < MinSnapshots
        THEN [RemoveRaw(t, t.ram.active) EXCEPT
                !.ram.open = FALSE, !.ram.collecting = FALSE, !.ram.recharging = FALSE]
        ELSE GetCharger(t, "summary", cached)

-----------------------------------------------------------------------------
(* Boot: what the files of an interrupted session become.                  *)

(* Files are scanned from the newest name to the oldest, and of one epoch  *)
(* ".jsonl.hs" sorts before ".jsonl": the scan ends at the first .hs.      *)
Scanned(s) == {e \in Epoch : /\ s.raw[e] # NoFile
                             /\ \A d \in Epoch : s.hs[d] # NoFile => d < e}
Stale(s) == {e \in Scanned(s) : s.hs[e] # NoFile}

(* readFirstLastLines(): a file of one line has no last line unless it is  *)
(* compressed.                                                             *)
LastLine(f, compressed) ==
    IF Len(f) >= (IF compressed THEN 1 ELSE 2) THEN f[Len(f)] ELSE <<>>
Content(s, n) == IF n[2] = "raw" THEN s.raw[n[1]] ELSE s.hs[n[1]].lines
MetaOf(s, n) ==
    LET f == Content(s, n)
    IN  [header |-> f # <<>> /\ f[1] = Session,
         summary |-> LastLine(f, n[2] = "hs") = Summary]

Orphans(s) == {e \in Scanned(s) \ Stale(s) : LastLine(s.raw[e], FALSE) # Summary}
Unstale(s) == [s EXCEPT !.raw = [e \in Epoch |-> IF e \in Stale(s) THEN NoFile ELSE @[e]]]

Count(f) == Cardinality({i \in DOMAIN f : f[i][1] = "pose"})

(* The lines of a file without its headers.                                *)
Body(f) ==
    LET body[i \in 0 .. Len(f)] ==
            IF i = 0 THEN <<>>
            ELSE IF f[i] = Session THEN body[i - 1] ELSE Append(body[i - 1], f[i])
    IN  body[Len(f)]

(* The oldest orphan takes in the lines of the newer ones, in their order. *)
Merged(s, orphans, target) ==
    LET merged[e \in target .. LastEpoch] ==
            IF e = target THEN s.raw[target]
            ELSE IF e \in orphans THEN merged[e - 1] \o Body(s.raw[e]) ELSE merged[e - 1]
    IN  merged[LastEpoch]

Oldest(orphans) == CHOOSE e \in orphans : \A d \in orphans : e <= d
Newest(orphans) == CHOOSE e \in orphans : \A d \in orphans : d <= e

RecoverCollection_Truncates(s) ==   \* mutant: the file is opened for writing, not appending
    LET target == Newest(Orphans(s))
    IN  [ResetSession(s) EXCEPT
            !.raw = [e \in Epoch |-> IF e = target THEN <<Session>> ELSE @[e]],
            !.ram.active = target, !.ram.open = TRUE, !.ram.collecting = TRUE,
            !.ram.guard = TRUE]

(* The merged session is recorded on.                                      *)
RecoverCollection(s) ==
    LET orphans == Orphans(s)
        target == Oldest(orphans)
        merged == Merged(s, orphans, target)
        t == [Unstale(s) EXCEPT
                !.raw = [e \in Epoch |-> IF e = target THEN merged
                                         ELSE IF e \in orphans THEN NoFile ELSE @[e]]]
        r == [ResetSession(t) EXCEPT
                !.ram.active = target, !.ram.open = TRUE, !.ram.collecting = TRUE,
                !.ram.guard = TRUE, !.ram.snaps = Count(merged)]
    IN  IF Session \in ToSet(merged) THEN r ELSE WriteHeader(r)

(* Every orphan gets its summary; the newest, which comes first, is        *)
(* compressed.                                                             *)
FinalizeOrphans(s) ==
    LET orphans == Orphans(s)
        t == [ResetSession(Unstale(s)) EXCEPT
                !.raw = [e \in Epoch |-> IF e \in orphans THEN Append(@[e], Summary) ELSE @[e]],
                !.ram.snaps = Count(s.raw[Oldest(orphans)]),
                !.ram.pending.summary = TRUE]
    IN  IF orphans = {} THEN Unstale(s) ELSE StartCompression(t, Newest(orphans))

(* enforceLimits(): the oldest file goes when there are too many; of one   *)
(* epoch the raw one.                                                      *)
Older(n, m) == n[1] < m[1] \/ (n[1] = m[1] /\ n[2] = "raw" /\ m[2] = "hs")
EnforceLimits(s) ==
    IF Cardinality(Files(s)) > MaxFiles
    THEN LET oldest == CHOOSE n \in Files(s) : \A m \in Files(s) \ {n} : Older(n, m)
         IN  [RemoveFile(s, oldest) EXCEPT !.ram.meta[oldest] = None]
    ELSE s

-----------------------------------------------------------------------------
(* The loop task.                                                          *)

(* compressStep() until the source is read, then the end of the encoder;   *)
(* writes are not checked.                                                 *)
CompressRead ==
    /\ ram.compressing # None /\ ~ram.inputDone
    /\ Becomes([Now EXCEPT !.ram.inputDone = TRUE])
    /\ UNCHANGED <<ui, cleans, charges, poses, cuts, requests>>

CompressEnd_NoFinish ==   \* mutant: the encoder's rest is not written
    /\ ram.compressing # None /\ ram.inputDone
    /\ LET e == ram.compressing
       IN  Becomes([Now EXCEPT !.raw[e] = NoFile, !.ram.compressing = None])
    /\ UNCHANGED <<ui, cleans, charges, poses, cuts, requests>>

CompressEnd ==
    /\ ram.compressing # None /\ ram.inputDone
    /\ LET e == ram.compressing
           src == IF raw[e] = NoFile THEN <<>> ELSE raw[e]
       IN  \E whole \in (IF DiskMayFill THEN BOOLEAN ELSE {TRUE}) :
             Becomes([Now EXCEPT
                !.hs[e] = [lines |-> IF whole THEN src ELSE <<>>, whole |-> whole],
                !.raw[e] = NoFile,
                !.ram.compressing = None,
                !.ram.meta[<<e, "hs">>] = ram.pending,
                !.ram.pending = [header |-> FALSE, summary |-> FALSE]])
    /\ UNCHANGED <<ui, cleans, charges, poses, cuts, requests>>

Ready == ram.compressing = None /\ ram.fetch = "none"

(* tick() when nothing is recorded.                                        *)
CheckState ==
    /\ Ready /\ ~ram.collecting
    /\ Becomes(EnforceLimits([Now EXCEPT !.ram.fetch = "check"]))
    /\ UNCHANGED <<ui, cleans, charges, poses, cuts, requests>>

(* tick() while a session is recorded: poses are flushed now and then.     *)
CollectSnapshot ==
    /\ Ready /\ ram.collecting
    /\ SlowCharger \/ "summary" \notin ToSet(ram.charger)
    /\ \E due \in {FALSE, ram.buf # <<>>} :
         LET s == IF due THEN FlushWriteBuffer(Now) ELSE Now
         IN  Becomes([s EXCEPT !.ram.fetch = "state"])
    /\ UNCHANGED <<ui, cleans, charges, poses, cuts, requests>>

(* The state read for checkState().                                        *)
MidClean == IsSuspended(ui) /\ IsCharging(ui)
IdleAtBoot == ram.prev = "unknown" /\ ~IsCleaning(ui) /\ ~MidClean /\ ~ram.recovered
Starts == ram.prev # "cleaning" /\ (IsCleaning(ui) \/ MidClean)

CheckedState ==
    /\ ram.fetch = "check"
    /\ LET s == [Now EXCEPT !.ram.fetch = "none"]
           recovers == Starts /\ ~ram.recovered /\ Orphans(s) # {}
           after(t) == [t EXCEPT !.ram.prev = Kind(ui),
                                 !.ram.recovered = @ \/ IdleAtBoot \/ Starts]
       IN  \/ IdleAtBoot /\ Becomes(after(FinalizeOrphans(s)))
           \/ recovers /\ Becomes(after(RecoverCollection(s)))
           \/ /\ Starts /\ ~recovers
              /\ \E cached \in {FALSE, ram.charger = <<>>} :
                   Becomes(after(StartCollection(IF ram.recovered THEN s ELSE Unstale(s), cached)))
           \/ ~IdleAtBoot /\ ~Starts /\ Becomes(after(s))
    /\ UNCHANGED <<ui, cleans, charges, poses, cuts, requests>>

CheckFails ==
    /\ ram.fetch = "check"
    /\ Becomes([Now EXCEPT !.ram.fetch = "none"])
    /\ UNCHANGED <<ui, cleans, charges, poses, cuts, requests>>

(* getErr() only counts errors; the pose is asked for after its answer.    *)
AskPos(s) == [s EXCEPT !.ram.fetch = IF s.ram.recharging THEN "none" ELSE "pos"]

(* The state read for collectSnapshot(): the robot has left the clean, it  *)
(* recharges, it is paused, or its pose is asked for.  During a manoeuvre  *)
(* of the no-go guard the robot shows a pause or TestMode.                 *)
StateRead(maneuver) ==
    /\ ram.fetch = "state"
    /\ \E cached \in {FALSE, ram.charger = <<>>} :
         LET seen == IF maneuver THEN "paused" ELSE ui
             s == [Now EXCEPT !.ram.prev = Kind(seen), !.ram.fetch = "none"]
             recharge == (IsDocking(seen) \/ IsSuspended(seen)) /\ IsCharging(seen)
             over == ~IsCleaning(seen) /\ ~IsDocking(seen) /\ ~IsSuspended(seen)
             marked == IF s.ram.snaps > 0 /\ ~s.ram.recharging THEN Write(s, <<Recharge>>) ELSE s
             resumed == [s EXCEPT !.ram.recharging = @ /\ ~IsCleaning(seen)]
         IN  \/ maneuver /\ Becomes(s)
             \/ ~maneuver /\ recharge /\ Becomes([marked EXCEPT !.ram.recharging = TRUE])
             \/ ~maneuver /\ over /\ Becomes(StopCollection(s, cached))
             \/ ~maneuver /\ ~recharge /\ seen = "paused" /\ Becomes(resumed)
             \/ /\ ~maneuver /\ ~recharge /\ ~over /\ seen # "paused"
                /\ Becomes(AskPos(resumed))
    /\ UNCHANGED <<ui, cleans, charges, poses, cuts, requests>>

StateFails ==
    /\ ram.fetch = "state"
    /\ Becomes(AskPos(Now))
    /\ UNCHANGED <<ui, cleans, charges, poses, cuts, requests>>

(* The pose is known; the brush is asked for, and nothing waits for that.  *)
PosRead ==
    /\ ram.fetch = "pos"
    /\ poses < MaxPoses /\ Len(ram.motors) < MotorWaits
    /\ poses' = poses + 1
    /\ Becomes([Now EXCEPT !.ram.fetch = "none", !.ram.motors = Append(@, poses + 1)])
    /\ UNCHANGED <<ui, cleans, charges, cuts, requests>>

PosFails ==
    /\ ram.fetch = "pos"
    /\ Becomes([Now EXCEPT !.ram.fetch = "none"])
    /\ UNCHANGED <<ui, cleans, charges, poses, cuts, requests>>

(* writeSnapshot(): a pose that jumps back to the origin is dropped;       *)
(* bufferLine() needs the file, the count does not.                        *)
WriteSnapshot(s, n) ==
    [s EXCEPT !.ram.buf = IF s.ram.open THEN Append(@, Pose(n)) ELSE @, !.ram.snaps = @ + 1]

MotorsRead ==
    /\ ram.motors # <<>>
    /\ \E jump \in {FALSE, ram.snaps > 0} :
         LET s == [Now EXCEPT !.ram.motors = Tail(@)]
         IN  Becomes(IF jump THEN s ELSE WriteSnapshot(s, Head(ram.motors)))
    /\ UNCHANGED <<ui, cleans, charges, poses, cuts, requests>>

(* Everyone who waits for the charger is answered, in order.               *)
Answered(s, waiters) ==
    LET answered[i \in 0 .. Len(waiters)] ==
            IF i = 0 THEN s ELSE WithBattery(answered[i - 1], waiters[i])
    IN  answered[Len(waiters)]

ChargerRead ==
    /\ ram.charger # <<>>
    /\ Becomes(Answered([Now EXCEPT !.ram.charger = <<>>], ram.charger))
    /\ UNCHANGED <<ui, cleans, charges, poses, cuts, requests>>

-----------------------------------------------------------------------------
(* The web server's task.                                                  *)

(* listSessions(): neither the file that is recorded nor the two of the    *)
(* compression; what is listed is cached.                                  *)
Busy(n) == \/ ram.compressing = n[1]
           \/ ram.collecting /\ n = <<ram.active, "raw">>
Listed == {n \in Files(Now) : ~Busy(n)}

Requested == requests < MaxRequests /\ requests' = requests + 1

List ==
    /\ Requested /\ "list" \in Web
    /\ Becomes([Now EXCEPT !.ram.meta =
            [n \in Name |-> IF n \in Listed /\ @[n] = None THEN MetaOf(Now, n) ELSE @[n]]])
    /\ UNCHANGED <<ui, cleans, charges, poses, cuts>>

DeleteSession ==
    /\ Requested /\ "delete" \in Web
    /\ \E n \in Files(Now) :
        /\ DeleteBusy \/ (~Busy(n) /\ ~(ram.importing /\ n = <<Backup, "hs">>))
        /\ Becomes([RemoveFile(Now, n) EXCEPT !.ram.meta[n] = None])
    /\ UNCHANGED <<ui, cleans, charges, poses, cuts>>

DeleteAllSessions ==
    /\ Requested /\ "deleteAll" \in Web
    /\ DeleteBusy \/ (~ram.collecting /\ ram.compressing = None /\ ~ram.importing)
    /\ Becomes([Now EXCEPT !.raw = [e \in Epoch |-> NoFile], !.hs = [e \in Epoch |-> NoFile],
                           !.dropped = @ \cup OnDisk(Now),
                           !.ram.meta = [n \in Name |-> None]])
    /\ UNCHANGED <<ui, cleans, charges, poses, cuts>>

(* An upload: begun if the recorder is at rest and the session unknown,    *)
(* received in chunks, ended, or given up because it is too large; nothing *)
(* is done when the browser goes away.                                     *)
BeginImport ==
    /\ Requested /\ "import" \in Web
    /\ ~ram.importing /\ ~ram.collecting /\ ram.compressing = None
    /\ raw[Backup] = NoFile /\ hs[Backup] = NoFile
    /\ Becomes([Now EXCEPT !.hs[Backup] = [lines |-> <<>>, whole |-> FALSE],
                           !.ram.importing = TRUE])
    /\ UNCHANGED <<ui, cleans, charges, poses, cuts>>

ImportTooLarge ==
    /\ ram.importing
    /\ Becomes([Now EXCEPT !.hs[Backup] = NoFile, !.ram.importing = FALSE])
    /\ UNCHANGED <<ui, cleans, charges, poses, cuts, requests>>

EndImport ==
    /\ ram.importing
    /\ Becomes(EnforceLimits([Now EXCEPT
            !.hs[Backup] = [lines |-> <<Session, Summary>>, whole |-> TRUE],
            !.ram.importing = FALSE]))
    /\ UNCHANGED <<ui, cleans, charges, poses, cuts, requests>>

-----------------------------------------------------------------------------
(* The robot, and the power.                                               *)

RobotStarts ==
    /\ ui = "idle" /\ cleans < MaxCleans
    /\ ui' = "cleaning" /\ cleans' = cleans + 1
    /\ UNCHANGED <<charges, poses, cuts, requests, ram, raw, hs, log>>

Moves == {<<"cleaning", "paused">>, <<"paused", "cleaning">>, <<"paused", "idle">>,
          <<"cleaning", "docking">>, <<"docking", "idle">>, <<"cleaning", "idle">>,
          <<"returning", "suspended">>, <<"suspended", "cleaning">>}

RobotMoves ==
    /\ \E m \in Moves : ui = m[1] /\ ui' = m[2]
    /\ UNCHANGED <<cleans, charges, poses, cuts, requests, ram, raw, hs, log>>

RobotRecharges ==
    /\ ui = "cleaning" /\ charges < MaxCharges
    /\ ui' = "returning" /\ charges' = charges + 1
    /\ UNCHANGED <<cleans, poses, cuts, requests, ram, raw, hs, log>>

(* What the files can be when the power goes: as the last handler left     *)
(* them, or as one that does several things to them has got so far.        *)

(* The .hs is closed and the raw file not yet removed.                     *)
CutCompressing ==
    {[Now EXCEPT !.hs[e] = [lines |-> raw[e], whole |-> TRUE]] :
        e \in {d \in Epoch : ram.compressing = d /\ ram.inputDone /\ raw[d] # NoFile}}

(* The summary is written and the .hs not yet created.                     *)
CutAnswering ==
    {[Now EXCEPT !.raw = Answered([Now EXCEPT !.ram.charger = <<>>],
                                  SubSeq(ram.charger, 1, i)).raw] :
        i \in 0 .. Len(ram.charger)}

(* The clean is over: the buffer is written and the file not yet removed.  *)
CutStopping == {[Now EXCEPT !.raw = FlushWriteBuffer(Now).raw] :
                    over \in {TRUE} \cap {ram.fetch = "state" /\ ui = "idle"}}

(* The newer orphans have their summaries, the older ones not; the newest  *)
(* has its .hs by the time the next one gets a summary.                    *)
CutFinalizing ==
    LET orphans == Orphans(Now)
        newest == Newest(orphans)
        to(k, created) ==
            [Now EXCEPT
                !.raw = [e \in Epoch |-> IF e \in orphans /\ e >= k THEN Append(@[e], Summary)
                                         ELSE @[e]],
                !.hs = IF created THEN [@ EXCEPT ![newest] = [lines |-> <<>>, whole |-> FALSE]]
                       ELSE @]
    IN  IF ram.fetch = "check" /\ IdleAtBoot
        THEN {to(k, TRUE) : k \in orphans} \cup {to(k, FALSE) : k \in {e \in orphans : e = newest}}
        ELSE {}

(* An upload is complete, and not known to be.                             *)
CutImporting ==
    {[Now EXCEPT !.hs[Backup] = [lines |-> <<Session, Summary>>, whole |-> TRUE]] :
        importing \in {TRUE} \cap {ram.importing}}

(* The orphans up to gone are removed, and some of what was read up to     *)
(* another has reached the oldest: it is flushed after the last of them.   *)
CutMerging ==
    LET orphans == Orphans(Now)
        target == Oldest(orphans)
        merged(read) == Merged(Now, {e \in orphans : e <= read}, target)
        to(gone, read, n) ==
            [Now EXCEPT
                !.raw = [e \in Epoch |-> IF e = target THEN SubSeq(merged(read), 1, n)
                                         ELSE IF e \in orphans /\ e <= gone THEN NoFile
                                         ELSE @[e]]]
        reading == {r \in orphans \X orphans :
                        r[1] <= r[2] /\ ~\E e \in orphans : r[1] < e /\ e < r[2]}
    IN  IF ram.fetch = "check" /\ Starts /\ ~ram.recovered
        THEN UNION {{to(r[1], r[2], n) : n \in Len(raw[target]) .. Len(merged(r[2]))} :
                        r \in reading}
        ELSE {}

(* The object is lost and the files stay as they are.                      *)
Cut(t, unmerged) ==
    /\ ram' = Boot /\ raw' = t.raw /\ hs' = t.hs
    /\ log' = [log EXCEPT !.torn = Torn(t), !.unmerged = @ \cup unmerged]

PowerCut ==
    /\ cuts < MaxCuts
    /\ cuts' = cuts + 1
    /\ \/ \E t \in {Now} \cup CutCompressing \cup CutAnswering \cup CutStopping
                    \cup CutFinalizing \cup CutImporting : Cut(t, {})
       \/ \E t \in CutMerging : Cut(t, OnDisk(Now) \ OnDisk(t))
    /\ UNCHANGED <<ui, cleans, charges, poses, requests>>

Loop == CompressRead \/ CompressEnd \/ CheckState \/ CollectSnapshot
Answer == CheckedState \/ CheckFails \/ (\E maneuver \in {FALSE, ram.guard} : StateRead(maneuver))
          \/ StateFails \/ PosRead \/ PosFails \/ MotorsRead \/ ChargerRead
Request == List \/ DeleteSession \/ DeleteAllSessions \/ BeginImport \/ ImportTooLarge \/ EndImport

Next == Loop \/ Answer \/ Request \/ RobotStarts \/ RobotMoves \/ RobotRecharges \/ PowerCut

(* The loop ticks, everything the robot is asked is answered, and not      *)
(* every read of its state fails or falls into a manoeuvre.                *)
StateKnown == CheckedState \/ StateRead(FALSE)
Fairness ==
    /\ WF_vars(Loop \/ PosRead \/ PosFails)
    /\ SF_vars(StateKnown)
    /\ WF_vars(ChargerRead)

Spec == Init /\ [][Next]_vars /\ Fairness

-----------------------------------------------------------------------------
(* Properties.                                                             *)

(* A pose that has been written to a session's file stays in a raw file or *)
(* in a finished compressed one, whatever the recorder does and whenever   *)
(* the power goes, between two handlers or inside one, unless the session  *)
(* is too short, its turn has come under the limits, or a user deletes it. *)
(* The exception is a power cut inside the merge of several interrupted    *)
(* sessions (see MergeKeepsPoses).                                         *)
NothingFlushedIsLost == log.saved \subseteq OnDisk(Now) \cup log.dropped \cup log.unmerged

(* A power cut loses no pose that a file holds, not even while the         *)
(* recovery merges what earlier power cuts interrupted.  It may: each      *)
(* orphan is removed before the file that takes it in is flushed.          *)
MergeKeepsPoses == log.unmerged = {}

(* A session is closed once: late poses, a second end of the same session, *)
(* power cuts and the recovery after them never put a line behind its      *)
(* summary, so that readFirstLastLines() finds what is needed.  The        *)
(* exception is a session closed before anything of it was written: it     *)
(* finds no last line in a file of one line, so the file is taken up again *)
(* at a later boot.                                                        *)
SummaryIsLast ==
    \A n \in Files(Now) :
        LET f == Content(Now, n)
        IN  \A i \in DOMAIN f : f[i] = Summary => i = Len(f) \/ f[1] = Summary

(* What /api/history lists is a whole session, and each session once, but  *)
(* for one whose compression the power cut: its raw file and its .hs,      *)
(* unfinished or whole, are listed side by side.                           *)
ListedWhole ==
    \A e \in Epoch : <<e, "hs">> \in Listed =>
        \/ (hs[e].whole /\ <<e, "raw">> \notin Listed)
        \/ e \in log.torn
        \/ (ram.importing /\ e = Backup)

(* A robot that goes on cleaning is recorded and guarded in the end,       *)
(* whatever came before: a boot, an earlier session, a compression.        *)
EveryCleanRecorded ==
    <>[](ui = "cleaning") => <>[](ram.collecting /\ ram.guard)

(* After a clean the session is closed and compressed; none stays open.    *)
SessionEnds ==
    <>[](ui = "idle") => <>[](~ram.collecting /\ ram.compressing = None)

(* After the recovery of a boot no raw file is left beside a whole .hs.    *)
(* It is not so: the scan ends at that .hs before it comes to the raw file. *)
NoStaleRaw ==
    [][~ram.recovered /\ ram'.recovered =>
        \A e \in Epoch : raw'[e] = NoFile \/ hs'[e] = NoFile \/ ~hs'[e].whole]_vars

(* What is cached for the list is what the file holds.                     *)
CachedMetaIsTrue ==
    \A n \in Files(Now) : ram.meta[n] # None => ram.meta[n] = MetaOf(Now, n)

(* Poses are flushed when the session ends: none is left in the buffer for *)
(* the file of the next one.                                               *)
FlushedAtSessionEnd == [][ram.collecting /\ ~ram'.collecting /\ ram'.active # None
                          => ram'.buf = <<>>]_vars
=============================================================================
