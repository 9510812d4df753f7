----------------------------- MODULE DataLogger -----------------------------
(***************************************************************************)
(* The log files (firmware/src/data_logger.cpp): lines gather in memory,   *)
(* are appended to /log/current.jsonl, a full current file is renamed to   *)
(* an archive and compressed one chunk per tick, and the oldest archives   *)
(* make way for new ones.  Requests read and delete files meanwhile, and   *)
(* power may be cut.                                                       *)
(*                                                                         *)
(* A line is a number and a file a sequence of lines; sizes are counted in *)
(* lines, and a compressed file is the sequence it decompresses to.  The   *)
(* encoder holds back what it was fed last (Heatshrink.tla).  Everything   *)
(* runs in one task here; the read of a download is a step of its own.     *)
(***************************************************************************)
EXTENDS Naturals, Sequences, SequencesExt, FiniteSets

CONSTANTS
    MaxLines,       \* bound on the lines logged
    MaxCuts,        \* bound on power cuts
    MaxRequests,    \* bound on requests and changes of the settings
    FlushMaxLines,  \* LOG_FLUSH_MAX_LINES
    MaxFileSize,    \* LOG_MAX_FILE_SIZE, in lines
    MaxFiles,       \* LOG_MAX_FILES
    ClockSet,       \* is the time known at boot, or does it restart from zero?
    EncoderFails,   \* may heatshrink report an error?
    SlowReader,     \* may a download outlast the compression of its file?
    WatchEarly      \* are events before begin() expected in the log?

ASSUME BoundsAssumption ==
    /\ MaxLines \in Nat /\ MaxCuts \in Nat /\ MaxRequests \in Nat
    /\ FlushMaxLines \in Nat \ {0} /\ MaxFileSize \in Nat \ {0} /\ MaxFiles \in Nat
ASSUME SwitchAssumption == {ClockSet, EncoderFails, SlowReader, WatchEarly} \subseteq BOOLEAN

Line == 1 .. MaxLines
Clock == 1 .. MaxLines + 1
Current == <<"current", 0>>
Raw(n) == <<"raw", n>>  \* /log/<n>.jsonl
Hs(n) == <<"hs", n>>    \* /log/<n>.jsonl.hs
Path == {Current} \cup ({"raw", "hs"} \X Clock)
Gone == <<"gone", 0>>   \* what is left of an open file that was removed

VARIABLES
    files,    \* the /log directory: present paths and their lines
    logger,   \* the DataLogger object
    reader,   \* a download
    cfg,      \* logLevel and syslog of the settings
    clock,    \* systemManager.now()
    due,      \* the intervals that have elapsed
    budget,   \* what is left of the bounds
    hist      \* history: the last line, and the lines that must be in a file

vars == <<files, logger, reader, cfg, clock, due, budget, hist>>

NotCompressing == [on |-> FALSE, src |-> Gone, pos |-> 0, held |-> <<>>, inputDone |-> FALSE]
NoReader == [on |-> FALSE, path |-> Gone, pos |-> 0, tail |-> <<>>, got |-> {}, want |-> {}]
Booting == [wired |-> FALSE, fsReady |-> FALSE, buffer |-> <<>>, currentFileSize |-> 0,
            rotationPending |-> FALSE, pending |-> 1, compress |-> NotCompressing,
            bulkDeletePending |-> FALSE, bulk |-> <<>>]

DTypeOK ==
    /\ DOMAIN files \subseteq Path /\ \A p \in DOMAIN files : files[p] \in Seq(Line)
    /\ logger \in [wired: BOOLEAN, fsReady: BOOLEAN, buffer: Seq(Line), currentFileSize: Nat,
                   rotationPending: BOOLEAN, pending: Clock,
                   compress: [on: BOOLEAN, src: Path \cup {Gone}, pos: Nat, held: Seq(Line),
                              inputDone: BOOLEAN],
                   bulkDeletePending: BOOLEAN, bulk: Seq(Path)]
    /\ reader \in [on: BOOLEAN, path: Path \cup {Gone}, pos: Nat, tail: Seq(Line),
                   got: SUBSET Line, want: SUBSET Line]
    /\ cfg \in [level: {"off", "info", "debug"}, syslog: BOOLEAN]
    /\ clock \in Clock /\ due \subseteq {"flush", "limits"}
    /\ budget \in [cuts: 0 .. MaxCuts, requests: 0 .. MaxRequests]
    /\ hist \in [last: 0 .. MaxLines, owed: SUBSET Line, early: SUBSET Line]

Init ==
    /\ files = [p \in {} |-> <<>>] /\ logger = Booting /\ reader = NoReader
    /\ cfg = [level |-> "debug", syslog |-> FALSE] /\ clock = 1 /\ due = {}
    /\ budget = [cuts |-> MaxCuts, requests |-> MaxRequests]
    /\ hist = [last |-> 0,    \* the number of the last event
               owed |-> {},   \* the lines written to flash that nobody asked to delete
               early |-> {}]  \* events before begin()

-----------------------------------------------------------------------------
(* What a handler does is a function of s: the files, the logger, the      *)
(* download and the history.                                               *)

Now == [f |-> files, l |-> logger, r |-> reader, clock |-> clock, due |-> due, h |-> hist]
Becomes(s) ==
    /\ files' = s.f /\ logger' = s.l /\ reader' = s.r /\ clock' = s.clock /\ due' = s.due
    /\ hist' = s.h

Exists(s, p) == p \in DOMAIN s.f
Content(s, p) == IF Exists(s, p) THEN s.f[p] ELSE <<>>
Write(s, p, lines) == [s EXCEPT !.f = [q \in DOMAIN s.f \cup {p} |->
                                         IF q = p THEN lines ELSE s.f[q]]]
\* A file that is open while it is removed cannot be read or written any more.
RemoveFile(s, p) ==
    [s EXCEPT !.f = [q \in DOMAIN s.f \ {p} |-> s.f[q]],
              !.r.path = IF @ = p THEN Gone ELSE @,
              !.l.compress.src = IF @ = p THEN Gone ELSE @]
\* A rename onto an existing file fails.
Rename(s, p, q) ==
    IF Exists(s, q) THEN s
    ELSE [s EXCEPT !.f = [x \in (DOMAIN s.f \ {p}) \cup {q} |-> IF x = q THEN s.f[p] ELSE s.f[x]],
                   !.r.path = IF @ = p THEN q ELSE @]

(* A line that a user or the limits delete is owed to nobody.  A file that *)
(* is being compressed goes with its source.                               *)
LinesOf(s, p) ==
    ToSet(Content(s, p))
        \cup IF s.l.compress.on /\ p = Hs(s.l.pending) THEN ToSet(Content(s, s.l.compress.src)) ELSE {}
Delete(s, p) ==
    RemoveFile([s EXCEPT !.h.owed = @ \ LinesOf(s, p), !.r.want = @ \ LinesOf(s, p)], p)

Archives(s) == {p \in DOMAIN s.f : p # Current}

(* flushBuffer(): append, and rotate a full file unless one is under way.  *)
Rotate(s) ==
    IF s.l.currentFileSize >= MaxFileSize /\ ~s.l.rotationPending /\ ~s.l.compress.on
    THEN [Rename(s, Current, Raw(s.clock)) EXCEPT
             !.l.pending = s.clock, !.l.currentFileSize = 0, !.l.rotationPending = TRUE,
             !.clock = IF @ \in Line THEN @ + 1 ELSE @]
    ELSE s

FlushBuffer(s) ==
    IF s.l.buffer = <<>> \/ ~s.l.fsReady THEN s
    ELSE Rotate([Write(s, Current, Content(s, Current) \o s.l.buffer) EXCEPT
                    !.l.currentFileSize = @ + Len(s.l.buffer), !.l.buffer = <<>>,
                    !.due = @ \ {"flush"}, !.h.owed = @ \cup ToSet(s.l.buffer)])

FlushDue(s) == s.l.buffer # <<>> /\ ("flush" \in s.due \/ Len(s.l.buffer) >= FlushMaxLines)

-----------------------------------------------------------------------------
(* Compression.                                                            *)

StartCompression(s) ==
    IF Exists(s, Raw(s.l.pending))
    THEN [Write(s, Hs(s.l.pending), <<>>) EXCEPT
             !.l.compress = [NotCompressing EXCEPT !.on = TRUE, !.src = Raw(s.l.pending)]]
    ELSE s

\* A write to a destination that was removed has no effect.
Output(s) ==
    LET dst == Hs(s.l.pending)
        t == IF Exists(s, dst) THEN Write(s, dst, s.f[dst] \o s.l.compress.held) ELSE s
    IN  [t EXCEPT !.l.compress.held = <<>>]

Chunk(s) ==
    LET c == s.l.compress
    IN  IF c.pos < Len(Content(s, c.src))
        THEN [Output(s) EXCEPT !.l.compress.pos = @ + 1, !.l.compress.held = <<s.f[c.src][c.pos + 1]>>]
        ELSE [s EXCEPT !.l.compress.inputDone = TRUE]

\* tick(): whatever compressStep() came to, its source is removed.
Compressed(s) == [RemoveFile(s, Raw(s.l.pending)) EXCEPT !.l.compress = NotCompressing]
Failed(s) == Compressed(RemoveFile(s, Hs(s.l.pending)))

\* mutant: done when the input is, without what the encoder holds back
CompressStep_NoFinish(s) ==
    IF ~s.l.compress.on THEN s
    ELSE IF s.l.compress.inputDone THEN Compressed(s) ELSE Chunk(s)

CompressStep(s) ==
    IF ~s.l.compress.on THEN s
    ELSE IF s.l.compress.inputDone THEN Compressed(Output(s)) ELSE Chunk(s)

-----------------------------------------------------------------------------
(* Limits and deletion.                                                    *)

Before(p, q) == p[2] < q[2] \/ (p[2] = q[2] /\ p[1] = "raw" /\ q[1] = "hs")
IsOldest(s, p) == \A q \in Archives(s) : p = q \/ Before(p, q)

\* mutant: one archive too many is tolerated
EnforceLimits_OffByOne(s, crowded) ==
    IF Archives(s) # {} /\ (crowded \/ Cardinality(Archives(s)) > MaxFiles + 1)
    THEN Delete(s, CHOOSE p \in Archives(s) : IsOldest(s, p))
    ELSE s

EnforceLimits(s, crowded) ==
    IF Archives(s) # {} /\ (crowded \/ Cardinality(Archives(s)) > MaxFiles)
    THEN Delete(s, CHOOSE p \in Archives(s) : IsOldest(s, p))
    ELSE s

LimitsDue(s) == ~s.l.compress.on /\ ~s.l.bulkDeletePending /\ "limits" \in s.due

BulkDelete(s) ==
    IF s.l.bulkDeletePending /\ s.l.bulk # <<>>
    THEN [Delete(s, Last(s.l.bulk)) EXCEPT !.l.bulk = Front(@),
                                           !.l.bulkDeletePending = Len(s.l.bulk) > 1]
    ELSE s

StartPending(s) ==
    IF s.l.rotationPending /\ ~s.l.compress.on
    THEN [StartCompression(s) EXCEPT !.l.rotationPending = FALSE]
    ELSE s

(* The order in which the directory lists them, with the current file      *)
(* once more in front.                                                     *)
Listed(s) == SetToSeq({Current} \cap DOMAIN s.f) \o SetToSortSeq(DOMAIN s.f, Before)

DeleteAllLogs(s) ==
    [s EXCEPT !.l.bulk = Listed(s), !.l.bulkDeletePending = @ \/ Listed(s) # <<>>,
              !.l.currentFileSize = IF Exists(s, Current) THEN 0 ELSE @]

-----------------------------------------------------------------------------
(* Events.                                                                 *)

Level(s) == IF s.l.wired THEN cfg.level ELSE "off"

BufferLine(s, n) ==
    IF Len(s.l.buffer) >= FlushMaxLines * 4 THEN s ELSE [s EXCEPT !.l.buffer = Append(@, n)]

(* logEvent(): dropped, sent to the syslog server or buffered.             *)
Logged(s) ==
    LET n == s.h.last + 1
        t == [s EXCEPT !.h.last = n]
    IN  IF Level(s) = "off" \/ cfg.syslog THEN t ELSE BufferLine(t, n)

MayLog == hist.last < MaxLines

LogEvent ==
    /\ MayLog /\ (~logger.fsReady => WatchEarly)
    /\ LET s == Logged(Now)
       IN  Becomes(IF ~logger.wired /\ cfg.level # "off" /\ ~cfg.syslog
                   THEN [s EXCEPT !.h.early = @ \cup {s.h.last}] ELSE s)
    /\ UNCHANGED <<cfg, budget>>

\* onCommand(): a command that the robot or the queue failed, or any at debug.
OnCommand ==
    /\ MayLog /\ logger.fsReady
    /\ \E success, cached \in BOOLEAN :
         /\ Level(Now) # "off" /\ ~cached /\ ~(cfg.level = "info" /\ success)
         /\ Becomes(Logged(Now))
    /\ UNCHANGED <<cfg, budget>>

(* setup(): the checks are wired and the file system is mounted.           *)
Begin ==
    /\ ~logger.fsReady
    /\ LET s == [Now EXCEPT !.l.wired = TRUE, !.l.fsReady = TRUE,
                            !.l.currentFileSize = Len(Content(Now, Current))]
       IN  Becomes(IF MayLog THEN Logged(s) ELSE s)
    /\ UNCHANGED <<cfg, budget>>

-----------------------------------------------------------------------------
(* The loop task.                                                          *)

Stepped(s, fails) == IF fails /\ s.l.compress.on THEN Failed(s) ELSE CompressStep(s)

Limited(s, crowded) ==
    IF LimitsDue(s) THEN [EnforceLimits(s, crowded) EXCEPT !.due = @ \ {"limits"}] ELSE s

\* The parts of tick(), one after the other.
Tick ==
    /\ logger.fsReady
    /\ \E fails \in {FALSE, EncoderFails}, crowded \in BOOLEAN :
       \E flushed \in {IF FlushDue(Now) THEN FlushBuffer(Now) ELSE Now} :
       \E stepped \in {Stepped(flushed, fails)} :
       \E s \in {BulkDelete(StartPending(Limited(stepped, crowded)))} :
         /\ crowded => LimitsDue(stepped)
         /\ SlowReader \/ reader.path = Gone \/ stepped.r.path # Gone
         /\ Becomes(s)
    /\ UNCHANGED <<cfg, budget>>

Elapses(d) ==
    /\ d \notin due /\ due' = due \cup {d}
    /\ UNCHANGED <<files, logger, reader, cfg, clock, budget, hist>>

-----------------------------------------------------------------------------
(* Requests.                                                               *)

Asks == logger.fsReady /\ budget.requests > 0 /\ budget' = [budget EXCEPT !.requests = @ - 1]

DeleteLog ==
    /\ Asks
    /\ \E p \in DOMAIN files : Becomes(Delete(Now, p))
    /\ UNCHANGED cfg

DeleteAll ==
    /\ Asks
    /\ Becomes(DeleteAllLogs(Now))
    /\ UNCHANGED cfg

ChangeSettings ==
    /\ Asks
    /\ cfg' \in [level: {"off", "info", "debug"}, syslog: BOOLEAN] /\ cfg' # cfg
    /\ UNCHANGED <<files, logger, reader, clock, due, hist>>

(* readLog(): a download of the current file ends with the lines that were *)
(* in memory when it began.                                                *)
ReadLog ==
    /\ Asks /\ ~reader.on
    /\ \E p \in DOMAIN files \cup {Current} :
         LET tail == IF p = Current THEN logger.buffer ELSE <<>>
         IN  /\ p \in DOMAIN files \/ tail # <<>>
             /\ reader' = [on |-> TRUE, path |-> IF p \in DOMAIN files THEN p ELSE Gone, pos |-> 0,
                           tail |-> tail, got |-> {},
                           want |-> ToSet(tail) \cup IF p[1] = "hs" THEN {} ELSE ToSet(Content(Now, p))]
    /\ UNCHANGED <<files, logger, cfg, clock, due, hist>>

\* mutant: the tail is served only when there is no file
BufferedRead_NoTail(r) ==
    LET lines == Content(Now, r.path)
    IN  IF r.pos < Len(lines)
        THEN [r EXCEPT !.pos = @ + 1, !.got = @ \cup {lines[r.pos + 1]}]
        ELSE [r EXCEPT !.on = FALSE, !.path = Gone, !.got = IF r.pos = 0 THEN ToSet(r.tail) ELSE @]

BufferedRead(r) ==
    LET lines == Content(Now, r.path)
    IN  IF r.pos < Len(lines)
        THEN [r EXCEPT !.pos = @ + 1, !.got = @ \cup {lines[r.pos + 1]}]
        ELSE [r EXCEPT !.on = FALSE, !.path = Gone, !.got = @ \cup ToSet(r.tail)]

ReadMore ==
    /\ reader.on
    /\ reader' = BufferedRead(reader)
    /\ UNCHANGED <<files, logger, cfg, clock, due, budget, hist>>

-----------------------------------------------------------------------------
(* Power is cut: memory is lost, and what was written of the file that is  *)
(* open for writing need not have reached the flash.                       *)
PowerCut ==
    /\ logger.fsReady /\ budget.cuts > 0 /\ budget' = [budget EXCEPT !.cuts = @ - 1]
    /\ LET dst == Hs(logger.pending)
           torn == logger.compress.on /\ dst \in DOMAIN files
       IN  \E n \in IF torn THEN 0 .. Len(files[dst]) ELSE {0} :
             files' = IF torn THEN [files EXCEPT ![dst] = SubSeq(@, 1, n)] ELSE files
    /\ logger' = Booting /\ reader' = NoReader /\ due' = {}
    /\ clock' = IF ClockSet THEN clock ELSE 1
    /\ UNCHANGED <<cfg, hist>>

Events == LogEvent \/ OnCommand
Requests == DeleteLog \/ DeleteAll \/ ChangeSettings \/ ReadLog \/ ReadMore
Next == Begin \/ Events \/ Tick \/ Elapses("flush") \/ Elapses("limits") \/ Requests \/ PowerCut

(* The loop task goes on, time with it, and a download is read to its end. *)
Fairness ==
    /\ WF_vars(Begin) /\ WF_vars(Tick) /\ WF_vars(ReadMore)
    /\ WF_vars(Elapses("flush")) /\ WF_vars(Elapses("limits"))
Spec == Init /\ [][Next]_vars /\ Fairness

-----------------------------------------------------------------------------
(* Properties.                                                             *)

Stored == UNION {ToSet(files[p]) : p \in DOMAIN files}

(* A line that has reached the flash stays readable in some file until a   *)
(* request or the limits delete it: rotation, compression and the removal  *)
(* of the source lose none, wherever in them power is cut.                 *)
FlushedIsKept == hist.owed \subseteq Stored

(* A download of the current or of a plain file has every line that was in *)
(* the file or still in memory when it began, though flushes and rotations *)
(* go on below it.                                                         *)
ReaderMissesNothing == ~reader.on => reader.want \subseteq reader.got

(* The number of archives always comes back to its limit, unless a second  *)
(* delete-all found nothing to delete and left the first one pending.      *)
BulkStuck == logger.bulkDeletePending /\ logger.bulk = <<>>
LimitsHold == []<>(Cardinality(Archives(Now)) <= MaxFiles \/ BulkStuck)

(* The number of archives always comes back to its limit.                  *)
LimitsAlwaysHold == []<>(Cardinality(Archives(Now)) <= MaxFiles)

(* Every line that is buffered is written, unless power is cut.            *)
BufferDrains == []<>(logger.buffer = <<>>)

(* Lines that are logged before begin() accumulate in memory and are       *)
(* written once the file system is mounted.                                *)
EarlyEventsCaptured == \A n \in hist.early : n \in Stored \/ n \in ToSet(logger.buffer)
=============================================================================
