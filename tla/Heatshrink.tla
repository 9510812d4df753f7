----------------------------- MODULE Heatshrink -----------------------------
(***************************************************************************)
(* The compression of log and history files: the state machines of the     *)
(* heatshrink encoder and decoder in the 32-bit build                      *)
(* (firmware/lib/heatshrink), the loop that feeds the encoder              *)
(* (DataLogger::compressStep()) and the one that serves a compressed file  *)
(* (CompressedLogReader::read()).                                          *)
(*                                                                         *)
(* A byte has ByteBits bits.  A poll advances one state of its machine per *)
(* step, as the loop of heatshrink_*_poll() does, and is left when the     *)
(* machine is stuck.  The file may lose its last bytes in between.         *)
(***************************************************************************)
EXTENDS Integers, Sequences, FiniteSets, SequencesExt

CONSTANTS
    ByteBits,       \* 8
    WindowBits,     \* HEATSHRINK_STATIC_WINDOW_BITS
    LookaheadBits,  \* HEATSHRINK_STATIC_LOOKAHEAD_BITS
    InputBuffer,    \* HEATSHRINK_STATIC_INPUT_BUFFER_SIZE
    Alphabet,       \* the bytes that occur in the source
    MaxInput,       \* bound on the length of the source
    ChunkSize,      \* CHUNK_SIZE: what is read of the source at a time
    OutSize,        \* CHUNK_SIZE: the buffer that is polled into
    InChunk,        \* sizeof(inBuf) of the reader
    MaxLen,         \* the buffer the reader is asked to fill
    MaxTorn         \* bound on the bytes the end of the file has lost

\* 1 << n.
Pow2[n \in Nat] == IF n = 0 THEN 1 ELSE 2 * Pow2[n - 1]

Byte == 0 .. Pow2[ByteBits] - 1
Window == Pow2[WindowBits]
Lookahead == Pow2[LookaheadBits]
BreakEven == (1 + WindowBits + LookaheadBits) \div ByteBits

ASSUME BitsAssumption ==
    /\ ByteBits \in Nat \ {0} /\ WindowBits \in Nat \ {0} /\ LookaheadBits \in 1 .. WindowBits - 1
    /\ 1 + WindowBits + LookaheadBits >= ByteBits   \* padding is never a whole reference
    /\ LookaheadBits <= ByteBits /\ WindowBits <= 2 * ByteBits
ASSUME SizesAssumption ==
    /\ Alphabet \subseteq Byte /\ MaxInput \in Nat /\ MaxTorn \in Nat
    /\ {InputBuffer, ChunkSize, OutSize, InChunk, MaxLen} \subseteq Nat \ {0}

VARIABLES
    source,     \* the file that is compressed, as far as it has been read
    enc,        \* heatshrink_encoder
    out,        \* the buffer that is polled into
    caller,     \* compressStep(): where it is, and the bytes it has not sunk
    file,       \* the compressed file
    dec,        \* heatshrink_decoder
    logReader,  \* CompressedLogReader
    got         \* what has been served

hsVars == <<source, enc, out, caller, file, dec, logReader, got>>

EncoderStates == {"not_full", "filled", "search", "yield_tag_bit", "yield_literal",
                  "yield_br_index", "yield_br_length", "save_backlog", "flush_bits", "done"}
DecoderStates == {"tag_bit", "yield_literal", "backref_index_msb", "backref_index_lsb",
                  "backref_count_lsb", "yield_backref"}

EncoderReset ==
    [buffer |-> [i \in 0 .. 2 * Window - 1 |-> 0], input_size |-> 0, match_scan_index |-> 0,
     state |-> "not_full", finishing |-> FALSE, match_pos |-> 0, match_length |-> 0,
     outgoing |-> 0, count |-> 0, current_byte |-> 0, bit_index |-> 0]

DecoderReset ==
    [input |-> <<>>, input_index |-> 0, state |-> "tag_bit", bit_index |-> 0, current_byte |-> 0,
     output_count |-> 0, output_index |-> 0, head_index |-> 0, window |-> [i \in 0 .. Window - 1 |-> 0]]

Encoder ==
    [buffer: [0 .. 2 * Window - 1 -> Byte], input_size: 0 .. Window, match_scan_index: 0 .. Window,
     state: EncoderStates, finishing: BOOLEAN, match_pos: 0 .. Window, match_length: 0 .. Lookahead,
     outgoing: Nat, count: 0 .. WindowBits, current_byte: Byte, bit_index: 0 .. ByteBits - 1]
Decoder ==
    [input: Seq(Byte), input_index: 0 .. InputBuffer, state: DecoderStates, bit_index: 0 .. ByteBits,
     current_byte: Byte, output_count: 0 .. Lookahead, output_index: 0 .. Window, head_index: Nat,
     window: [0 .. Window - 1 -> Byte]]

(* Nothing is written beyond the end of a buffer, to begin with the one    *)
(* that is polled into; a reference that is read reaches no further back   *)
(* than the window and is no longer than the lookahead, of a torn file too.*)
HsTypeOK ==
    /\ source \in Seq(Alphabet) /\ file \in Seq(Byte) /\ got \in Seq(Byte)
    /\ out \in Seq(Byte) /\ Len(out) <= OutSize
    /\ caller \in [at: {"read", "poll", "finish", "poll_rest", "done"}, left: Seq(Alphabet)]
    /\ enc \in Encoder /\ dec \in Decoder
    /\ dec.input_index + Len(dec.input) <= InputBuffer
    /\ logReader \in [on: BOOLEAN, polling: BOOLEAN, buf: Seq(Byte), inBuf: Seq(Byte), pos: Nat,
                      inputDone: BOOLEAN, finished: BOOLEAN, torn: 0 .. MaxTorn]
    /\ Len(logReader.buf) <= MaxLen

HsInit ==
    /\ source = <<>> /\ out = <<>> /\ file = <<>> /\ got = <<>>
    /\ enc = EncoderReset /\ dec = DecoderReset
    /\ caller = [at |-> "read", left |-> <<>>]
    /\ logReader = [on |-> FALSE, polling |-> FALSE, buf |-> <<>>, inBuf |-> <<>>, pos |-> 0,
                    inputDone |-> FALSE, finished |-> FALSE, torn |-> 0]

-----------------------------------------------------------------------------
(* Searching: the first place in the window where the longest prefix of    *)
(* what comes next is found.  A match starts in the window and may go on   *)
(* beyond it.                                                              *)

\* cmp8(): how many of the bytes from a and from b agree, up to n.
CommonPrefix(buf, a, b, n) ==
    CHOOSE k \in 0 .. n : /\ \A i \in 0 .. k - 1 : buf[a + i] = buf[b + i]
                          /\ k = n \/ buf[a + k] # buf[b + k]

NoMatch == [at |-> -1, len |-> 0]

\* find_pattern(): it finds p when more bytes agree there than did at the best place, and two.
Better(buf, pattern, maxlen, p, best) ==
    LET n == CommonPrefix(buf, p, pattern, maxlen)
    IN  IF n < 2 \/ n <= best.len THEN best ELSE [at |-> p, len |-> n]

\* find_longest_match(): each match found must beat the one before.
LongestMatch(buf, pattern, maxlen, start) ==
    LET longest[p \in start .. pattern] ==
            IF p = start THEN NoMatch ELSE Better(buf, pattern, maxlen, p - 1, longest[p - 1])
    IN  longest[pattern]

Match(e) ==
    LET here == Window + e.match_scan_index
        left == e.input_size - e.match_scan_index
        maxlen == IF left < Lookahead THEN left ELSE Lookahead
        m == IF maxlen <= BreakEven THEN NoMatch ELSE LongestMatch(e.buffer, here, maxlen, here - Window)
    IN  IF m.len > BreakEven THEN [at |-> here - m.at, len |-> m.len] ELSE NoMatch

-----------------------------------------------------------------------------
(* The encoder.  A step is a function of the encoder and the output.       *)

Stays(e, o) == [e |-> e, o |-> o]
Full(o) == Len(o) >= OutSize

\* The bits that do not fill a byte stay in current_byte.
PushBits(e, o, count, bits) ==
    LET pending == (e.current_byte % Pow2[e.bit_index]) * Pow2[count] + (bits % Pow2[count])
        n == e.bit_index + count
    IN  IF n >= ByteBits
        THEN [e |-> [e EXCEPT !.current_byte = pending % Pow2[ByteBits], !.bit_index = n - ByteBits],
              o |-> Append(o, (pending \div Pow2[n - ByteBits]) % Pow2[ByteBits])]
        ELSE [e |-> [e EXCEPT !.current_byte = pending % Pow2[ByteBits], !.bit_index = n], o |-> o]

Goes(s, state) == [s EXCEPT !.e.state = state]

StepSearch(e) ==
    LET m == Match(e)
        over == IF e.finishing THEN e.match_scan_index >= e.input_size
                               ELSE e.match_scan_index > e.input_size - Lookahead
    IN  IF over THEN [e EXCEPT !.state = IF e.finishing THEN "flush_bits" ELSE "save_backlog"]
        ELSE IF m.len = 0
        THEN [e EXCEPT !.match_scan_index = @ + 1, !.match_length = 0, !.state = "yield_tag_bit"]
        ELSE [e EXCEPT !.match_pos = m.at, !.match_length = m.len, !.state = "yield_tag_bit"]

YieldTagBit(e, o) ==
    IF e.match_length = 0 THEN Goes(PushBits(e, o, 1, 1), "yield_literal")
    ELSE Goes(PushBits([e EXCEPT !.outgoing = e.match_pos - 1, !.count = WindowBits], o, 1, 0),
              "yield_br_index")

YieldLiteral(e, o) ==
    Goes(PushBits(e, o, ByteBits, e.buffer[Window + e.match_scan_index - 1]), "search")

\* push_outgoing_bits(): at most a byte of them, the highest first.
PushOutgoing(e, o) ==
    IF e.count > ByteBits
    THEN PushBits([e EXCEPT !.count = e.count - ByteBits], o, ByteBits,
                  e.outgoing \div Pow2[e.count - ByteBits])
    ELSE PushBits([e EXCEPT !.count = 0], o, e.count, e.outgoing)

YieldBrIndex(e, o) ==
    IF e.count > 0 THEN PushOutgoing(e, o)
    ELSE Stays([e EXCEPT !.outgoing = e.match_length - 1, !.count = LookaheadBits,
                         !.state = "yield_br_length"], o)

YieldBrLength(e, o) ==
    IF e.count > 0 THEN PushOutgoing(e, o)
    ELSE Stays([e EXCEPT !.match_scan_index = @ + e.match_length, !.match_length = 0,
                         !.state = "search"], o)

\* What has been scanned becomes the window of what comes next.
SaveBacklog(e) ==
    LET msi == e.match_scan_index
    IN  [e EXCEPT !.buffer = [i \in DOMAIN @ |-> IF i + msi \in DOMAIN @ THEN @[i + msi] ELSE @[i]],
                  !.match_scan_index = 0, !.input_size = @ - msi, !.state = "not_full"]

\* mutant: the bits that do not fill a byte are not written.
FlushBits_Dropped(e, o) == Stays([e EXCEPT !.state = "done"], o)

FlushBits(e, o) ==
    Stays([e EXCEPT !.state = "done"],
          IF e.bit_index = 0 THEN o
          ELSE Append(o, (e.current_byte * Pow2[ByteBits - e.bit_index]) % Pow2[ByteBits]))

EncoderStep(e, o) ==
    CASE e.state = "filled" -> Stays([e EXCEPT !.state = "search"], o)
      [] e.state = "search" -> Stays(StepSearch(e), o)
      [] e.state = "save_backlog" -> Stays(SaveBacklog(e), o)
      [] e.state = "flush_bits" /\ (e.bit_index = 0 \/ ~Full(o)) -> FlushBits(e, o)
      [] e.state = "yield_tag_bit" /\ ~Full(o) -> YieldTagBit(e, o)
      [] e.state = "yield_literal" /\ ~Full(o) -> YieldLiteral(e, o)
      [] e.state = "yield_br_index" /\ ~Full(o) -> YieldBrIndex(e, o)
      [] e.state = "yield_br_length" /\ ~Full(o) -> YieldBrLength(e, o)
      [] OTHER -> Stays(e, o)

Sink(e, bytes) ==
    LET n == IF Window - e.input_size < Len(bytes) THEN Window - e.input_size ELSE Len(bytes)
        at == Window + e.input_size
    IN  [e |-> [e EXCEPT !.buffer = [i \in DOMAIN @ |-> IF i \in at .. at + n - 1
                                                        THEN bytes[i - at + 1] ELSE @[i]],
                         !.input_size = @ + n,
                         !.state = IF n = Window - e.input_size THEN "filled" ELSE @],
         sunk |-> n]

MaySink == ~enc.finishing /\ enc.state = "not_full"

-----------------------------------------------------------------------------
(* compressStep(): a chunk is read, sunk and polled for until there is no  *)
(* more; at the end of the source the encoder is finished.                 *)

ReadSource ==
    /\ caller.at = "read" /\ caller.left = <<>>
    /\ \/ /\ Len(source) < MaxInput
          /\ \E n \in 1 .. ChunkSize : \E bytes \in [1 .. n -> Alphabet] :
               /\ Len(source) + n <= MaxInput
               /\ source' = source \o bytes
               /\ caller' = [caller EXCEPT !.left = bytes]
       \/ caller' = [caller EXCEPT !.at = "finish"] /\ UNCHANGED source
    /\ UNCHANGED <<enc, out, file, dec, logReader, got>>

SinkChunk ==
    /\ caller.at = "read" /\ caller.left # <<>> /\ MaySink
    /\ LET s == Sink(enc, caller.left)
       IN  /\ enc' = s.e
           /\ caller' = [at |-> "poll", left |-> SubSeq(caller.left, s.sunk + 1, Len(caller.left))]
    /\ UNCHANGED <<source, out, file, dec, logReader, got>>

Finish ==
    /\ caller.at = "finish"
    /\ enc' = [enc EXCEPT !.finishing = TRUE, !.state = IF @ = "not_full" THEN "filled" ELSE @]
    /\ caller' = [caller EXCEPT !.at = IF enc.state = "done" THEN "done" ELSE "poll_rest"]
    /\ UNCHANGED <<source, out, file, dec, logReader, got>>

Polling == caller.at \in {"poll", "poll_rest"}
Empty == enc.state \in {"not_full", "done"}

PollStep ==
    /\ Polling /\ ~Empty
    /\ \E s \in {EncoderStep(enc, out)} :
         /\ s # Stays(enc, out)
         /\ enc' = s.e /\ out' = s.o
    /\ UNCHANGED <<source, caller, file, dec, logReader, got>>

\* mutant: the caller polls once for what it has sunk.
AfterPoll_Once == [caller EXCEPT !.at = IF @ = "poll" THEN "read" ELSE "finish"]

\* What a poll that returns leaves for the caller: it polls again on POLL_MORE.
AfterPoll ==
    IF ~Empty THEN caller ELSE [caller EXCEPT !.at = IF @ = "poll" THEN "read" ELSE "finish"]

PollReturns ==
    /\ Polling
    /\ Empty \/ (Full(out) /\ EncoderStep(enc, out) = Stays(enc, out))
    /\ file' = file \o out /\ out' = <<>> /\ caller' = AfterPoll
    /\ UNCHANGED <<source, enc, dec, logReader, got>>

-----------------------------------------------------------------------------
(* The decoder.                                                            *)

NoBits == -1

\* get_bits(): nothing is taken unless there is a byte or enough is left of one.
GetBits(d, count) ==
    LET high == IF count < d.bit_index THEN count ELSE d.bit_index
        low == count - high
        first == (d.current_byte \div Pow2[d.bit_index - high]) % Pow2[high]
        next == Head(d.input)
        drained == Len(d.input) = 1
    IN  IF low = 0 THEN [d |-> [d EXCEPT !.bit_index = @ - high], bits |-> first]
        ELSE IF d.input = <<>> THEN [d |-> d, bits |-> NoBits]
        ELSE [d |-> [d EXCEPT !.input = Tail(@), !.input_index = IF drained THEN 0 ELSE @ + 1,
                              !.current_byte = next, !.bit_index = ByteBits - low],
              bits |-> first * Pow2[low] + (next \div Pow2[ByteBits - low])]

\* push_byte() and the window.
Yield(s, byte) ==
    [s EXCEPT !.d.window[s.d.head_index] = byte, !.d.head_index = (@ + 1) % Window,
              !.o = Append(@, byte)]

DYieldLiteral(d, o) ==
    LET g == GetBits(d, ByteBits)
    IN  IF g.bits = NoBits THEN [d |-> d, o |-> o]
        ELSE [Yield([d |-> g.d, o |-> o], g.bits) EXCEPT !.d.state = "tag_bit"]

\* The next byte of the reference, and n of them: it may repeat itself.
Copy(s) == Yield(s, s.d.window[(s.d.head_index - s.d.output_index) % Window])
Copies(s, n) == LET copied[i \in 0 .. n] == IF i = 0 THEN s ELSE Copy(copied[i - 1]) IN copied[n]

\* As many bytes of the reference as there is room for.
YieldBackref(d, o) ==
    LET room == MaxLen - Len(o)
        count == IF d.output_count < room THEN d.output_count ELSE room
        copied == Copies([d |-> d, o |-> o], count)
    IN  [d |-> [copied.d EXCEPT !.output_count = @ - count,
                                !.state = IF d.output_count = count THEN "tag_bit" ELSE @],
         o |-> copied.o]

\* A state that waits for count bits and what it does with them.
Takes(d, o, count, Then(_, _)) ==
    LET g == GetBits(d, count)
    IN  [d |-> IF g.bits = NoBits THEN d ELSE Then(g.d, g.bits), o |-> o]

AfterTag(d, bits) ==
    IF bits = 1 THEN [d EXCEPT !.state = "yield_literal"]
    ELSE IF WindowBits > ByteBits THEN [d EXCEPT !.state = "backref_index_msb"]
    ELSE [d EXCEPT !.output_index = 0, !.state = "backref_index_lsb"]
AfterMsb(d, bits) == [d EXCEPT !.output_index = bits * Pow2[ByteBits], !.state = "backref_index_lsb"]
AfterLsb(d, bits) ==
    [d EXCEPT !.output_index = @ + bits + 1, !.output_count = 0, !.state = "backref_count_lsb"]
AfterCount(d, bits) == [d EXCEPT !.output_count = bits + 1, !.state = "yield_backref"]

DecoderStep(d, o) ==
    CASE d.state = "tag_bit" -> Takes(d, o, 1, AfterTag)
      [] d.state = "backref_index_msb" -> Takes(d, o, WindowBits - ByteBits, AfterMsb)
      [] d.state = "backref_index_lsb" ->
            Takes(d, o, IF WindowBits < ByteBits THEN WindowBits ELSE ByteBits, AfterLsb)
      [] d.state = "backref_count_lsb" -> Takes(d, o, LookaheadBits, AfterCount)
      [] d.state = "yield_literal" /\ Len(o) < MaxLen -> DYieldLiteral(d, o)
      [] d.state = "yield_backref" /\ Len(o) < MaxLen -> YieldBackref(d, o)
      [] OTHER -> [d |-> d, o |-> o]

\* mutant: the input must end with its last whole item.
FinishDone_NoPadding(d) == d.input = <<>> /\ d.state = "tag_bit" /\ d.bit_index = 0

\* heatshrink_decoder_finish(): bits that are left over are padding.
FinishDone(d) == d.input = <<>> /\ d.state # "yield_backref"

-----------------------------------------------------------------------------
(* CompressedLogReader::read(), called until it returns nothing.           *)

Idle == logReader.on /\ ~logReader.polling /\ ~logReader.finished

Open ==
    /\ caller.at = "done" /\ ~logReader.on
    /\ \E n \in 0 .. MaxTorn :
         /\ n <= Len(file)
         /\ file' = SubSeq(file, 1, Len(file) - n)
         /\ logReader' = [logReader EXCEPT !.on = TRUE, !.polling = TRUE, !.torn = n]
    /\ UNCHANGED <<source, enc, out, caller, dec, got>>

\* read() is full, or has come to the end.
Serve(r) == /\ got' = got \o r.buf
            /\ logReader' = [r EXCEPT !.buf = <<>>]

DecodeStep ==
    /\ logReader.polling
    /\ \E s \in {DecoderStep(dec, logReader.buf)} :
         \/ /\ s.d.state # dec.state
            /\ dec' = s.d /\ logReader' = [logReader EXCEPT !.buf = s.o] /\ UNCHANGED got
         \/ /\ s.d.state = dec.state
            /\ dec' = s.d
            /\ IF Len(s.o) = MaxLen THEN Serve([logReader EXCEPT !.buf = s.o])
               ELSE logReader' = [logReader EXCEPT !.buf = s.o, !.polling = FALSE] /\ UNCHANGED got
    /\ UNCHANGED <<source, enc, out, caller, file>>

Refill ==
    /\ Idle /\ logReader.inBuf = <<>> /\ ~logReader.inputDone
    /\ LET n == IF Len(file) - logReader.pos < InChunk THEN Len(file) - logReader.pos ELSE InChunk
       IN  logReader' = IF n = 0 THEN [logReader EXCEPT !.inputDone = TRUE, !.polling = TRUE]
                     ELSE [logReader EXCEPT
                              !.inBuf = SubSeq(file, logReader.pos + 1, logReader.pos + n),
                              !.pos = @ + n]
    /\ UNCHANGED <<source, enc, out, caller, file, dec, got>>

SinkInput ==
    /\ Idle /\ logReader.inBuf # <<>>
    /\ LET rem == InputBuffer - (dec.input_index + Len(dec.input))
           n == IF rem < Len(logReader.inBuf) THEN rem ELSE Len(logReader.inBuf)
       IN  /\ dec' = [dec EXCEPT !.input = @ \o SubSeq(logReader.inBuf, 1, n)]
           /\ logReader' = [logReader EXCEPT !.inBuf = SubSeq(@, n + 1, Len(@)), !.polling = TRUE]
    /\ UNCHANGED <<source, enc, out, caller, file, got>>

EndOfInput ==
    /\ Idle /\ logReader.inBuf = <<>> /\ logReader.inputDone
    /\ IF FinishDone(dec) THEN Serve([logReader EXCEPT !.finished = TRUE])
       ELSE logReader' = [logReader EXCEPT !.polling = TRUE] /\ UNCHANGED got
    /\ UNCHANGED <<source, enc, out, caller, file, dec>>

Compress == ReadSource \/ SinkChunk \/ Finish \/ PollStep \/ PollReturns
Read == Open \/ DecodeStep \/ Refill \/ SinkInput \/ EndOfInput
HsNext == Compress \/ Read

(* Both loops run on.                                                      *)
HsSpec == HsInit /\ [][HsNext]_hsVars /\ WF_hsVars(HsNext)

-----------------------------------------------------------------------------
(* Properties.                                                             *)

(* The two loops never call the encoder in a way it reports as misuse,     *)
(* whatever the source and the sizes of the buffers: the error paths of    *)
(* compressStep() that give the source up are not taken.                   *)
CallsAreLegal == caller.at = "read" => MaySink

(* What is served is what was compressed: all of it or, of a file that     *)
(* lost its end, a beginning of it and nothing else.                       *)
RoundTrip ==
    /\ IsPrefix(got \o logReader.buf, source)
    /\ (logReader.finished /\ logReader.torn = 0) => got = source

(* The download of any file ends, torn or not.                             *)
ReadEnds == <>(logReader.finished)
=============================================================================
