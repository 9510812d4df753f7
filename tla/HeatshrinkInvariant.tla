------------------------ MODULE HeatshrinkInvariant ------------------------
(***************************************************************************)
(* What is always true of Heatshrink, and the terms it is said in.  That   *)
(* it is, and what follows from it, is proved in LogProofs.                *)
(*                                                                         *)
(* What the encoder has written is a sequence of tokens, each a literal or *)
(* a reference, with a mark at its ends: a place in the stream of bits and *)
(* one in the source.  The invariant of the encoder says which tokens are  *)
(* whole, what part of the next has been written, and that its buffer      *)
(* holds the source about it.  A mark and what lies before it stay when    *)
(* more is written.  The invariant of the decoder says within which token  *)
(* it is, that its window holds the end of what it has served, and that    *)
(* this is the beginning of the source.  The bytes of the stream never     *)
(* need to be compared: a token is read for what it was written.           *)
(***************************************************************************)
EXTENDS Heatshrink

-----------------------------------------------------------------------------
(* What a step of the encoder does to its control.  An encoder that ends   *)
(* has been finished.                                                      *)

HasControl(e) == {"state", "finishing"} \subseteq DOMAIN e

Ending == {"flush_bits", "done"}

EndsWhenFinished(e) ==
    /\ HasControl(e)
    /\ e.state \in Ending => e.finishing

\* s keeps the control of e.
Keeps(s, e) ==
    /\ s = [e |-> s.e, o |-> s.o]
    /\ HasControl(s.e)
    /\ s.e.finishing = e.finishing
    /\ s.e.state = e.state

-----------------------------------------------------------------------------
(* The loop and the encoder.                                               *)

Feeding == {"read", "poll"}

\* While the loop feeds it, the encoder is not finished, and when the loop
\* reads on, the encoder waits for input.
HsInv ==
    /\ EndsWhenFinished(enc)
    /\ {"at", "left"} \subseteq DOMAIN caller
    /\ caller.at \in Feeding => ~enc.finishing
    /\ caller.at = "read" => enc.state = "not_full"

-----------------------------------------------------------------------------
(* Least elements and powers of two.                                       *)

Less == {p \in Nat \X Nat : p[1] < p[2]}

PowersTo(n) == {f \in [0 .. n -> Nat \ {0}] : f[0] = 1 /\ \A i \in 1 .. n : f[i] = 2 * f[i - 1]}

-----------------------------------------------------------------------------
(* A place in a stream: within byte c, whose lowest b bits come next.      *)
(* A field is the value of the n bits after a place.                       *)

Pos == [c : Nat, b : 0 .. ByteBits - 1]
After(P, n) == IF n <= P.b THEN [c |-> P.c, b |-> P.b - n]
               ELSE [c |-> P.c + 1, b |-> ByteBits - (n - P.b)]
UpTo(P, Q) == P.c < Q.c \/ (P.c = Q.c /\ Q.b <= P.b)
At(Y, c) == IF c = 0 THEN 0 ELSE Y[c]
Field(Y, P, n) ==
    IF n <= P.b THEN (At(Y, P.c) \div Pow2[P.b - n]) % Pow2[n]
    ELSE (At(Y, P.c) % Pow2[P.b]) * Pow2[n - P.b] + (Y[P.c + 1] \div Pow2[ByteBits - (n - P.b)])
Agree(Y, Z, P) ==
    /\ P.c <= Len(Y) /\ P.c <= Len(Z)
    /\ \A i \in 1 .. P.c - 1 : Y[i] = Z[i]
    /\ At(Y, P.c) \div Pow2[P.b] = At(Z, P.c) \div Pow2[P.b]

-----------------------------------------------------------------------------
(* The bits the encoder pushes.  byte is the one it is filling, of which k *)
(* bits are free, and z the bytes before it.                               *)

Ends(z, k) == IF k = 0 THEN [c |-> Len(z), b |-> 0] ELSE [c |-> Len(z) + 1, b |-> ByteBits - k]
Flushed(z, byte, k) == Append(z, (byte * Pow2[ByteBits - k]) % Pow2[ByteBits])
Pending(byte, k, count, v) == (byte % Pow2[k]) * Pow2[count] + (v % Pow2[count])

\* What an encoder with output o has written after f, and where it has come to.
Stream(f, e, o) == Flushed(f \o o, e.current_byte, e.bit_index)
Tip(f, e, o) == Ends(f \o o, e.bit_index)

HasBits(e) == /\ {"current_byte", "bit_index"} \subseteq DOMAIN e
              /\ e.current_byte \in Byte /\ e.bit_index \in 0 .. ByteBits - 1

\* s is what e and o become when count bits of v are written.
Wrote(s, f, e, o, count, v) ==
    /\ s.o \in Seq(Byte) /\ Len(s.o) \in {Len(o), Len(o) + 1}
    /\ \E cb \in Byte, bi \in 0 .. ByteBits - 1 :
          s = [e |-> [e EXCEPT !.current_byte = cb, !.bit_index = bi], o |-> s.o]
    /\ HasBits(s.e)
    /\ Tip(f, s.e, s.o) = After(Tip(f, e, o), count)
    /\ Agree(Stream(f, e, o), Stream(f, s.e, s.o), Tip(f, e, o))
    /\ Field(Stream(f, s.e, s.o), Tip(f, e, o), count) = v % Pow2[count]

-----------------------------------------------------------------------------
(* The tokens.                                                             *)

\* The source before its first byte is the empty window.
Nth(src, i) == IF i \in 1 .. Len(src) THEN src[i] ELSE 0

Repeats(src, from, dist, len) ==
    /\ dist \in 1 .. Window /\ len \in 1 .. Lookahead /\ from + len <= Len(src)
    /\ \A i \in 1 .. len : Nth(src, from + i) = Nth(src, from + i - dist)

\* The index of a reference: what is above a byte first, then the rest.
LowBits == IF WindowBits < ByteBits THEN WindowBits ELSE ByteBits
Low(P) == IF WindowBits > ByteBits THEN After(P, WindowBits - ByteBits) ELSE P
IndexEnd(P) == After(Low(P), LowBits)
Indexed(Y, P, x) ==
    /\ WindowBits > ByteBits => Field(Y, P, WindowBits - ByteBits) = x \div Pow2[ByteBits]
    /\ Field(Y, Low(P), LowBits) = x % Pow2[LowBits]

\* A token takes the stream from t.at to u.at and the source from t.from to u.from.
Mark == [at: Pos, from: Nat]
Literal(Y, src, t, u) ==
    /\ Field(Y, t.at, 1) = 1
    /\ t.from + 1 <= Len(src) /\ Field(Y, After(t.at, 1), ByteBits) = Nth(src, t.from + 1)
    /\ u = [at |-> After(After(t.at, 1), ByteBits), from |-> t.from + 1]
Refers(Y, src, t, u, dist, len) ==
    /\ Field(Y, t.at, 1) = 0
    /\ Indexed(Y, After(t.at, 1), dist - 1)
    /\ Field(Y, IndexEnd(After(t.at, 1)), LookaheadBits) = len - 1
    /\ Repeats(src, t.from, dist, len)
    /\ u = [at |-> After(IndexEnd(After(t.at, 1)), LookaheadBits), from |-> t.from + len]
Token(Y, src, t, u) ==
    \/ Literal(Y, src, t, u)
    \/ \E dist \in 1 .. Window, len \in 1 .. Lookahead : Refers(Y, src, t, u, dist, len)

Tokens(T, Y, src) ==
    /\ T \in Seq(Mark) /\ Len(T) >= 1
    /\ T[1] = [at |-> [c |-> 0, b |-> 0], from |-> 0]
    /\ \A i \in 1 .. Len(T) - 1 : Token(Y, src, T[i], T[i + 1])
    /\ \A i \in 1 .. Len(T) : UpTo(T[i].at, T[Len(T)].at)
    /\ T[Len(T)].at.c <= Len(Y) /\ T[Len(T)].from <= Len(src)

-----------------------------------------------------------------------------
(* What a search finds.                                                    *)

\* g is applied n times to s, with the number of the time.
Iterates(f, S, s, n, g) ==
    f \in [0 .. n -> S] /\ f[0] = s /\ \A i \in 1 .. n : f[i] = g[<<f[i - 1], i>>]

\* The match that is found is one.
Matches(m, buf, pattern, maxlen, start) ==
    \/ m = NoMatch
    \/ /\ m.at \in start .. pattern - 1 /\ m.len \in 0 .. maxlen
       /\ \A i \in 0 .. m.len - 1 : buf[m.at + i] = buf[pattern + i]

-----------------------------------------------------------------------------
(* What the encoder has written: whole tokens, and a part of the next.     *)

\* The buffer holds the window before base, and the input after it.
Buffered(e, src, base) ==
    /\ base \in Nat /\ base + e.input_size <= Len(src)
    /\ e.match_scan_index <= e.input_size
    /\ \A i \in 0 .. Window + e.input_size - 1 : e.buffer[i] = Nth(src, (base - Window) + i + 1)

Found(e, src, base) ==
    /\ Repeats(src, base + e.match_scan_index, e.match_pos, e.match_length)
    /\ e.match_scan_index + e.match_length <= e.input_size

Between == {"not_full", "filled", "search", "save_backlog", "flush_bits"}

AtToken(e, base, tip, t) ==
    /\ e.state \in Between
    /\ tip = t.at /\ t.from = base + e.match_scan_index
    /\ e.state = "flush_bits" => e.match_scan_index = e.input_size

AtTag(e, src, base, tip, t) ==
    /\ e.state = "yield_tag_bit" /\ tip = t.at
    /\ IF e.match_length = 0 THEN e.match_scan_index >= 1 /\ t.from + 1 = base + e.match_scan_index
       ELSE Found(e, src, base) /\ t.from = base + e.match_scan_index

AtLiteral(e, Y, base, tip, t) ==
    /\ e.state = "yield_literal" /\ tip = After(t.at, 1) /\ Field(Y, t.at, 1) = 1
    /\ e.match_scan_index >= 1 /\ t.from + 1 = base + e.match_scan_index

Referring(e, Y, src, base, t) ==
    /\ Found(e, src, base) /\ t.from = base + e.match_scan_index /\ Field(Y, t.at, 1) = 0

AtIndex(e, Y, src, base, tip, t) ==
    /\ e.state = "yield_br_index" /\ Referring(e, Y, src, base, t) /\ e.outgoing = e.match_pos - 1
    /\ \/ e.count = WindowBits /\ tip = After(t.at, 1)
       \/ /\ WindowBits > ByteBits /\ e.count = WindowBits - ByteBits
          /\ tip = After(After(t.at, 1), ByteBits)
          /\ Field(Y, After(t.at, 1), ByteBits) = (e.outgoing \div Pow2[e.count]) % Pow2[ByteBits]
       \/ e.count = 0 /\ tip = IndexEnd(After(t.at, 1)) /\ Indexed(Y, After(t.at, 1), e.outgoing)

AtLength(e, Y, src, base, tip, t) ==
    /\ e.state = "yield_br_length" /\ Referring(e, Y, src, base, t) /\ e.outgoing = e.match_length - 1
    /\ Indexed(Y, After(t.at, 1), e.match_pos - 1)
    /\ \/ e.count = LookaheadBits /\ tip = IndexEnd(After(t.at, 1))
       \/ /\ e.count = 0 /\ tip = After(IndexEnd(After(t.at, 1)), LookaheadBits)
          /\ Field(Y, IndexEnd(After(t.at, 1)), LookaheadBits) = e.outgoing

Progress(e, Y, src, base, tip, t) ==
    \/ AtToken(e, base, tip, t) \/ AtTag(e, src, base, tip, t) \/ AtLiteral(e, Y, base, tip, t)
    \/ AtIndex(e, Y, src, base, tip, t) \/ AtLength(e, Y, src, base, tip, t)

\* The tokens are the stream, but for bits of 0 at its end, and the source.
Complete(T, Z, src) ==
    /\ Tokens(T, Z, src)
    /\ Len(Z) = T[Len(T)].at.c /\ At(Z, Len(Z)) % Pow2[T[Len(T)].at.b] = 0

Coded(e, o, f, src, base, T) ==
    /\ e \in Encoder /\ o \in Seq(Byte) /\ f \in Seq(Byte) /\ src \in Seq(Byte)
    /\ Buffered(e, src, base)
    /\ IF e.state = "done" THEN Complete(T, f \o o, src) /\ T[Len(T)].from = base + e.input_size
       ELSE /\ Tokens(T, Stream(f, e, o), src)
            /\ Progress(e, Stream(f, e, o), src, base, Tip(f, e, o), T[Len(T)])

\* The same but for the bits that do not fill a byte.
SameButBits(d, e) ==
    /\ d.buffer = e.buffer /\ d.input_size = e.input_size /\ d.match_scan_index = e.match_scan_index
    /\ d.state = e.state /\ d.finishing = e.finishing /\ d.match_pos = e.match_pos
    /\ d.match_length = e.match_length /\ d.outgoing = e.outgoing /\ d.count = e.count

\* s is what e and o become when count bits of v are pushed.
Pushed(s, f, e, o, count, v) ==
    /\ s = [e |-> s.e, o |-> s.o]
    /\ s.e \in Encoder /\ s.o \in Seq(Byte) /\ Len(s.o) \in {Len(o), Len(o) + 1}
    /\ SameButBits(s.e, e)
    /\ Tip(f, s.e, s.o) = After(Tip(f, e, o), count)
    /\ Agree(Stream(f, e, o), Stream(f, s.e, s.o), Tip(f, e, o))
    /\ Field(Stream(f, s.e, s.o), Tip(f, e, o), count) = v % Pow2[count]

-----------------------------------------------------------------------------
(* A step of the encoder keeps what is coded, and may code more.           *)

\* s is a step from e and o: what was coded stays so, and there may be more.
Advances(s, e, f, src, base) ==
    \E b, U : /\ b \in Nat /\ Coded(s.e, s.o, f, src, b, U)
              /\ b + s.e.input_size = base + e.input_size
              /\ s.e.finishing = e.finishing

\* push_outgoing_bits() with the bits of the count that are left.
OutgoingOf(s, f, e, o, n, left, v) ==
    \E d \in Encoder :
        /\ d.buffer = e.buffer /\ d.input_size = e.input_size /\ d.match_scan_index = e.match_scan_index
        /\ d.state = e.state /\ d.finishing = e.finishing /\ d.match_pos = e.match_pos
        /\ d.match_length = e.match_length /\ d.outgoing = e.outgoing /\ d.count = left
        /\ d.current_byte = e.current_byte /\ d.bit_index = e.bit_index
        /\ Pushed(s, f, d, o, n, v)

-----------------------------------------------------------------------------
(* compressStep() around the encoder.                                      *)

\* What is left of the chunk is the end of the source.
Left(left, src, from) ==
    /\ left \in Seq(Byte) /\ Len(src) = from + Len(left)
    /\ \A i \in 1 .. Len(left) : left[i] = src[from + i]

SunkAt(w, base, size, n, len, all) ==
    /\ base + (size + n) <= all
    /\ \A i \in 0 .. w + (size + n) - 1 :
         /\ i \in (w + size) .. (w + size) + n - 1 =>
              /\ i - (w + size) + 1 \in 1 .. len
              /\ (base + size) + (i - (w + size) + 1) \in 1 .. all
              /\ (base - w) + i + 1 = (base + size) + (i - (w + size) + 1)
         /\ i \notin (w + size) .. (w + size) + n - 1 => i \in 0 .. w + size - 1
    /\ all = (base + (size + n)) + (len - n)
    /\ \A i \in 1 .. len - n : (base + size) + (n + i) = (base + (size + n)) + i

\* d is e but for what finish() changes.
FinishOf(d, e) ==
    /\ d.buffer = e.buffer /\ d.input_size = e.input_size /\ d.match_scan_index = e.match_scan_index
    /\ d.match_pos = e.match_pos /\ d.match_length = e.match_length /\ d.outgoing = e.outgoing
    /\ d.count = e.count /\ d.current_byte = e.current_byte /\ d.bit_index = e.bit_index
    /\ d.state = IF e.state = "not_full" THEN "filled" ELSE e.state

-----------------------------------------------------------------------------
(* The decoder: it reads the tokens of the stream Y.                       *)

DecoderRecord ==
    [input: Seq(Byte), input_index: Nat, state: DecoderStates, bit_index: 0 .. ByteBits - 1,
     current_byte: Byte, output_count: Nat, output_index: Nat, head_index: 0 .. Window - 1,
     window: [0 .. Window - 1 -> Byte]]

Cursor(d, c) == [c |-> c, b |-> d.bit_index]

\* The byte it is in is byte c of the stream, and its input what follows.
Draws(d, Y, c) ==
    /\ d \in DecoderRecord /\ c \in Nat /\ c + Len(d.input) <= Len(Y)
    /\ d.current_byte = At(Y, c)
    /\ \A i \in 1 .. Len(d.input) : d.input[i] = Y[c + i]

SameButInput(d, e) ==
    /\ d.state = e.state /\ d.output_count = e.output_count /\ d.output_index = e.output_index
    /\ d.head_index = e.head_index /\ d.window = e.window

Lacks(d, count) == d.input = <<>> /\ d.bit_index < count

\* g is d when the next count bits have been taken, which end in byte e.
Took(g, d, Y, c, count, e) ==
    /\ Draws(g.d, Y, e) /\ SameButInput(g.d, d)
    /\ After(Cursor(d, c), count) = Cursor(g.d, e)
    /\ g.bits = Field(Y, Cursor(d, c), count) /\ g.bits \in Nat
    /\ e + Len(g.d.input) = c + Len(d.input)
    /\ g.d.input_index + Len(g.d.input) <= d.input_index + Len(d.input)

-----------------------------------------------------------------------------
(* The window of the decoder, and what it serves.                          *)

\* The window holds the last bytes of the n that have been read.
Ring(d, src, n) ==
    \A k \in 1 .. Window : d.window[(d.head_index - k) % Window] = Nth(src, (n + 1) - k)

\* o2 is o and the bytes of the source from n on, up to m.
Emitted(o2, o, src, n, m) ==
    /\ o2 \in Seq(Byte) /\ m \in Nat /\ n <= m /\ m <= Len(src) /\ Len(o2) = Len(o) + (m - n)
    /\ \A k \in 1 .. Len(o) : o2[k] = o[k]
    /\ \A k \in 1 .. m - n : o2[Len(o) + k] = src[n + k]

\* The same but for the window and its head.
SameButWindow(d, e) ==
    /\ d.input = e.input /\ d.input_index = e.input_index /\ d.state = e.state
    /\ d.bit_index = e.bit_index /\ d.current_byte = e.current_byte
    /\ d.output_count = e.output_count /\ d.output_index = e.output_index

\* s is what d and o become when the next byte of the source has been served.
Yielded(s, d, o, src, n) ==
    /\ s = [d |-> s.d, o |-> s.o] /\ s.d \in DecoderRecord /\ SameButWindow(s.d, d)
    /\ Ring(s.d, src, n + 1) /\ s.o = Append(o, src[n + 1])

\* s is what d and o become when the source has been served from n to m.
YieldedTo(s, d, o, src, n, m) ==
    /\ s = [d |-> s.d, o |-> s.o] /\ s.d \in DecoderRecord /\ SameButWindow(s.d, d)
    /\ Ring(s.d, src, m) /\ Emitted(s.o, o, src, n, m)

-----------------------------------------------------------------------------
(* Where the decoder is: within the i-th token of the stream, which starts *)
(* at t and ends at u, or in the padding after the last.  The cursor is P, *)
(* and n bytes of the source have been served.                             *)

\* The tokens are all of the stream and of the source.
Whole(T, Y, src) ==
    /\ Y \in Seq(Byte) /\ src \in Seq(Byte) /\ Complete(T, Y, src) /\ T[Len(T)].from = Len(src)

ReadsTag(d, P, n, t) == d.state = "tag_bit" /\ P = t.at /\ n = t.from

ReadsByte(d, Y, src, P, n, t, u, more) ==
    /\ d.state = "yield_literal" /\ P = After(t.at, 1) /\ n = t.from
    /\ more /\ Literal(Y, src, t, u)

ReadsMsb(d, Y, src, P, n, t, u, more) ==
    /\ d.state = "backref_index_msb" /\ WindowBits > ByteBits /\ P = After(t.at, 1) /\ n = t.from
    /\ more => \E dist \in 1 .. Window, len \in 1 .. Lookahead : Refers(Y, src, t, u, dist, len)

ReadsLsb(d, Y, src, P, n, t, u, more) ==
    /\ d.state = "backref_index_lsb" /\ P = Low(After(t.at, 1)) /\ n = t.from
    /\ more => \E dist \in 1 .. Window, len \in 1 .. Lookahead :
                  /\ Refers(Y, src, t, u, dist, len)
                  /\ d.output_index = IF WindowBits > ByteBits
                                      THEN ((dist - 1) \div Pow2[ByteBits]) * Pow2[ByteBits] ELSE 0

ReadsCount(d, Y, src, P, n, t, u, more) ==
    /\ d.state = "backref_count_lsb" /\ P = IndexEnd(After(t.at, 1)) /\ n = t.from
    /\ more => \E dist \in 1 .. Window, len \in 1 .. Lookahead :
                  Refers(Y, src, t, u, dist, len) /\ d.output_index = dist

Copying(d, Y, src, P, n, t, u, more) ==
    /\ d.state = "yield_backref" /\ P = u.at /\ more /\ n + d.output_count = u.from
    /\ \E dist \in 1 .. Window, len \in 1 .. Lookahead :
          /\ Refers(Y, src, t, u, dist, len)
          /\ d.output_index = dist /\ d.output_count \in 1 .. len

Place(d, Y, T, src, P, n, i) ==
    LET t == T[i]
        u == T[i + 1]
        more == i < Len(T)
    IN  \/ ReadsTag(d, P, n, t) \/ ReadsByte(d, Y, src, P, n, t, u, more)
        \/ ReadsMsb(d, Y, src, P, n, t, u, more) \/ ReadsLsb(d, Y, src, P, n, t, u, more)
        \/ ReadsCount(d, Y, src, P, n, t, u, more) \/ Copying(d, Y, src, P, n, t, u, more)

ReadsAt(d, Y, T, src, c, n, i) ==
    /\ Draws(d, Y, c) /\ Ring(d, src, n) /\ n \in Nat /\ n <= Len(src) /\ i \in 1 .. Len(T)
    /\ Place(d, Y, T, src, Cursor(d, c), n, i)

\* It waits for more of the stream.
Starved(d) ==
    /\ d.state # "yield_backref"
    /\ d.state = "tag_bit" => Lacks(d, 1)
    /\ d.state = "yield_literal" => Lacks(d, ByteBits)
    /\ d.state = "backref_index_msb" => Lacks(d, WindowBits - ByteBits)
    /\ d.state = "backref_index_lsb" => Lacks(d, LowBits)
    /\ d.state = "backref_count_lsb" => Lacks(d, LookaheadBits)

\* s is a step from d and o: it reads on, and what it emits is the source.
ReadsOn(s, d, o, Y, T, src, c, n) ==
    /\ \E e, m, j : /\ ReadsAt(s.d, Y, T, src, e, m, j) /\ Emitted(s.o, o, src, n, m)
                    /\ e + Len(s.d.input) = c + Len(d.input)
    /\ s.d.input_index + Len(s.d.input) <= d.input_index + Len(d.input)
    /\ Len(s.o) <= MaxLen
    /\ s.d.state = d.state /\ Len(s.o) < MaxLen => Starved(s.d)

\* What is left of a reference is no more than there was.
SameReference(d, e) ==
    /\ d.output_index = e.output_index /\ d.output_count <= e.output_count
    /\ d.state # "backref_index_lsb"

-----------------------------------------------------------------------------
(* What compressStep() has written, and what it holds, is its source.      *)

Callers == [at: {"read", "poll", "finish", "poll_rest", "done"}, left: Seq(Byte)]

LogReader ==
    [on: BOOLEAN, polling: BOOLEAN, buf: Seq(Byte), inBuf: Seq(Byte), pos: Nat,
     inputDone: BOOLEAN, finished: BOOLEAN, torn: 0 .. MaxTorn]

CallerFits ==
    /\ caller \in Callers
    /\ caller.at \in {"read", "finish", "done"} => out = <<>>
    /\ caller.at \notin Feeding => caller.left = <<>>
    /\ caller.at = "done" => enc.state = "done"

Holds(e, o, f, src, left) ==
    \E base, T : base \in Nat /\ Coded(e, o, f, src, base, T) /\ Left(left, src, base + e.input_size)

Compressing == CallerFits /\ Holds(enc, out, file, source, caller.left)

Unread == dec = DecoderReset /\ got = <<>>
          /\ logReader \in LogReader /\ ~logReader.on /\ ~logReader.polling /\ ~logReader.finished
          /\ logReader.buf = <<>> /\ logReader.inBuf = <<>> /\ logReader.pos = 0
          /\ ~logReader.inputDone

-----------------------------------------------------------------------------
(* What CompressedLogReader::read() has served is the source.              *)

\* The decoder has been given the file, which begins the stream, up to what the reader holds.
Supplied(r, d, f, Y, c) ==
    /\ f \in Seq(Byte) /\ Len(f) <= Len(Y) /\ \A i \in 1 .. Len(f) : f[i] = Y[i]
    /\ r.torn = 0 => Len(f) = Len(Y)
    /\ r.pos <= Len(f) /\ (c + Len(d.input)) + Len(r.inBuf) = r.pos
    /\ \A i \in 1 .. Len(r.inBuf) : r.inBuf[i] = f[(c + Len(d.input)) + i]
    /\ r.inputDone => r.pos = Len(f)
    /\ d.input_index + Len(d.input) <= InputBuffer

\* n bytes have been served, of them those of o by the call that is running.
Serves(g, o, src, n) ==
    /\ g \in Seq(Byte) /\ o \in Seq(Byte) /\ n \in Nat /\ Len(g \o o) = n /\ n <= Len(src)
    /\ \A k \in 1 .. n : (g \o o)[k] = src[k]

Waits(r, d, src, n) ==
    /\ r \in LogReader /\ r.on /\ Len(r.buf) <= MaxLen
    /\ ~r.polling /\ ~r.finished => Starved(d)
    /\ r.finished => ~r.polling /\ r.buf = <<>> /\ (r.torn = 0 => n = Len(src))

Serving(r, d, f, g, src) ==
    \E Y, T, c, n, i :
        /\ Whole(T, Y, src) /\ ReadsAt(d, Y, T, src, c, n, i)
        /\ Supplied(r, d, f, Y, c) /\ Serves(g, r.buf, src, n) /\ Waits(r, d, src, n)

MovedAt(c, a, b, size, pos, all, whole) ==
    /\ (c + (a + size)) + (b - size) = pos /\ c + (a + size) <= all /\ c + (a + size) <= whole
    /\ \A k \in 1 .. a + size : ~(k <= a) => /\ k - a \in 1 .. size /\ k - a \in 1 .. b
                                            /\ (c + a) + (k - a) = c + k /\ c + k \in 1 .. all
    /\ \A k \in 1 .. b - size : size + k \in 1 .. b /\ (c + a) + (size + k) = (c + (a + size)) + k

-----------------------------------------------------------------------------
(* Both together.                                                          *)

\* The source is compressed, and then the file is served.
Trip ==
    /\ HsInv
    /\ IF logReader.on THEN caller.at = "done" /\ Serving(logReader, dec, file, got, source)
       ELSE Compressing /\ Unread

-----------------------------------------------------------------------------
(* The buffers: nothing is written beyond their ends.                      *)

\* At most a byte has been written.
AtMostOneMore(p, o) == p = o \/ \E byte : p = Append(o, byte)

\* A reference is within the window, as far as it has been read.
Reaches(d) ==
    /\ d.output_count <= Lookahead /\ d.output_index <= Window
    /\ d.state = "backref_index_lsb" => d.output_index + Pow2[LowBits] <= Window

\* What Trip leaves open: where the bytes come from, and the bounds.
Fits ==
    /\ source \in Seq(Alphabet)
    /\ caller \in [at: {"read", "poll", "finish", "poll_rest", "done"}, left: Seq(Alphabet)]
    /\ enc \in Encoder /\ out \in Seq(Byte) /\ Len(out) <= OutSize
    /\ Reaches(dec)
=============================================================================
