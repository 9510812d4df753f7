------------------------------ MODULE LogProofs ------------------------------
(***************************************************************************)
(* Proofs about the log.  Part 1 is about its files (DataLogger): what is  *)
(* written is kept, and a download misses nothing, for any number of       *)
(* lines, files, requests and power cuts.  Parts 2 and 3 are about their   *)
(* compression (Heatshrink), for every size of the window, of the          *)
(* lookahead and of the buffers and for every source: Part 2 about the     *)
(* protocol of the encoder with the loop that feeds it, Part 3 about what  *)
(* is served of a compressed file, which is its source.  Part 1 shares no  *)
(* state with the others.                                                  *)
(***************************************************************************)
EXTENDS DataLogger, HeatshrinkInvariant, SequenceTheorems, WellFoundedInduction, TLAPS

(***************************************************************************)
(* Part 1: the files.                                                      *)
(***************************************************************************)

-----------------------------------------------------------------------------
(* The records a handler works on. A line is any number here, and bulk,    *)
(* the list of what a delete-all has still to delete, is whatever it is.   *)

Compressors == [on: BOOLEAN, src: ({"raw"} \X Clock) \cup {Gone}, pos: Nat, held: Seq(Nat),
                inputDone: BOOLEAN]
Loggers(b) ==
    [wired: BOOLEAN, fsReady: BOOLEAN, buffer: Seq(Nat), currentFileSize: Nat,
     rotationPending: BOOLEAN, pending: Clock, compress: Compressors,
     bulkDeletePending: BOOLEAN, bulk: {b}]
Readers == [on: BOOLEAN, path: Path \cup {Gone}, pos: Nat, tail: Seq(Nat), got: SUBSET Nat,
            want: SUBSET Nat]
Hists == [last: Nat, owed: SUBSET Nat, early: SUBSET Nat]
Dirs == UNION {[D -> Seq(Nat)] : D \in SUBSET Path}
Mem(b) == [f: Dirs, l: Loggers(b), r: Readers, clock: Clock, due: SUBSET {"flush", "limits"},
           h: Hists]
Typed(s) == s \in Mem(s.l.bulk)

LEMMA PathsAre ==
    /\ Current \in Path /\ Gone \notin Path
    /\ \A n \in Clock : Raw(n) \in Path /\ Hs(n) \in Path /\ Raw(n) \in {"raw"} \X Clock
    /\ \A n : Hs(n) \notin ({"raw"} \X Clock) \cup {Gone}
    /\ \A n, m : Raw(n) # Hs(m) /\ Raw(n) # Current /\ Hs(n) # Current /\ Raw(n) # Gone
    /\ \A n : Raw(n)[2] = n /\ Hs(n)[2] = n /\ Hs(n)[1] = "hs" /\ Raw(n)[1] # "hs"
    /\ Current[1] # "hs" /\ Gone[1] # "hs"
BY DEF Current, Gone, Path, Raw, Hs

LEMMA ConcatSet ==
    ASSUME NEW a \in Seq(Nat), NEW b \in Seq(Nat)
    PROVE  a \o b \in Seq(Nat) /\ ToSet(a \o b) = ToSet(a) \cup ToSet(b)
<1>1. /\ a \o b \in Seq(Nat) /\ DOMAIN (a \o b) = 1 .. Len(a) + Len(b)
      /\ \A i \in 1 .. Len(a) + Len(b) : (a \o b)[i] = IF i <= Len(a) THEN a[i] ELSE b[i - Len(a)]
  BY ConcatProperties
<1>2. DOMAIN a = 1 .. Len(a) /\ DOMAIN b = 1 .. Len(b) /\ Len(a) \in Nat /\ Len(b) \in Nat
  OBVIOUS
<1>3. ASSUME NEW i \in DOMAIN (a \o b)
      PROVE  (a \o b)[i] \in ToSet(a) \cup ToSet(b)
  <2>1. CASE i <= Len(a)
    BY <1>1, <1>2, <2>1 DEF ToSet
  <2>2. CASE ~(i <= Len(a))
    <3>1. i - Len(a) \in DOMAIN b
      BY <1>1, <1>2, <2>2
    <3>2. QED
      BY <1>1, <1>2, <2>2, <3>1 DEF ToSet
  <2>3. QED
    BY <2>1, <2>2
<1>4. ASSUME NEW i \in DOMAIN a
      PROVE  a[i] \in ToSet(a \o b)
  <2>1. i \in DOMAIN (a \o b) /\ (a \o b)[i] = a[i]
    BY <1>1, <1>2
  <2>2. QED
    BY <2>1 DEF ToSet
<1>5. ASSUME NEW i \in DOMAIN b
      PROVE  b[i] \in ToSet(a \o b)
  <2>1. i + Len(a) \in DOMAIN (a \o b) /\ (a \o b)[i + Len(a)] = b[i]
    <3> DEFINE c == a \o b
               j == i + Len(a)
    <3>1. j \in 1 .. Len(a) + Len(b) /\ ~(j <= Len(a)) /\ j - Len(a) = i
      BY <1>2
    <3> HIDE DEF c, j
    <3>2. j \in DOMAIN c /\ c[j] = b[i]
      BY <1>1, <3>1 DEF c
    <3>3. QED
      BY <3>2 DEF c, j
  <2>2. QED
    BY <2>1 DEF ToSet
<1>6. QED
  BY <1>1, <1>3, <1>4, <1>5 DEF ToSet

LEMMA EmptySet == ToSet(<<>>) = {} /\ <<>> \in Seq(Nat)
BY DEF ToSet

LEMMA OneSet == \A n \in Nat : ToSet(<<n>>) = {n} /\ <<n>> \in Seq(Nat)
BY DEF ToSet

LEMMA ContentIs ==
    ASSUME NEW s, Typed(s), NEW p
    PROVE  Content(s, p) \in Seq(Nat) /\ (p \notin DOMAIN s.f => Content(s, p) = <<>>)
<1>1. PICK D \in SUBSET Path : s.f \in [D -> Seq(Nat)]
  BY DEF Typed, Mem, Dirs
<1>2. QED
  BY <1>1 DEF Content, Exists

-----------------------------------------------------------------------------
(* What the file system does to the record s: u is what it leaves.         *)

\* An open file that is removed or renamed.
Unhooked(c, p) == [c EXCEPT !.src = IF c.src = p THEN Gone ELSE c.src]
Moved(r, p, q) == [r EXCEPT !.path = IF r.path = p THEN q ELSE r.path]

Removed(s, u, p) ==
    /\ Typed(u)
    /\ DOMAIN u.f = DOMAIN s.f \ {p}
    /\ \A q : Content(u, q) = IF q = p THEN <<>> ELSE Content(s, q)
    /\ u.r = Moved(s.r, p, Gone)
    /\ u.l = [s.l EXCEPT !.compress = Unhooked(s.l.compress, p)]
    /\ u.clock = s.clock /\ u.due = s.due /\ u.h = s.h

LEMMA RemoveIs ==
    ASSUME NEW s, Typed(s), NEW p
    PROVE  Removed(s, RemoveFile(s, p), p)
<1> DEFINE u == RemoveFile(s, p)
           f == [q \in DOMAIN s.f \ {p} |-> s.f[q]]
           r == [s.r EXCEPT !.path = IF s.r.path = p THEN Gone ELSE s.r.path]
           c == [s.l.compress EXCEPT !.src = IF s.l.compress.src = p THEN Gone ELSE s.l.compress.src]
           l == [s.l EXCEPT !.compress = c]
<1>1. u = [s EXCEPT !.f = f, !.r = r, !.l = l]
  BY DEF RemoveFile, Typed, Mem, Loggers, Readers
<1>2. f \in Dirs /\ DOMAIN f = DOMAIN s.f \ {p} /\ \A q \in DOMAIN f : f[q] = s.f[q]
  <2>1. PICK D \in SUBSET Path : s.f \in [D -> Seq(Nat)]
    BY DEF Typed, Mem, Dirs
  <2>2. f \in [D \ {p} -> Seq(Nat)] /\ D \ {p} \in SUBSET Path
    BY <2>1
  <2>3. QED
    BY <2>1, <2>2 DEF Dirs
<1>3. c \in Compressors
  BY DEF Typed, Mem, Loggers, Compressors
<1>4. r \in Readers
  BY DEF Typed, Mem, Readers
<1> HIDE DEF c, f, r
<1>5. l \in Loggers(l.bulk)
  BY <1>3 DEF Typed, Mem, Loggers
<1> HIDE DEF l, u
<1>6. u.f = f /\ u.r = r /\ u.l = l /\ u.clock = s.clock /\ u.due = s.due /\ u.h = s.h
  BY <1>1 DEF Typed, Mem
<1>7. Typed(u)
  BY <1>1, <1>2, <1>4, <1>5, <1>6 DEF Typed, Mem
<1>8. \A q : Content(u, q) = IF q = p THEN <<>> ELSE Content(s, q)
  BY <1>2, <1>6 DEF Content, Exists
<1>9. QED
  BY <1>2, <1>6, <1>7, <1>8 DEF u, f, r, c, l, Removed, Unhooked, Moved

Written(s, u, p, lines) ==
    /\ Typed(u)
    /\ DOMAIN u.f = DOMAIN s.f \cup {p}
    /\ \A q : Content(u, q) = IF q = p THEN lines ELSE Content(s, q)
    /\ u.r = s.r /\ u.l = s.l /\ u.clock = s.clock /\ u.due = s.due /\ u.h = s.h

LEMMA WriteIs ==
    ASSUME NEW s, Typed(s), NEW p \in Path, NEW lines \in Seq(Nat)
    PROVE  Written(s, Write(s, p, lines), p, lines)
<1> DEFINE u == Write(s, p, lines)
           f == [q \in DOMAIN s.f \cup {p} |-> IF q = p THEN lines ELSE s.f[q]]
<1>1. u = [s EXCEPT !.f = f]
  BY DEF Write
<1>2. f \in Dirs
  <2>1. PICK D \in SUBSET Path : s.f \in [D -> Seq(Nat)]
    BY DEF Typed, Mem, Dirs
  <2>2. f \in [D \cup {p} -> Seq(Nat)] /\ D \cup {p} \in SUBSET Path
    BY <2>1
  <2>3. QED
    BY <2>2 DEF Dirs
<1>3. DOMAIN f = DOMAIN s.f \cup {p} /\ \A q \in DOMAIN f : f[q] = IF q = p THEN lines ELSE s.f[q]
  OBVIOUS
<1> HIDE DEF f, u
<1>4. u.f = f /\ u.r = s.r /\ u.l = s.l /\ u.clock = s.clock /\ u.due = s.due /\ u.h = s.h
  BY <1>1 DEF Typed, Mem
<1>5. Typed(u)
  BY <1>1, <1>2, <1>4 DEF Typed, Mem
<1>6. \A q : Content(u, q) = IF q = p THEN lines ELSE Content(s, q)
  BY <1>3, <1>4 DEF Content, Exists
<1>7. QED
  BY <1>3, <1>4, <1>5, <1>6 DEF u, Written

Renamed(s, u, p, q) ==
    /\ Typed(u)
    /\ DOMAIN u.f = (DOMAIN s.f \ {p}) \cup {q}
    /\ \A x : Content(u, x) = IF x = q THEN Content(s, p)
                              ELSE IF x = p THEN <<>> ELSE Content(s, x)
    /\ u.r = Moved(s.r, p, q)
    /\ u.l = s.l /\ u.clock = s.clock /\ u.due = s.due /\ u.h = s.h

LEMMA RenameIs ==
    ASSUME NEW s, Typed(s), NEW p \in DOMAIN s.f, NEW q \in Path \ DOMAIN s.f
    PROVE  Renamed(s, Rename(s, p, q), p, q)
<1> DEFINE u == Rename(s, p, q)
           f == [x \in (DOMAIN s.f \ {p}) \cup {q} |-> IF x = q THEN s.f[p] ELSE s.f[x]]
           r == [s.r EXCEPT !.path = IF s.r.path = p THEN q ELSE s.r.path]
<1>1. u = [s EXCEPT !.f = f, !.r = r]
  BY DEF Rename, Exists, Typed, Mem, Readers
<1>2. f \in Dirs
  <2>1. PICK D \in SUBSET Path : s.f \in [D -> Seq(Nat)]
    BY DEF Typed, Mem, Dirs
  <2>2. f \in [(D \ {p}) \cup {q} -> Seq(Nat)] /\ (D \ {p}) \cup {q} \in SUBSET Path
    BY <2>1
  <2>3. QED
    BY <2>2 DEF Dirs
<1>3. r \in Readers
  BY DEF Typed, Mem, Readers
<1>4. DOMAIN f = (DOMAIN s.f \ {p}) \cup {q}
      /\ \A x \in DOMAIN f : f[x] = IF x = q THEN s.f[p] ELSE s.f[x]
  OBVIOUS
<1> HIDE DEF f, r, u
<1>5. u.f = f /\ u.r = r /\ u.l = s.l /\ u.clock = s.clock /\ u.due = s.due /\ u.h = s.h
  BY <1>1 DEF Typed, Mem
<1>6. Typed(u)
  BY <1>1, <1>2, <1>3, <1>5 DEF Typed, Mem
<1>7. \A x : Content(u, x) = IF x = q THEN Content(s, p) ELSE IF x = p THEN <<>> ELSE Content(s, x)
  BY <1>4, <1>5 DEF Content, Exists
<1>8. QED
  BY <1>4, <1>5, <1>6, <1>7 DEF u, r, Renamed, Moved

-----------------------------------------------------------------------------
(* The invariant of FlushedIsKept. While a file is compressed, the lines   *)
(* read so far are in its destination or in the encoder; that is all that  *)
(* is left of them once the source is removed.                             *)

Src(s) == Raw(s.l.pending)
Dst(s) == Hs(s.l.pending)
Lines(s, p) == ToSet(Content(s, p))
InFile(s, n) == \E p \in Path : n \in Lines(s, p)
InEncoder(s, n) == s.l.compress.on /\ n \in ToSet(s.l.compress.held)

\* Lines and archives are numbered upwards: the name of the next archive is free.
Numbered(s) ==
    /\ s.h.last <= MaxLines /\ s.clock + Len(s.l.buffer) <= s.h.last + 1
    /\ \A p \in DOMAIN s.f : p = Current \/ p[2] < s.clock
    /\ s.l.compress.on \/ s.l.rotationPending => s.l.pending < s.clock
    /\ s.l.rotationPending => ~s.l.compress.on /\ Dst(s) \notin DOMAIN s.f

\* A line in memory is in no file yet.
Fresh(s) ==
    /\ \A n : InFile(s, n) \/ InEncoder(s, n) => n <= s.h.last /\ n \notin ToSet(s.l.buffer)
    /\ \A n \in ToSet(s.l.buffer) : n <= s.h.last

Out(s) == Lines(s, Dst(s)) \cup ToSet(s.l.compress.held)
\* The source is open unless it was removed.
SrcKnown(s) == s.l.compress.src = IF Src(s) \in DOMAIN s.f THEN Src(s) ELSE Gone
\* What was read of the source was put out, unless there is nowhere to put it.
ReadOn(s) ==
    LET c == s.l.compress
        src == Content(s, c.src)
    IN  /\ c.inputDone => c.pos >= Len(src)
        /\ Dst(s) \in DOMAIN s.f => \A i \in DOMAIN src : i <= c.pos => src[i] \in Out(s)
\* Nothing is put out that is not in the source, and once either is removed, of both
\* nothing is owed any more.
Safe(s) ==
    LET c == s.l.compress
    IN  /\ c.src # Gone => Out(s) \subseteq Lines(s, c.src)
        /\ c.src = Gone \/ Dst(s) \notin DOMAIN s.f
             => s.h.owed \cap (Lines(s, c.src) \cup Out(s)) = {}

Copied(s) == s.l.compress.on => SrcKnown(s) /\ ReadOn(s) /\ Safe(s)
Kept(s) == \A n \in s.h.owed : InFile(s, n)
Sound(s) == Typed(s) /\ Numbered(s) /\ Fresh(s) /\ Copied(s) /\ Kept(s)

LEMMA SameSound ==
    ASSUME NEW s, Sound(s), NEW u, Typed(u), u.f = s.f, u.l.compress = s.l.compress,
           u.l.pending = s.l.pending, u.l.rotationPending = s.l.rotationPending,
           u.l.buffer = s.l.buffer, u.clock = s.clock, u.h.last = s.h.last, u.h.owed = s.h.owed
    PROVE  Sound(u)
<1>1. \A p : Content(u, p) = Content(s, p)
  BY DEF Content, Exists
<1>2. \A p : Lines(u, p) = Lines(s, p)
  BY <1>1 DEF Lines
<1>3. \A n : (InFile(u, n) <=> InFile(s, n)) /\ (InEncoder(u, n) <=> InEncoder(s, n))
  BY <1>2 DEF InFile, InEncoder
<1>4. Src(u) = Src(s) /\ Dst(u) = Dst(s)
  BY DEF Src, Dst
<1>5. Numbered(u)
  BY <1>4 DEF Sound, Numbered
<1>6. Fresh(u)
  BY <1>3 DEF Sound, Fresh
<1>7. Copied(u)
  BY <1>1, <1>2, <1>4 DEF Sound, Copied, SrcKnown, ReadOn, Safe, Out
<1>8. Kept(u)
  BY <1>3 DEF Sound, Kept
<1>9. QED
  BY <1>5, <1>6, <1>7, <1>8 DEF Sound

-----------------------------------------------------------------------------
(* Deletion, by a request or by the limits.                                *)

Deleted(s, u, p) ==
    /\ Typed(u)
    /\ DOMAIN u.f = DOMAIN s.f \ {p}
    /\ \A q : Content(u, q) = IF q = p THEN <<>> ELSE Content(s, q)
    /\ u.r = [Moved(s.r, p, Gone) EXCEPT !.want = s.r.want \ LinesOf(s, p)]
    /\ u.l = [s.l EXCEPT !.compress = Unhooked(s.l.compress, p)]
    /\ u.clock = s.clock /\ u.due = s.due
    /\ u.h = [s.h EXCEPT !.owed = s.h.owed \ LinesOf(s, p)]

LEMMA DeleteIs ==
    ASSUME NEW s, Typed(s), NEW p
    PROVE  Deleted(s, Delete(s, p), p)
<1> DEFINE L == LinesOf(s, p)
           h == [s.h EXCEPT !.owed = s.h.owed \ L]
           r == [s.r EXCEPT !.want = s.r.want \ L]
           v == [s EXCEPT !.h = h, !.r = r]
<1>1. v = [s EXCEPT !.h.owed = @ \ L, !.r.want = @ \ L]
  BY DEF Typed, Mem
<1>2. h \in Hists /\ r \in Readers
  BY DEF Typed, Mem, Hists, Readers
<1>3. Delete(s, p) = RemoveFile(v, p)
  BY <1>1 DEF Delete
<1>4. r.path = s.r.path
  BY DEF Typed, Mem, Readers
<1> HIDE DEF h, r, L
<1>5. v.f = s.f /\ v.l = s.l /\ v.r = r /\ v.h = h /\ v.clock = s.clock /\ v.due = s.due
  BY DEF Typed, Mem
<1>6. Typed(v)
  BY <1>2, <1>5 DEF Typed, Mem
<1>7. \A q : Content(v, q) = Content(s, q)
  BY <1>5 DEF Content, Exists
<1> HIDE DEF v
<1>8. Moved(r, p, Gone) = [Moved(s.r, p, Gone) EXCEPT !.want = s.r.want \ L]
  BY <1>4 DEF r, Typed, Mem, Readers, Moved
<1>9. Removed(v, RemoveFile(v, p), p)
  BY <1>6, RemoveIs
<1>10. QED
  BY <1>3, <1>5, <1>7, <1>8, <1>9 DEF h, L, Removed, Deleted

LEMMA DeleteSound ==
    ASSUME NEW s, Sound(s), NEW p
    PROVE  Sound(Delete(s, p))
<1> DEFINE u == Delete(s, p)
           c == s.l.compress
           d == u.l.compress
<1>0. Deleted(s, u, p)
  BY DeleteIs DEF Sound
<1>1. /\ Typed(u) /\ DOMAIN u.f = DOMAIN s.f \ {p}
      /\ \A q : Content(u, q) = IF q = p THEN <<>> ELSE Content(s, q)
      /\ u.l = [s.l EXCEPT !.compress = Unhooked(c, p)]
      /\ u.clock = s.clock /\ u.h = [s.h EXCEPT !.owed = s.h.owed \ LinesOf(s, p)]
  BY <1>0 DEF Deleted
<1> HIDE DEF u
<1>2. /\ u.l.buffer = s.l.buffer /\ u.l.pending = s.l.pending
      /\ u.l.rotationPending = s.l.rotationPending
      /\ d.on = c.on /\ d.held = c.held /\ d.pos = c.pos /\ d.inputDone = c.inputDone
      /\ d.src = (IF c.src = p THEN Gone ELSE c.src)
      /\ u.h.last = s.h.last /\ u.h.owed = s.h.owed \ LinesOf(s, p)
  <2> DEFINE e == [c EXCEPT !.src = IF c.src = p THEN Gone ELSE c.src]
  <2>1. s.l \in Loggers(s.l.bulk) /\ c \in Compressors /\ s.h \in Hists
    BY DEF Sound, Typed, Mem, Loggers
  <2>2. /\ e.on = c.on /\ e.held = c.held /\ e.pos = c.pos /\ e.inputDone = c.inputDone
        /\ e.src = (IF c.src = p THEN Gone ELSE c.src)
    BY <2>1 DEF Compressors
  <2>3. u.l = [s.l EXCEPT !.compress = e]
    BY <1>1 DEF Unhooked
  <2> HIDE DEF e, c
  <2>4. /\ u.l.buffer = s.l.buffer /\ u.l.pending = s.l.pending
        /\ u.l.rotationPending = s.l.rotationPending /\ u.l.compress = e
    BY <2>1, <2>3 DEF Loggers
  <2>5. u.h.last = s.h.last /\ u.h.owed = s.h.owed \ LinesOf(s, p)
    BY <1>1, <2>1 DEF Hists
  <2>6. QED
    BY <2>2, <2>4, <2>5
<1> HIDE DEF c, d
<1>3. \A q : Lines(u, q) = IF q = p THEN {} ELSE Lines(s, q)
  BY <1>1, EmptySet DEF Lines
<1>4. Src(u) = Src(s) /\ Dst(u) = Dst(s) /\ Src(s) # Dst(s) /\ Src(s) # Gone
  BY <1>2, PathsAre DEF Src, Dst
<1>5. Numbered(u)
  BY <1>1, <1>2, <1>4 DEF Sound, Numbered, c, d
<1>6. Fresh(u)
  <2>1. \A n : InFile(u, n) => InFile(s, n)
    BY <1>3 DEF InFile
  <2>2. \A n : InEncoder(u, n) => InEncoder(s, n)
    BY <1>2 DEF InEncoder, c, d
  <2>3. QED
    BY <1>2, <2>1, <2>2 DEF Sound, Fresh
<1>7. Kept(u)
  <2>1. ASSUME NEW n \in u.h.owed
        PROVE  InFile(u, n)
    <3>1. n \in s.h.owed /\ n \notin Lines(s, p)
      BY <1>2, <2>1 DEF LinesOf, Lines
    <3>2. PICK q \in Path : n \in Lines(s, q)
      BY <3>1 DEF Sound, Kept, InFile
    <3>3. QED
      BY <1>3, <3>1, <3>2 DEF InFile
  <2>2. QED
    BY <2>1 DEF Kept
<1>8. ASSUME c.on
      PROVE  SrcKnown(u) /\ ReadOn(u) /\ Safe(u)
  <2>1. SrcKnown(s) /\ ReadOn(s) /\ Safe(s)
    BY <1>8 DEF Sound, Copied, c
  <2>2. Content(s, Gone) = <<>> /\ Lines(s, Gone) = {} /\ Content(u, Gone) = <<>> /\ Lines(u, Gone) = {}
    <3>1. \A v : Typed(v) => Gone \notin DOMAIN v.f
      <4> SUFFICES ASSUME NEW v, Typed(v) PROVE Gone \notin DOMAIN v.f
        OBVIOUS
      <4>1. PICK D \in SUBSET Path : v.f \in [D -> Seq(Nat)]
        BY DEF Typed, Mem, Dirs
      <4>2. QED
        BY <4>1, PathsAre
    <3>2. QED
      BY <1>1, <3>1, ContentIs, EmptySet DEF Sound, Lines
  <2>3. SrcKnown(u)
    BY <1>1, <1>2, <1>4, <2>1 DEF SrcKnown, c, d
  <2>4. Lines(s, p) \subseteq LinesOf(s, p) /\ (p = Dst(s) => Lines(s, c.src) \subseteq LinesOf(s, p))
    BY <1>8 DEF LinesOf, Lines, Dst, c
  <2>5. Out(u) = IF p = Dst(s) THEN ToSet(c.held) ELSE Out(s)
    BY <1>2, <1>3, <1>4 DEF Out, c, d
  <2>6. Content(u, d.src) = IF c.src = p THEN <<>> ELSE Content(s, c.src)
    BY <1>1, <1>2, <2>2
  <2>7. Lines(u, d.src) = IF c.src = p THEN {} ELSE Lines(s, c.src)
    BY <2>6, EmptySet DEF Lines
  <2>8. ReadOn(u)
    <3>1. d.inputDone => d.pos >= Len(Content(u, d.src))
      <4>1. c.pos \in Nat /\ Len(<<>>) = 0
        BY DEF Sound, Typed, Mem, Loggers, Compressors, c
      <4>2. QED
        BY <1>2, <2>1, <2>6, <4>1 DEF ReadOn, c
    <3>2. ASSUME Dst(u) \in DOMAIN u.f, NEW i \in DOMAIN Content(u, d.src), i <= d.pos
          PROVE  Content(u, d.src)[i] \in Out(u)
      <4>1. p # Dst(s) /\ Dst(s) \in DOMAIN s.f
        BY <1>1, <1>4, <3>2
      <4>2. c.src # p
        BY <2>6, <3>2
      <4>3. QED
        BY <1>2, <2>1, <2>5, <2>6, <3>2, <4>1, <4>2 DEF ReadOn, c
    <3>3. QED
      BY <3>1, <3>2 DEF ReadOn, d
  <2>9. Safe(u)
    <3>1. d.src # Gone => Out(u) \subseteq Lines(u, d.src)
      BY <1>2, <2>1, <2>5, <2>7 DEF Safe, Out, c
    <3>2. ASSUME d.src = Gone \/ Dst(u) \notin DOMAIN u.f
          PROVE  u.h.owed \cap (Lines(u, d.src) \cup Out(u)) = {}
      <4>1. Lines(u, d.src) \cup Out(u) \subseteq Lines(s, c.src) \cup Out(s)
        BY <2>5, <2>7 DEF Out, c
      <4>2. CASE c.src = Gone \/ Dst(s) \notin DOMAIN s.f
        BY <1>2, <2>1, <4>1, <4>2 DEF Safe, c
      <4>3. CASE c.src # Gone /\ Dst(s) \in DOMAIN s.f
        <5>1. Out(s) \subseteq Lines(s, c.src)
          BY <2>1, <4>3 DEF Safe, c
        <5>2. c.src = p \/ p = Dst(s)
          BY <1>1, <1>2, <1>4, <3>2, <4>3
        <5>3. Lines(s, c.src) \subseteq LinesOf(s, p)
          BY <2>4, <5>2
        <5>4. QED
          BY <1>2, <4>1, <5>1, <5>3
      <4>4. QED
        BY <4>2, <4>3
    <3>3. QED
      BY <3>1, <3>2 DEF Safe, d
  <2>10. QED
    BY <2>3, <2>8, <2>9
<1>9. QED
  BY <1>1, <1>2, <1>5, <1>6, <1>7, <1>8 DEF Sound, Copied, u, c, d

-----------------------------------------------------------------------------
(* flushBuffer().                                                          *)

LEMMA PathsOf == ASSUME NEW s, Typed(s) PROVE DOMAIN s.f \subseteq Path
<1>1. PICK D \in SUBSET Path : s.f \in [D -> Seq(Nat)]
  BY DEF Typed, Mem, Dirs
<1>2. QED
  BY <1>1

LEMMA ClockIs ==
    /\ Clock \subseteq Nat /\ MaxLines \in Nat
    /\ \A n \in Clock : n <= MaxLines => n + 1 \in Clock
BY BoundsAssumption DEF Clock

\* What a flush appends is in the current file, and in no other place.
Appended(s, u) ==
    /\ Typed(u)
    /\ DOMAIN u.f = DOMAIN s.f \cup {Current}
    /\ \A q : Content(u, q) = IF q = Current THEN Content(s, Current) \o s.l.buffer ELSE Content(s, q)
    /\ u.r = s.r /\ u.clock = s.clock
    /\ u.l.buffer = <<>> /\ u.l.pending = s.l.pending
    /\ u.l.rotationPending = s.l.rotationPending /\ u.l.compress = s.l.compress
    /\ u.h.last = s.h.last /\ u.h.owed = s.h.owed \cup ToSet(s.l.buffer)

AppendBuffer(s) ==
    [Write(s, Current, Content(s, Current) \o s.l.buffer) EXCEPT
        !.l.currentFileSize = @ + Len(s.l.buffer), !.l.buffer = <<>>,
        !.due = @ \ {"flush"}, !.h.owed = @ \cup ToSet(s.l.buffer)]

LEMMA AppendIs ==
    ASSUME NEW s, Typed(s)
    PROVE  Appended(s, AppendBuffer(s))
<1> DEFINE lines == Content(s, Current) \o s.l.buffer
           w == Write(s, Current, lines)
           l == [w.l EXCEPT !.currentFileSize = w.l.currentFileSize + Len(s.l.buffer), !.buffer = <<>>]
           h == [w.h EXCEPT !.owed = w.h.owed \cup ToSet(s.l.buffer)]
           u == AppendBuffer(s)
<1>1. s.l.buffer \in Seq(Nat) /\ ToSet(s.l.buffer) \subseteq Nat /\ Len(s.l.buffer) \in Nat
  BY DEF Typed, Mem, Loggers, ToSet
<1>2. lines \in Seq(Nat)
  BY <1>1, ConcatSet, ContentIs
<1> HIDE DEF lines
<1>3. Written(s, w, Current, lines)
  BY <1>2, WriteIs, PathsAre
<1>4. w \in Mem(w.l.bulk)
  BY <1>3 DEF Written, Typed
<1>5. u = [w EXCEPT !.l = l, !.due = w.due \ {"flush"}, !.h = h]
  BY <1>4 DEF AppendBuffer, lines, Mem, Loggers
<1>6. l \in Loggers(l.bulk) /\ l.buffer = <<>> /\ l.pending = w.l.pending
      /\ l.rotationPending = w.l.rotationPending /\ l.compress = w.l.compress
  <2> HIDE DEF w
  <2>1. w.l \in Loggers(w.l.bulk)
    BY <1>4 DEF Mem
  <2>2. w.l.currentFileSize + Len(s.l.buffer) \in Nat /\ <<>> \in Seq(Nat)
    BY <1>1, <2>1, EmptySet DEF Loggers
  <2>3. QED
    BY <2>1, <2>2 DEF Loggers
<1>7. h \in Hists /\ h.last = w.h.last /\ h.owed = w.h.owed \cup ToSet(s.l.buffer)
  BY <1>1, <1>4 DEF Mem, Hists
<1> HIDE DEF w, l, h, u
<1>8. /\ u.f = w.f /\ u.r = w.r /\ u.clock = w.clock /\ u.l = l /\ u.h = h
      /\ u.due = w.due \ {"flush"}
  BY <1>4, <1>5 DEF Mem
<1>9. Typed(u)
  BY <1>4, <1>5, <1>6, <1>7, <1>8 DEF Mem, Typed
<1>10. \A q : Content(u, q) = Content(w, q)
  BY <1>8 DEF Content, Exists
<1>11. QED
  BY <1>3, <1>6, <1>7, <1>8, <1>9, <1>10 DEF Appended, Written, u, lines

LEMMA AppendSound ==
    ASSUME NEW s, Sound(s), NEW u, Appended(s, u)
    PROVE  Sound(u)
<1> DEFINE b == ToSet(s.l.buffer)
<1>1. /\ s.l.buffer \in Seq(Nat) /\ Content(s, Current) \in Seq(Nat)
      /\ Len(s.l.buffer) \in Nat /\ Len(<<>>) = 0 /\ s.clock \in Nat /\ s.h.last \in Nat
  BY ContentIs, ClockIs DEF Sound, Typed, Mem, Loggers, Hists
<1>2. \A q : Lines(u, q) = IF q = Current THEN Lines(s, Current) \cup b ELSE Lines(s, q)
  <2>1. ToSet(Content(s, Current) \o s.l.buffer) = ToSet(Content(s, Current)) \cup b
    BY <1>1, ConcatSet
  <2>2. QED
    BY <2>1 DEF Appended, Lines
<1>3. \A n : InFile(u, n) <=> InFile(s, n) \/ n \in b
  BY <1>2, PathsAre DEF InFile
<1>4. /\ Src(u) = Src(s) /\ Dst(u) = Dst(s) /\ Src(s) # Current /\ Dst(s) # Current
      /\ Gone # Current
  BY PathsAre DEF Appended, Src, Dst
<1>5. Numbered(u)
  <2>1. \A p \in DOMAIN u.f : p = Current \/ p \in DOMAIN s.f
    BY DEF Appended
  <2>2. Numbered(s)
    BY DEF Sound
  <2>3. u.clock + Len(u.l.buffer) <= u.h.last + 1
    BY <1>1, <2>2 DEF Numbered, Appended
  <2>4. Dst(s) \notin DOMAIN s.f => Dst(u) \notin DOMAIN u.f
    BY <1>4 DEF Appended
  <2>5. QED
    BY <2>1, <2>2, <2>3, <2>4 DEF Numbered, Appended
<1>6. Fresh(u)
  <2>1. \A n : InEncoder(u, n) <=> InEncoder(s, n)
    BY DEF Appended, InEncoder
  <2>2. ToSet(u.l.buffer) = {}
    BY EmptySet DEF Appended
  <2>3. QED
    BY <1>3, <2>1, <2>2 DEF Fresh, Sound, Appended
<1>7. Kept(u)
  BY <1>3 DEF Kept, Sound, Appended
<1>8. ASSUME s.l.compress.on
      PROVE  SrcKnown(u) /\ ReadOn(u) /\ Safe(u)
  <2>1. SrcKnown(s) /\ ReadOn(s) /\ Safe(s) /\ Fresh(s)
    BY <1>8 DEF Sound, Copied
  <2>2. /\ s.l.compress.src \in {Src(s), Gone} /\ u.l.compress = s.l.compress
        /\ s.l.compress.src # Current
    BY <1>4, <2>1 DEF SrcKnown, Appended
  <2>3. Out(u) = Out(s) /\ Content(u, s.l.compress.src) = Content(s, s.l.compress.src)
    BY <1>2, <1>4, <2>2 DEF Out, Appended
  <2>4. Lines(u, s.l.compress.src) = Lines(s, s.l.compress.src)
    BY <2>3 DEF Lines
  <2>5. /\ Src(u) \in DOMAIN u.f <=> Src(s) \in DOMAIN s.f
        /\ (Dst(u) \in DOMAIN u.f <=> Dst(s) \in DOMAIN s.f)
    BY <1>4 DEF Appended
  <2>6. b \cap (Lines(s, s.l.compress.src) \cup Out(s)) = {}
    <3>1. ASSUME NEW n \in Lines(s, s.l.compress.src) \cup Out(s)
          PROVE  n \notin b
      <4>1. CASE n \in ToSet(s.l.compress.held)
        BY <1>8, <2>1, <4>1 DEF Fresh, InEncoder
      <4>2. CASE n \in Lines(s, s.l.compress.src) \/ n \in Lines(s, Dst(s))
        <5>1. \A q : Lines(s, q) # {} => q \in Path
          BY ContentIs, PathsOf, EmptySet DEF Sound, Lines
        <5>2. InFile(s, n)
          BY <4>2, <5>1 DEF InFile
        <5>3. QED
          BY <2>1, <5>2 DEF Fresh
      <4>3. QED
        BY <3>1, <4>1, <4>2 DEF Out
    <3>2. QED
      BY <3>1
  <2>7. u.h.owed = s.h.owed \cup b
    BY DEF Appended
  <2>8. SrcKnown(u)
    BY <1>4, <2>1, <2>2, <2>5 DEF SrcKnown
  <2>9. ReadOn(u)
    BY <2>1, <2>2, <2>3, <2>5 DEF ReadOn
  <2> HIDE DEF b
  <2>10. Safe(u)
    BY <2>1, <2>2, <2>3, <2>4, <2>5, <2>6, <2>7 DEF Safe
  <2>11. QED
    BY <2>8, <2>9, <2>10
<1>9. QED
  BY <1>5, <1>6, <1>7, <1>8 DEF Sound, Copied, Appended

\* A full current file is renamed, unless the name is taken.
Rotated(s, u) ==
    /\ Typed(u)
    /\ IF Raw(s.clock) \in DOMAIN s.f THEN u.f = s.f /\ u.r = s.r
       ELSE /\ DOMAIN u.f = (DOMAIN s.f \ {Current}) \cup {Raw(s.clock)}
            /\ \A q : Content(u, q) = IF q = Raw(s.clock) THEN Content(s, Current)
                                      ELSE IF q = Current THEN <<>> ELSE Content(s, q)
            /\ u.r = Moved(s.r, Current, Raw(s.clock))
    /\ u.clock = IF s.clock \in Line THEN s.clock + 1 ELSE s.clock
    /\ u.l.buffer = s.l.buffer /\ u.l.pending = s.clock
    /\ u.l.rotationPending /\ ~s.l.compress.on /\ u.l.compress = s.l.compress
    /\ u.h = s.h

LEMMA RotateIs ==
    ASSUME NEW s, Typed(s), Current \in DOMAIN s.f
    PROVE  Rotate(s) = s \/ Rotated(s, Rotate(s))
<1> DEFINE q == Raw(s.clock)
           w == Rename(s, Current, q)
           l == [w.l EXCEPT !.pending = s.clock, !.currentFileSize = 0, !.rotationPending = TRUE]
           k == IF w.clock \in Line THEN w.clock + 1 ELSE w.clock
           u == Rotate(s)
<1> SUFFICES ASSUME s.l.currentFileSize >= MaxFileSize, ~s.l.rotationPending, ~s.l.compress.on
             PROVE  Rotated(s, u)
  BY DEF Rotate
<1>1. q \in Path /\ s.clock \in Clock
  BY PathsAre DEF Typed, Mem
<1>2. IF q \in DOMAIN s.f THEN w = s ELSE Renamed(s, w, Current, q)
  <2>1. CASE q \in DOMAIN s.f
    BY <2>1 DEF Rename, Exists
  <2>2. CASE q \notin DOMAIN s.f
    BY <1>1, <2>2, RenameIs
  <2>3. QED
    BY <2>1, <2>2
<1>3. w \in Mem(w.l.bulk) /\ w.l = s.l /\ w.clock = s.clock /\ w.h = s.h
  BY <1>2 DEF Renamed, Typed
<1>4. u = [w EXCEPT !.l = l, !.clock = k]
  <2>1. u = [w EXCEPT !.l.pending = s.clock, !.l.currentFileSize = 0, !.l.rotationPending = TRUE,
                      !.clock = k]
    BY <1>3 DEF Rotate, Mem
  <2> HIDE DEF w, k, u
  <2>2. QED
    BY <1>3, <2>1 DEF Mem
<1>5. k \in Clock
  BY <1>1, <1>3, ClockIs DEF Line
<1> HIDE DEF w
<1>6. /\ l \in Loggers(l.bulk) /\ l.pending = s.clock /\ l.rotationPending
      /\ l.buffer = s.l.buffer /\ l.compress = s.l.compress
  <2>1. w.l \in Loggers(w.l.bulk)
    BY <1>3 DEF Mem
  <2>2. QED
    BY <1>1, <1>3, <2>1 DEF Loggers
<1> HIDE DEF l, k, u
<1>7. u.f = w.f /\ u.r = w.r /\ u.due = w.due /\ u.h = w.h /\ u.l = l /\ u.clock = k
  BY <1>3, <1>4 DEF Mem
<1>8. Typed(u)
  BY <1>3, <1>4, <1>5, <1>6, <1>7 DEF Mem, Typed
<1>9. \A x : Content(u, x) = Content(w, x)
  BY <1>7 DEF Content, Exists
<1>10. u.clock = IF s.clock \in Line THEN s.clock + 1 ELSE s.clock
  BY <1>3, <1>7 DEF k
<1>11. CASE q \in DOMAIN s.f
  <2>1. u.f = s.f /\ u.r = s.r
    BY <1>2, <1>7, <1>11
  <2>2. QED
    BY <1>3, <1>6, <1>7, <1>8, <1>10, <1>11, <2>1 DEF Rotated, u
<1>12. CASE q \notin DOMAIN s.f
  <2>1. /\ DOMAIN u.f = (DOMAIN s.f \ {Current}) \cup {q} /\ u.r = Moved(s.r, Current, q)
        /\ \A x : Content(u, x) = IF x = q THEN Content(s, Current)
                                  ELSE IF x = Current THEN <<>> ELSE Content(s, x)
    BY <1>2, <1>7, <1>9, <1>12 DEF Renamed
  <2>2. QED
    BY <1>3, <1>6, <1>7, <1>8, <1>10, <1>12, <2>1 DEF Rotated, u
<1>13. QED
  BY <1>11, <1>12

LEMMA RotateSound ==
    ASSUME NEW s, Sound(s), Current \in DOMAIN s.f, s.l.buffer = <<>>, s.clock <= s.h.last,
           NEW u, Rotated(s, u)
    PROVE  Sound(u)
<1> DEFINE q == Raw(s.clock)
<1>1. /\ s.clock \in Nat /\ s.h.last \in Nat /\ s.h.last <= MaxLines /\ s.clock >= 1 /\ Len(<<>>) = 0
      /\ \A p \in DOMAIN s.f : p = Current \/ p[2] < s.clock
  BY BoundsAssumption DEF Sound, Typed, Mem, Hists, Numbered, Clock
<1>2. s.clock \in Line /\ u.clock = s.clock + 1
  BY <1>1, BoundsAssumption DEF Line, Rotated
<1>3. q \notin DOMAIN s.f /\ Hs(s.clock) \notin DOMAIN s.f /\ q \in Path /\ Current \in Path /\ q # Current
      /\ Hs(s.clock) # q
  <2>1. q[2] = s.clock /\ Hs(s.clock)[2] = s.clock /\ q # Current /\ Hs(s.clock) # Current
    BY PathsAre
  <2>2. q \in Path /\ Current \in Path /\ Hs(s.clock) # q
    BY PathsAre DEF Sound, Typed, Mem
  <2> HIDE DEF q
  <2>3. QED
    BY <1>1, <2>1, <2>2
<1> HIDE DEF q
<1>4. /\ Typed(u) /\ DOMAIN u.f = (DOMAIN s.f \ {Current}) \cup {q}
      /\ \A x : Content(u, x) = IF x = q THEN Content(s, Current)
                                ELSE IF x = Current THEN <<>> ELSE Content(s, x)
      /\ u.l.buffer = s.l.buffer /\ u.l.pending = s.clock /\ u.l.rotationPending
      /\ u.l.compress = s.l.compress /\ ~s.l.compress.on /\ u.h = s.h
  BY <1>3 DEF Rotated, q
<1>5. Content(s, q) = <<>>
  BY <1>3, ContentIs DEF Sound
<1>6. \A x : Lines(u, x) = IF x = q THEN Lines(s, Current)
                           ELSE IF x = Current THEN {} ELSE Lines(s, x)
  BY <1>4, EmptySet DEF Lines
<1>7. Lines(s, q) = {}
  BY <1>5, EmptySet DEF Lines
<1>8. \A n : InFile(u, n) <=> InFile(s, n)
  BY <1>3, <1>6, <1>7 DEF InFile
<1>9. \A n : ~InEncoder(u, n)
  BY <1>4 DEF InEncoder
<1>10. Numbered(u)
  <2>1. \A p \in DOMAIN u.f : p = Current \/ p[2] < u.clock
    <3>1. q[2] = s.clock
      BY PathsAre DEF q
    <3>2. \A p \in DOMAIN s.f : p # Current => p[2] < s.clock + 1
      <4>1. SUFFICES ASSUME NEW p \in DOMAIN s.f, p # Current
                     PROVE  p[2] < s.clock + 1
        OBVIOUS
      <4>2. p \in {"raw", "hs"} \X Clock
        BY <4>1, PathsOf DEF Sound, Path
      <4>3. p[2] \in Nat
        BY <4>2, ClockIs
      <4>4. QED
        BY <1>1, <4>1, <4>3
    <3>3. QED
      BY <1>1, <1>2, <1>4, <3>1, <3>2
  <2>2. u.h.last <= MaxLines /\ u.clock + Len(u.l.buffer) <= u.h.last + 1
    BY <1>1, <1>2, <1>4
  <2>3. Dst(u) \notin DOMAIN u.f /\ u.l.pending < u.clock
    BY <1>1, <1>2, <1>3, <1>4 DEF Dst
  <2>4. QED
    BY <1>4, <2>1, <2>2, <2>3 DEF Numbered
<1>11. Fresh(u)
  BY <1>4, <1>8, <1>9 DEF Sound, Fresh
<1>12. Copied(u)
  BY <1>4 DEF Copied
<1>13. Kept(u)
  BY <1>4, <1>8 DEF Sound, Kept
<1>14. QED
  BY <1>4, <1>10, <1>11, <1>12, <1>13 DEF Sound

\* flushBuffer(): what it appends, and then perhaps a rotation.
LEMMA FlushIs ==
    ASSUME NEW s, Typed(s)
    PROVE  \/ FlushBuffer(s) = s
           \/ /\ s.l.buffer # <<>>
              /\ LET w == AppendBuffer(s)
                 IN  Appended(s, w) /\ (FlushBuffer(s) = w \/ Rotated(w, FlushBuffer(s)))
<1> DEFINE w == AppendBuffer(s)
<1>1. Appended(s, w)
  BY AppendIs
<1>2. Typed(w) /\ Current \in DOMAIN w.f
  BY <1>1 DEF Appended
<1>3. FlushBuffer(s) = s \/ (s.l.buffer # <<>> /\ FlushBuffer(s) = Rotate(w))
  BY DEF FlushBuffer, AppendBuffer
<1> HIDE DEF w
<1>4. Rotate(w) = w \/ Rotated(w, Rotate(w))
  BY <1>2, RotateIs
<1>5. QED
  BY <1>1, <1>3, <1>4 DEF w

LEMMA FlushSound ==
    ASSUME NEW s, Sound(s)
    PROVE  Sound(FlushBuffer(s))
<1> DEFINE w == AppendBuffer(s)
<1>1. CASE FlushBuffer(s) = s
  BY <1>1
<1>2. ASSUME s.l.buffer # <<>>, Appended(s, w), FlushBuffer(s) = w \/ Rotated(w, FlushBuffer(s))
      PROVE  Sound(FlushBuffer(s))
  <2> HIDE DEF w
  <2>1. Sound(w)
    BY <1>2, AppendSound
  <2>2. Current \in DOMAIN w.f /\ w.l.buffer = <<>>
    BY <1>2 DEF Appended
  <2>3. w.clock <= w.h.last
    <3>1. Len(s.l.buffer) \in Nat \ {0}
      <4>1. s.l.buffer \in Seq(Nat)
        BY DEF Sound, Typed, Mem, Loggers
      <4>2. QED
        BY <1>2, <4>1, EmptySeq
    <3>2. s.clock + Len(s.l.buffer) <= s.h.last + 1 /\ s.clock \in Nat /\ s.h.last \in Nat
      BY ClockIs DEF Sound, Numbered, Typed, Mem, Hists
    <3>3. w.clock = s.clock /\ w.h.last = s.h.last
      BY <1>2 DEF Appended
    <3>4. QED
      BY <3>1, <3>2, <3>3
  <2>4. QED
    BY <1>2, <2>1, <2>2, <2>3, RotateSound
<1>3. QED
  BY <1>1, <1>2, FlushIs DEF Sound

-----------------------------------------------------------------------------
(* Compression.                                                            *)

\* The archive that waits is opened for compression.
Begun(s, u) ==
    /\ Typed(u) /\ ~s.l.compress.on /\ s.l.rotationPending /\ Src(s) \in DOMAIN s.f
    /\ DOMAIN u.f = DOMAIN s.f \cup {Dst(s)}
    /\ \A q : Content(u, q) = IF q = Dst(s) THEN <<>> ELSE Content(s, q)
    /\ u.r = s.r /\ u.clock = s.clock /\ u.h = s.h
    /\ u.l.buffer = s.l.buffer /\ u.l.pending = s.l.pending /\ ~u.l.rotationPending
    /\ LET c == u.l.compress
       IN  c.on /\ c.src = Src(s) /\ c.pos = 0 /\ c.held = <<>> /\ ~c.inputDone

\* There is nothing to compress.
Skipped(s, u) ==
    /\ Typed(u) /\ ~s.l.compress.on /\ u.f = s.f /\ u.r = s.r /\ u.clock = s.clock /\ u.h = s.h
    /\ u.l.buffer = s.l.buffer /\ u.l.pending = s.l.pending /\ ~u.l.rotationPending
    /\ u.l.compress = s.l.compress

LEMMA StartIs ==
    ASSUME NEW s, Typed(s)
    PROVE  LET u == StartPending(s) IN u = s \/ Begun(s, u) \/ Skipped(s, u)
<1> DEFINE u == StartPending(s)
           c == [NotCompressing EXCEPT !.on = TRUE, !.src = Raw(s.l.pending)]
<1> SUFFICES ASSUME s.l.rotationPending, ~s.l.compress.on
             PROVE  Begun(s, u) \/ Skipped(s, u)
  BY DEF StartPending
<1>1. s.l \in Loggers(s.l.bulk) /\ s \in Mem(s.l.bulk)
  BY DEF Typed, Mem
<1>2. Raw(s.l.pending) \in {"raw"} \X Clock /\ Hs(s.l.pending) \in Path
  BY <1>1, PathsAre DEF Loggers
<1>3. c \in Compressors /\ c.on /\ c.src = Raw(s.l.pending) /\ c.pos = 0 /\ c.held = <<>> /\ ~c.inputDone
  BY <1>2, EmptySet DEF Compressors, NotCompressing
<1> HIDE DEF c
<1>4. CASE Raw(s.l.pending) \in DOMAIN s.f
  <2> DEFINE w == Write(s, Hs(s.l.pending), <<>>)
             l == [w.l EXCEPT !.compress = c, !.rotationPending = FALSE]
  <2>1. Written(s, w, Hs(s.l.pending), <<>>)
    BY <1>2, EmptySet, WriteIs
  <2>2. w \in Mem(w.l.bulk) /\ w.l = s.l
    BY <2>1 DEF Written, Typed
  <2>3. StartCompression(s) = [w EXCEPT !.l.compress = c]
    BY <1>4 DEF StartCompression, Exists, c
  <2> HIDE DEF w
  <2>4. u = [w EXCEPT !.l = l]
    BY <2>2, <2>3 DEF StartPending, Mem, Loggers
  <2>5. /\ l \in Loggers(l.bulk) /\ l.buffer = s.l.buffer /\ l.pending = s.l.pending
        /\ ~l.rotationPending /\ l.compress = c
    BY <1>1, <1>3, <2>2 DEF Loggers
  <2> HIDE DEF l, u
  <2>6. u.f = w.f /\ u.r = w.r /\ u.due = w.due /\ u.h = w.h /\ u.l = l /\ u.clock = w.clock
    BY <2>2, <2>4 DEF Mem
  <2>7. Typed(u)
    BY <2>2, <2>4, <2>5, <2>6 DEF Mem, Typed
  <2>8. \A x : Content(u, x) = Content(w, x)
    BY <2>6 DEF Content, Exists
  <2>9. Begun(s, u)
    BY <1>3, <1>4, <2>1, <2>5, <2>6, <2>7, <2>8 DEF Begun, Written, Src, Dst
  <2>10. QED
    BY <2>9 DEF u
<1>5. CASE Raw(s.l.pending) \notin DOMAIN s.f
  <2> DEFINE l == [s.l EXCEPT !.rotationPending = FALSE]
  <2>1. u = [s EXCEPT !.l = l]
    BY <1>1, <1>5 DEF StartPending, StartCompression, Exists, Mem, Loggers
  <2>2. /\ l \in Loggers(l.bulk) /\ l.buffer = s.l.buffer /\ l.pending = s.l.pending
        /\ ~l.rotationPending /\ l.compress = s.l.compress
    BY <1>1 DEF Loggers
  <2> HIDE DEF l, u
  <2>3. u.f = s.f /\ u.r = s.r /\ u.due = s.due /\ u.h = s.h /\ u.l = l /\ u.clock = s.clock
    BY <1>1, <2>1 DEF Mem
  <2>4. Typed(u)
    BY <1>1, <2>1, <2>2, <2>3 DEF Mem, Typed
  <2>5. Skipped(s, u)
    BY <2>2, <2>3, <2>4 DEF Skipped
  <2>6. QED
    BY <2>5 DEF u
<1>6. QED
  BY <1>4, <1>5

LEMMA BegunSound ==
    ASSUME NEW s, Sound(s), NEW u, Begun(s, u)
    PROVE  Sound(u)
<1>1. /\ Src(u) = Src(s) /\ Dst(u) = Dst(s) /\ Src(s) # Dst(s) /\ Src(s) # Gone
      /\ Src(s) \in DOMAIN u.f /\ Dst(s) \in DOMAIN u.f /\ Dst(s)[2] = s.l.pending
  BY PathsAre DEF Begun, Src, Dst
<1>2. Numbered(s) /\ s.l.pending < s.clock /\ Dst(s) \notin DOMAIN s.f
  BY DEF Sound, Numbered, Begun
<1>3. Content(s, Dst(s)) = <<>>
  BY <1>2, ContentIs DEF Sound
<1>4. \A q : Content(u, q) = Content(s, q)
  BY <1>3 DEF Begun
<1>5. \A q : Lines(u, q) = Lines(s, q)
  BY <1>4 DEF Lines
<1>6. \A n : InFile(u, n) <=> InFile(s, n)
  BY <1>5 DEF InFile
<1>7. \A n : ~InEncoder(u, n)
  BY EmptySet DEF InEncoder, Begun
<1>8. Numbered(u)
  BY <1>1, <1>2 DEF Numbered, Begun
<1>9. Fresh(u)
  BY <1>6, <1>7 DEF Fresh, Sound, Begun
<1>10. Kept(u)
  BY <1>6 DEF Kept, Sound, Begun
<1>11. Copied(u)
  <2>1. u.l.compress.src = Src(s) /\ u.l.compress.pos = 0 /\ ~u.l.compress.inputDone
    BY DEF Begun
  <2>2. Out(u) = {}
    <3>1. Lines(u, Dst(u)) = {} /\ ToSet(u.l.compress.held) = {}
      BY <1>1, EmptySet DEF Lines, Begun
    <3>2. QED
      BY <3>1 DEF Out
  <2>3. SrcKnown(u)
    BY <1>1, <2>1 DEF SrcKnown
  <2>4. ReadOn(u)
    <3>1. Content(u, Src(s)) \in Seq(Nat)
      BY ContentIs DEF Begun
    <3>2. \A i \in DOMAIN Content(u, Src(s)) : ~(i <= 0)
      BY <3>1
    <3>3. QED
      BY <2>1, <3>2 DEF ReadOn
  <2>5. Safe(u)
    BY <1>1, <2>1, <2>2 DEF Safe
  <2>6. QED
    BY <2>3, <2>4, <2>5 DEF Copied
<1>12. QED
  BY <1>8, <1>9, <1>10, <1>11 DEF Sound, Begun

LEMMA StartSound ==
    ASSUME NEW s, Sound(s)
    PROVE  Sound(StartPending(s))
<1> DEFINE u == StartPending(s)
<1>1. u = s \/ Begun(s, u) \/ Skipped(s, u)
  BY StartIs DEF Sound
<1> HIDE DEF u
<1>2. ASSUME Skipped(s, u)
      PROVE  Sound(u)
  <2>1. /\ \A q : Content(u, q) = Content(s, q)
        /\ \A q : Lines(u, q) = Lines(s, q)
    BY <1>2 DEF Skipped, Content, Exists, Lines
  <2>2. \A n : (InFile(u, n) <=> InFile(s, n)) /\ ~InEncoder(u, n)
    BY <1>2, <2>1 DEF Skipped, InFile, InEncoder
  <2>3. Numbered(u)
    BY <1>2 DEF Numbered, Sound, Skipped
  <2>4. Fresh(u)
    BY <1>2, <2>2 DEF Fresh, Sound, Skipped
  <2>5. Kept(u) /\ Copied(u)
    BY <1>2, <2>2 DEF Kept, Copied, Sound, Skipped
  <2>6. QED
    BY <1>2, <2>3, <2>4, <2>5 DEF Sound, Skipped
<1>3. QED
  BY <1>1, <1>2, BegunSound DEF u

\* What the encoder holds goes to the destination, if that is there.
Put(s, u) ==
    /\ Typed(u) /\ DOMAIN u.f = DOMAIN s.f
    /\ \A q : Content(u, q) = IF q = Dst(s) /\ q \in DOMAIN s.f
                              THEN Content(s, q) \o s.l.compress.held ELSE Content(s, q)
    /\ u.r = s.r /\ u.clock = s.clock /\ u.h = s.h
    /\ u.l.buffer = s.l.buffer /\ u.l.pending = s.l.pending
    /\ u.l.rotationPending = s.l.rotationPending
    /\ LET c == s.l.compress
           d == u.l.compress
       IN  d.on = c.on /\ d.src = c.src /\ d.pos = c.pos /\ d.inputDone = c.inputDone /\ d.held = <<>>

LEMMA PutIs ==
    ASSUME NEW s, Typed(s)
    PROVE  Put(s, Output(s))
<1> DEFINE dst == Hs(s.l.pending)
           w == IF Exists(s, dst) THEN Write(s, dst, s.f[dst] \o s.l.compress.held) ELSE s
           c == [s.l.compress EXCEPT !.held = <<>>]
           l == [w.l EXCEPT !.compress = c]
           u == Output(s)
<1>1. /\ s.l \in Loggers(s.l.bulk) /\ s \in Mem(s.l.bulk) /\ s.l.compress \in Compressors
      /\ s.l.compress.held \in Seq(Nat)
  BY DEF Typed, Mem, Loggers, Compressors
<1>2. dst \in Path /\ Content(s, dst) \in Seq(Nat)
  BY <1>1, PathsAre, ContentIs DEF Loggers
<1>3. c \in Compressors /\ c.on = s.l.compress.on /\ c.src = s.l.compress.src
      /\ c.pos = s.l.compress.pos /\ c.inputDone = s.l.compress.inputDone /\ c.held = <<>>
  BY <1>1, EmptySet DEF Compressors
<1>4. /\ w \in Mem(w.l.bulk) /\ w.l = s.l /\ w.r = s.r /\ w.clock = s.clock /\ w.h = s.h
      /\ DOMAIN w.f = DOMAIN s.f
      /\ \A q : Content(w, q) = IF q = dst /\ q \in DOMAIN s.f
                                THEN Content(s, q) \o s.l.compress.held ELSE Content(s, q)
  <2>1. CASE dst \in DOMAIN s.f
    <3> DEFINE lines == Content(s, dst) \o s.l.compress.held
    <3>1. lines \in Seq(Nat)
      BY <1>1, <1>2, ConcatSet
    <3>2. w = Write(s, dst, lines)
      BY <2>1 DEF Exists, Content
    <3> HIDE DEF lines, w
    <3>3. Written(s, w, dst, lines)
      BY <1>2, <3>1, <3>2, WriteIs
    <3>4. QED
      BY <2>1, <3>3 DEF Written, Typed, lines
  <2>2. CASE dst \notin DOMAIN s.f
    <3>1. w = s
      BY <2>2 DEF Exists
    <3> HIDE DEF w, dst
    <3>2. QED
      BY <1>1, <2>2, <3>1
  <2>3. QED
    BY <2>1, <2>2
<1>5. u = [w EXCEPT !.l.compress.held = <<>>]
  BY DEF Output
<1> HIDE DEF w
<1>6. u = [w EXCEPT !.l = l]
  BY <1>4, <1>5 DEF Mem
<1> HIDE DEF c
<1>7. /\ l \in Loggers(l.bulk) /\ l.buffer = s.l.buffer /\ l.pending = s.l.pending
      /\ l.rotationPending = s.l.rotationPending /\ l.compress = c
  BY <1>1, <1>3, <1>4 DEF Loggers
<1> HIDE DEF l, u
<1>8. u.f = w.f /\ u.r = w.r /\ u.due = w.due /\ u.h = w.h /\ u.l = l /\ u.clock = w.clock
  BY <1>4, <1>6 DEF Mem
<1>9. Typed(u)
  BY <1>4, <1>6, <1>7, <1>8 DEF Mem, Typed
<1>10. \A x : Content(u, x) = Content(w, x)
  BY <1>8 DEF Content, Exists
<1>11. QED
  BY <1>3, <1>4, <1>7, <1>8, <1>9, <1>10 DEF Put, Dst, u

\* The next line of the source is read, or there is none.
Fed(s, u) ==
    LET c == s.l.compress
        src == Content(s, c.src)
        d == u.l.compress
    IN  /\ Typed(u) /\ u.f = s.f /\ u.r = s.r /\ u.clock = s.clock /\ u.h = s.h
        /\ u.l.buffer = s.l.buffer /\ u.l.pending = s.l.pending
        /\ u.l.rotationPending = s.l.rotationPending
        /\ d.on = c.on /\ d.src = c.src
        /\ IF c.pos < Len(src)
           THEN /\ c.held = <<>> /\ d.pos = c.pos + 1 /\ d.held = <<src[c.pos + 1]>>
                /\ d.inputDone = c.inputDone
           ELSE d.pos = c.pos /\ d.held = c.held /\ d.inputDone

LEMMA FedIs ==
    ASSUME NEW s, Typed(s)
    PROVE  \/ Fed(s, Chunk(s))
           \/ Put(s, Output(s)) /\ Fed(Output(s), Chunk(s))
<1> DEFINE c == s.l.compress
           src == Content(s, c.src)
           w == Output(s)
           u == Chunk(s)
<1>1. Put(s, w)
  BY PutIs
<1>2. c \in Compressors /\ c.pos \in Nat /\ s.l \in Loggers(s.l.bulk) /\ s \in Mem(s.l.bulk)
  BY DEF Typed, Mem, Loggers, Compressors
<1>3. src \in Seq(Nat)
  BY ContentIs
<1>0. c.src # Dst(s)
  BY <1>2, PathsAre DEF Compressors, Dst
<1>4. CASE c.pos < Len(src)
  <2> DEFINE x == src[c.pos + 1]
             k == w.l.compress
             d == [k EXCEPT !.pos = k.pos + 1, !.held = <<x>>]
             l == [w.l EXCEPT !.compress = d]
  <2> HIDE DEF src
  <2>1. c.src \in DOMAIN s.f
    BY <1>4, <1>2, ContentIs DEF src
  <2>2. u = [w EXCEPT !.l.compress.pos = @ + 1, !.l.compress.held = <<x>>]
    BY <1>4, <2>1 DEF Chunk, src, Content, Exists
  <2> HIDE DEF u, w
  <2>3. w \in Mem(w.l.bulk) /\ w.l \in Loggers(w.l.bulk) /\ k \in Compressors
    BY <1>1 DEF Put, Typed, Mem, Loggers
  <2>4. u = [w EXCEPT !.l = l]
    BY <2>2, <2>3 DEF Mem, Loggers
  <2>5. x \in Nat
    BY <1>2, <1>3, <1>4
  <2> HIDE DEF x
  <2> HIDE DEF k
  <2>6. /\ d \in Compressors /\ d.on = k.on /\ d.src = k.src
        /\ d.pos = k.pos + 1 /\ d.held = <<x>> /\ d.inputDone = k.inputDone
    <3>1. <<x>> \in Seq(Nat) /\ k.pos + 1 \in Nat
      BY <2>3, <2>5, OneSet DEF Compressors
    <3>2. QED
      BY <2>3, <3>1 DEF Compressors
  <2> HIDE DEF d
  <2>7. /\ l \in Loggers(l.bulk) /\ l.buffer = w.l.buffer /\ l.pending = w.l.pending
        /\ l.rotationPending = w.l.rotationPending /\ l.compress = d
    BY <2>3, <2>6 DEF Loggers
  <2> HIDE DEF l
  <2>8. u.f = w.f /\ u.r = w.r /\ u.due = w.due /\ u.h = w.h /\ u.l = l /\ u.clock = w.clock
    BY <2>3, <2>4 DEF Mem
  <2>9. Typed(u)
    BY <2>3, <2>4, <2>7, <2>8 DEF Mem, Typed
  <2>10. w.l.compress.src = c.src /\ w.l.compress.pos = c.pos /\ Content(w, c.src) = src
         /\ w.l.compress.held = <<>>
    BY <1>0, <1>1 DEF Put, src
  <2>11. Fed(w, u)
    BY <1>4, <2>6, <2>7, <2>8, <2>9, <2>10 DEF Fed, x, k
  <2>12. QED
    BY <1>1, <2>11 DEF u, w
<1>5. CASE ~(c.pos < Len(src))
  <2> DEFINE d == [c EXCEPT !.inputDone = TRUE]
             l == [s.l EXCEPT !.compress = d]
  <2>1. u = [s EXCEPT !.l = l]
    BY <1>2, <1>5 DEF Chunk, Mem, Loggers
  <2>2. /\ d \in Compressors /\ d.on = c.on /\ d.src = c.src /\ d.pos = c.pos /\ d.held = c.held
        /\ d.inputDone
    BY <1>2 DEF Compressors
  <2> HIDE DEF d
  <2>3. /\ l \in Loggers(l.bulk) /\ l.buffer = s.l.buffer /\ l.pending = s.l.pending
        /\ l.rotationPending = s.l.rotationPending /\ l.compress = d
    BY <1>2, <2>2 DEF Loggers
  <2> HIDE DEF l, u
  <2>4. u.f = s.f /\ u.r = s.r /\ u.due = s.due /\ u.h = s.h /\ u.l = l /\ u.clock = s.clock
    BY <1>2, <2>1 DEF Mem
  <2>5. Typed(u)
    BY <1>2, <2>1, <2>3, <2>4 DEF Mem, Typed
  <2>6. Fed(s, u)
    BY <1>5, <2>2, <2>3, <2>4, <2>5 DEF Fed
  <2>7. QED
    BY <2>6 DEF u
<1>6. QED
  BY <1>4, <1>5

\* The source is removed and the compression is over.
Finished(s, u) ==
    /\ Typed(u) /\ DOMAIN u.f = DOMAIN s.f \ {Src(s)}
    /\ \A q : Content(u, q) = IF q = Src(s) THEN <<>> ELSE Content(s, q)
    /\ u.r = Moved(s.r, Src(s), Gone) /\ u.clock = s.clock /\ u.h = s.h
    /\ u.l.buffer = s.l.buffer /\ u.l.pending = s.l.pending
    /\ u.l.rotationPending = s.l.rotationPending /\ ~u.l.compress.on

LEMMA FinishIs ==
    ASSUME NEW s, Typed(s)
    PROVE  Finished(s, Compressed(s))
<1> DEFINE w == RemoveFile(s, Raw(s.l.pending))
           l == [w.l EXCEPT !.compress = NotCompressing]
           u == Compressed(s)
<1>1. Removed(s, w, Src(s))
  BY RemoveIs DEF Src
<1>2. u = [w EXCEPT !.l.compress = NotCompressing]
  BY DEF Compressed
<1> HIDE DEF w, u
<1>3. w \in Mem(w.l.bulk) /\ w.l \in Loggers(w.l.bulk)
  BY <1>1 DEF Removed, Typed, Mem
<1>4. u = [w EXCEPT !.l = l]
  BY <1>2, <1>3 DEF Mem
<1>5. NotCompressing \in Compressors /\ ~NotCompressing.on
  BY EmptySet DEF NotCompressing, Compressors
<1>6. /\ l \in Loggers(l.bulk) /\ l.buffer = w.l.buffer /\ l.pending = w.l.pending
      /\ l.rotationPending = w.l.rotationPending /\ l.compress = NotCompressing
  BY <1>3, <1>5 DEF Loggers
<1>7. /\ w.l.buffer = s.l.buffer /\ w.l.pending = s.l.pending
      /\ w.l.rotationPending = s.l.rotationPending
  <2>1. s.l \in Loggers(s.l.bulk) /\ w.l = [s.l EXCEPT !.compress = Unhooked(s.l.compress, Src(s))]
    BY <1>1 DEF Removed, Typed, Mem
  <2>2. QED
    BY <2>1 DEF Loggers
<1> HIDE DEF l
<1>8. u.f = w.f /\ u.r = w.r /\ u.due = w.due /\ u.h = w.h /\ u.l = l /\ u.clock = w.clock
  BY <1>3, <1>4 DEF Mem
<1>9. Typed(u)
  BY <1>3, <1>4, <1>6, <1>8 DEF Mem, Typed
<1>10. \A x : Content(u, x) = Content(w, x)
  BY <1>8 DEF Content, Exists
<1>11. QED
  BY <1>1, <1>5, <1>6, <1>7, <1>8, <1>9, <1>10 DEF Finished, Removed, u

LEMMA NoLinesOutside ==
    ASSUME NEW s, Typed(s)
    PROVE  \A q : Lines(s, q) # {} => q \in DOMAIN s.f /\ q \in Path
BY ContentIs, PathsOf, EmptySet DEF Lines

LEMMA PutSound ==
    ASSUME NEW s, Sound(s), s.l.compress.on, NEW u, Put(s, u)
    PROVE  Sound(u)
<1> DEFINE c == s.l.compress
           d == u.l.compress
           held == ToSet(c.held)
           dst == Dst(s)
<1>1. /\ Typed(u) /\ DOMAIN u.f = DOMAIN s.f /\ u.clock = s.clock /\ u.h = s.h
      /\ u.l.buffer = s.l.buffer /\ u.l.pending = s.l.pending
      /\ u.l.rotationPending = s.l.rotationPending
      /\ d.on /\ d.src = c.src /\ d.pos = c.pos /\ d.inputDone = c.inputDone /\ d.held = <<>>
      /\ Src(u) = Src(s) /\ Dst(u) = dst
  BY DEF Put, Src, Dst
<1>2. SrcKnown(s) /\ ReadOn(s) /\ Safe(s)
  BY DEF Sound, Copied
<1>3. c.src # dst /\ dst \in Path
  BY PathsAre DEF Sound, Typed, Mem, Loggers, Compressors, Dst
<1>4. \A q : Content(u, q) = IF q = dst /\ q \in DOMAIN s.f THEN Content(s, q) \o c.held ELSE Content(s, q)
  BY DEF Put
<1>5. \A q : Lines(u, q) = IF q = dst /\ q \in DOMAIN s.f THEN Lines(s, q) \cup held ELSE Lines(s, q)
  <2>1. c.held \in Seq(Nat) /\ Content(s, dst) \in Seq(Nat)
    BY ContentIs DEF Sound, Typed, Mem, Loggers, Compressors
  <2>2. ToSet(Content(s, dst) \o c.held) = ToSet(Content(s, dst)) \cup held
    BY <2>1, ConcatSet
  <2> HIDE DEF dst, c
  <2>3. QED
    BY <1>4, <2>2 DEF Lines
<1>6. Content(u, c.src) = Content(s, c.src) /\ Lines(u, c.src) = Lines(s, c.src)
  BY <1>3, <1>4 DEF Lines
<1> HIDE DEF dst, d
<1>7. ToSet(d.held) = {}
  BY <1>1, EmptySet
<1>8. Out(u) = IF dst \in DOMAIN s.f THEN Out(s) ELSE Lines(s, dst)
  BY <1>1, <1>5, <1>7 DEF Out, d, dst
<1>9. \A n : InFile(u, n) => InFile(s, n) \/ InEncoder(s, n)
  BY <1>5 DEF InFile, InEncoder
<1>10. \A n : InFile(s, n) => InFile(u, n)
  BY <1>5 DEF InFile
<1>11. Numbered(u)
  BY <1>1 DEF Sound, Numbered, d, dst
<1>12. Fresh(u)
  BY <1>1, <1>7, <1>9 DEF Sound, Fresh, InEncoder, d
<1>13. Kept(u)
  BY <1>1, <1>10 DEF Sound, Kept
<1>14. ReadOn(u)
  <2>1. d.inputDone => d.pos >= Len(Content(u, d.src))
    BY <1>1, <1>2, <1>6 DEF ReadOn
  <2>2. ASSUME Dst(u) \in DOMAIN u.f, NEW i \in DOMAIN Content(u, d.src), i <= d.pos
        PROVE  Content(u, d.src)[i] \in Out(u)
    BY <1>1, <1>2, <1>6, <1>8, <2>2 DEF ReadOn, dst
  <2>3. QED
    BY <2>1, <2>2 DEF ReadOn, d
<1>15. SrcKnown(u)
  BY <1>1, <1>2 DEF SrcKnown, d
<1>16. Safe(u)
  <2>1. Out(u) \subseteq Out(s)
    BY <1>8 DEF Out, dst
  <2>2. (Dst(u) \notin DOMAIN u.f <=> Dst(s) \notin DOMAIN s.f) /\ u.h.owed = s.h.owed
    BY <1>1 DEF dst
  <2>3. QED
    BY <1>1, <1>2, <1>6, <2>1, <2>2 DEF Safe, d
<1>17. QED
  BY <1>1, <1>11, <1>12, <1>13, <1>14, <1>15, <1>16 DEF Sound, Copied

LEMMA FedSound ==
    ASSUME NEW s, Sound(s), s.l.compress.on, NEW u, Fed(s, u)
    PROVE  Sound(u)
<1> DEFINE c == s.l.compress
           d == u.l.compress
           src == Content(s, c.src)
<1>1. /\ Typed(u) /\ u.f = s.f /\ u.clock = s.clock /\ u.h = s.h
      /\ u.l.buffer = s.l.buffer /\ u.l.pending = s.l.pending
      /\ u.l.rotationPending = s.l.rotationPending
      /\ d.on /\ d.src = c.src /\ Src(u) = Src(s) /\ Dst(u) = Dst(s)
  BY DEF Fed, Src, Dst
<1>2. SrcKnown(s) /\ ReadOn(s) /\ Safe(s)
  BY DEF Sound, Copied
<1>3. \A q : Content(u, q) = Content(s, q) /\ Lines(u, q) = Lines(s, q)
  BY <1>1 DEF Content, Exists, Lines
<1>4. \A n : InFile(u, n) <=> InFile(s, n)
  BY <1>3 DEF InFile
<1>5. src \in Seq(Nat) /\ c.pos \in Nat /\ Len(src) \in Nat /\ DOMAIN src = 1 .. Len(src)
  <2>1. src \in Seq(Nat) /\ c.pos \in Nat
    BY ContentIs DEF Sound, Typed, Mem, Loggers, Compressors
  <2> HIDE DEF src, c
  <2>2. QED
    BY <2>1
<1>6. Numbered(u) /\ Kept(u) /\ SrcKnown(u)
  BY <1>1, <1>2, <1>4 DEF Sound, Numbered, Kept, SrcKnown
<1>7. CASE c.pos < Len(src)
  <2> DEFINE x == src[c.pos + 1]
  <2>1. d.pos = c.pos + 1 /\ d.held = <<x>> /\ c.held = <<>> /\ d.inputDone = c.inputDone
    BY <1>7 DEF Fed
  <2> HIDE DEF src
  <2>2. c.pos + 1 \in DOMAIN src /\ x \in Nat
    BY <1>5, <1>7
  <2>3. x \in Lines(s, c.src)
    <3>1. x \in ToSet(src)
      BY <2>2 DEF ToSet
    <3>2. QED
      BY <3>1 DEF Lines, src
  <2> HIDE DEF x
  <2>4. ToSet(d.held) = {x} /\ ToSet(c.held) = {}
    BY <2>1, <2>2, OneSet, EmptySet
  <2>5. InFile(s, x)
    BY <2>3, NoLinesOutside DEF Sound, InFile
  <2> HIDE DEF c, d
  <2>6. Out(u) = Out(s) \cup {x}
    BY <1>1, <1>3, <2>4 DEF Out, c, d
  <2>7. Fresh(u)
    <3>1. \A n : InEncoder(u, n) => InFile(s, n)
      BY <2>4, <2>5 DEF InEncoder, d
    <3>2. QED
      BY <1>1, <1>4, <3>1 DEF Sound, Fresh
  <2>8. ReadOn(u)
    <3>1. Content(u, d.src) = src
      BY <1>1, <1>3 DEF src
    <3>2. ~d.inputDone
      BY <1>2, <1>5, <1>7, <2>1 DEF ReadOn, c, src
    <3>3. ASSUME Dst(u) \in DOMAIN u.f, NEW i \in DOMAIN src, i <= d.pos
          PROVE  src[i] \in Out(u)
      <4>1. i = c.pos + 1 \/ i <= c.pos
        BY <1>5, <2>1, <3>3
      <4>2. CASE i = c.pos + 1
        BY <2>6, <4>2 DEF x
      <4>3. CASE i <= c.pos
        BY <1>1, <1>2, <2>6, <3>3, <4>3 DEF ReadOn, c, src
      <4>4. QED
        BY <4>1, <4>2, <4>3
    <3>4. QED
      BY <3>1, <3>2, <3>3 DEF ReadOn, d
  <2>9. Safe(u)
    <3>1. Out(u) \subseteq Out(s) \cup Lines(s, c.src)
      BY <2>3, <2>6
    <3>2. QED
      BY <1>1, <1>2, <1>3, <3>1 DEF Safe, c, d
  <2>10. QED
    BY <1>1, <1>6, <2>7, <2>8, <2>9 DEF Sound, Copied
<1>8. CASE ~(c.pos < Len(src))
  <2>1. d.pos = c.pos /\ d.held = c.held
    BY <1>8 DEF Fed
  <2>2. Out(u) = Out(s)
    BY <1>1, <1>3, <2>1 DEF Out
  <2>3. Fresh(u)
    <3>1. \A n : InEncoder(u, n) <=> InEncoder(s, n)
      BY <1>1, <2>1 DEF InEncoder
    <3>2. QED
      BY <1>1, <1>4, <3>1 DEF Sound, Fresh
  <2>4. ReadOn(u)
    <3>1. Content(u, d.src) = src
      BY <1>1, <1>3
    <3> HIDE DEF src
    <3>2. d.pos >= Len(src)
      BY <1>5, <1>8, <2>1
    <3>3. ASSUME Dst(u) \in DOMAIN u.f, NEW i \in DOMAIN src, i <= d.pos
          PROVE  src[i] \in Out(u)
      BY <1>1, <1>2, <2>1, <2>2, <3>3 DEF ReadOn, src
    <3>4. QED
      BY <3>1, <3>2, <3>3 DEF ReadOn
  <2>5. Safe(u)
    BY <1>1, <1>2, <1>3, <2>2 DEF Safe
  <2>6. QED
    BY <1>1, <1>6, <2>3, <2>4, <2>5 DEF Sound, Copied
<1>9. QED
  BY <1>7, <1>8

\* All of the source is in the destination when the source is removed.
LEMMA FinishSound ==
    ASSUME NEW s, Sound(s), s.l.compress.on, s.l.compress.inputDone, s.l.compress.held = <<>>,
           NEW u, Finished(s, u)
    PROVE  Sound(u)
<1> DEFINE c == s.l.compress
           src == Content(s, c.src)
<1>1. /\ Typed(u) /\ DOMAIN u.f = DOMAIN s.f \ {Src(s)} /\ u.clock = s.clock /\ u.h = s.h
      /\ u.l.buffer = s.l.buffer /\ u.l.pending = s.l.pending
      /\ u.l.rotationPending = s.l.rotationPending /\ ~u.l.compress.on
      /\ Dst(u) = Dst(s) /\ Src(s) # Dst(s)
  BY PathsAre DEF Finished, Src, Dst
<1>2. SrcKnown(s) /\ ReadOn(s) /\ Safe(s)
  BY DEF Sound, Copied
<1>3. \A q : Lines(u, q) = IF q = Src(s) THEN {} ELSE Lines(s, q)
  BY EmptySet DEF Finished, Lines
<1>4. \A n : InFile(u, n) => InFile(s, n)
  BY <1>3 DEF InFile
<1>5. Numbered(u)
  BY <1>1 DEF Sound, Numbered
<1>6. Fresh(u) /\ Copied(u)
  BY <1>1, <1>4 DEF Sound, Fresh, InEncoder, Copied
<1>7. ASSUME NEW n \in s.h.owed
      PROVE  InFile(u, n)
  <2>1. PICK q \in Path : n \in Lines(s, q)
    BY <1>7 DEF Sound, Kept, InFile
  <2>2. CASE q # Src(s)
    BY <1>3, <2>1, <2>2 DEF InFile
  <2>3. CASE q = Src(s)
    <3>1. c.src = q /\ q # Gone
      BY <1>2, <2>1, <2>3, NoLinesOutside, PathsAre DEF SrcKnown, Sound
    <3>2. Dst(s) \in DOMAIN s.f
      BY <1>2, <1>7, <2>1, <3>1 DEF Safe
    <3>3. src \in Seq(Nat) /\ c.pos \in Nat /\ c.pos >= Len(src)
      BY <1>2, ContentIs DEF Sound, Typed, Mem, Loggers, Compressors, ReadOn
    <3>4. PICK i \in DOMAIN src : n = src[i]
      BY <2>1, <3>1 DEF Lines, ToSet
    <3>5. i <= c.pos
      <4> HIDE DEF src, c
      <4>1. QED
        BY <3>3, <3>4
    <3>6. n \in Out(s)
      BY <1>2, <3>2, <3>4, <3>5 DEF ReadOn
    <3>7. n \in Lines(s, Dst(s)) /\ Dst(s) \in Path
      BY <3>2, <3>6, EmptySet, PathsOf DEF Out, Sound
    <3>8. QED
      BY <1>1, <1>3, <3>7 DEF InFile
  <2>4. QED
    BY <2>2, <2>3
<1>8. Kept(u)
  BY <1>1, <1>7 DEF Kept
<1>9. QED
  BY <1>1, <1>5, <1>6, <1>8 DEF Sound

LEMMA CompressStepSound ==
    ASSUME NEW s, Sound(s)
    PROVE  Sound(CompressStep(s))
<1>1. CASE ~s.l.compress.on
  BY <1>1 DEF CompressStep
<1>2. CASE s.l.compress.on /\ s.l.compress.inputDone
  <2> DEFINE w == Output(s)
  <2>1. Put(s, w)
    BY PutIs DEF Sound
  <2>2. CompressStep(s) = Compressed(w)
    BY <1>2 DEF CompressStep
  <2> HIDE DEF w
  <2>3. Sound(w) /\ w.l.compress.on /\ w.l.compress.inputDone /\ w.l.compress.held = <<>>
    BY <1>2, <2>1, PutSound DEF Put
  <2>4. Finished(w, Compressed(w))
    BY <2>3, FinishIs DEF Sound
  <2>5. QED
    BY <2>2, <2>3, <2>4, FinishSound
<1>3. CASE s.l.compress.on /\ ~s.l.compress.inputDone
  <2> DEFINE w == Output(s)
  <2>1. CompressStep(s) = Chunk(s)
    BY <1>3 DEF CompressStep
  <2>2. Fed(s, Chunk(s)) \/ (Put(s, w) /\ Fed(w, Chunk(s)))
    BY FedIs DEF Sound
  <2> HIDE DEF w
  <2>3. CASE Fed(s, Chunk(s))
    BY <1>3, <2>1, <2>3, FedSound
  <2>4. CASE Put(s, w) /\ Fed(w, Chunk(s))
    <3>1. Sound(w) /\ w.l.compress.on
      BY <1>3, <2>4, PutSound DEF Put
    <3>2. QED
      BY <2>1, <2>4, <3>1, FedSound
  <2>5. QED
    BY <2>2, <2>3, <2>4
<1>4. QED
  BY <1>1, <1>2, <1>3

-----------------------------------------------------------------------------
(* The limits, events and requests.                                        *)

LEMMA LoggerSet ==
    ASSUME NEW s, Typed(s), NEW l, l \in Loggers(l.bulk), NEW u, u = [s EXCEPT !.l = l]
    PROVE  /\ Typed(u) /\ u.f = s.f /\ u.l = l /\ u.r = s.r /\ u.clock = s.clock
           /\ u.due = s.due /\ u.h = s.h
BY DEF Typed, Mem

LEMMA HistSet ==
    ASSUME NEW s, Typed(s), NEW h \in Hists, NEW u, u = [s EXCEPT !.h = h]
    PROVE  /\ Typed(u) /\ u.f = s.f /\ u.l = s.l /\ u.r = s.r /\ u.clock = s.clock
           /\ u.due = s.due /\ u.h = h
BY DEF Typed, Mem

LEMMA DueSet ==
    ASSUME NEW s, Typed(s), NEW d \in SUBSET {"flush", "limits"}, NEW u, u = [s EXCEPT !.due = d]
    PROVE  /\ Typed(u) /\ u.f = s.f /\ u.l = s.l /\ u.r = s.r /\ u.clock = s.clock
           /\ u.due = d /\ u.h = s.h
BY DEF Typed, Mem

\* The logger keeps what the invariant is about.
Alike(s, u) ==
    /\ Typed(u) /\ u.f = s.f /\ u.r = s.r /\ u.clock = s.clock
    /\ u.l.compress = s.l.compress /\ u.l.pending = s.l.pending
    /\ u.l.rotationPending = s.l.rotationPending /\ u.l.buffer = s.l.buffer
    /\ u.h.last = s.h.last /\ u.h.owed = s.h.owed

LEMMA LimitedIs ==
    ASSUME NEW s, Typed(s), NEW crowded
    PROVE  \/ Limited(s, crowded) = s \/ Alike(s, Limited(s, crowded))
           \/ \E p : Deleted(s, Delete(s, p), p) /\ Alike(Delete(s, p), Limited(s, crowded))
<1> SUFFICES ASSUME LimitsDue(s)
             PROVE  \/ Alike(s, Limited(s, crowded))
                    \/ \E p : Deleted(s, Delete(s, p), p) /\ Alike(Delete(s, p), Limited(s, crowded))
  BY DEF Limited
<1> DEFINE w == EnforceLimits(s, crowded)
           u == [w EXCEPT !.due = w.due \ {"limits"}]
<1>1. u = Limited(s, crowded)
  BY DEF Limited
<1>2. w = s \/ \E p : w = Delete(s, p)
  BY DEF EnforceLimits
<1> HIDE DEF w
<1>3. \A p : Deleted(s, Delete(s, p), p)
  BY DeleteIs
<1>4. Typed(w)
  BY <1>2, <1>3 DEF Deleted
<1>5. w.due \ {"limits"} \in SUBSET {"flush", "limits"}
  BY <1>4 DEF Typed, Mem
<1>6. Alike(w, u)
  BY <1>4, <1>5, DueSet DEF Alike
<1>7. QED
  BY <1>1, <1>2, <1>3, <1>6

LEMMA BulkIs ==
    ASSUME NEW s, Typed(s)
    PROVE  \/ BulkDelete(s) = s
           \/ \E p : Deleted(s, Delete(s, p), p) /\ Alike(Delete(s, p), BulkDelete(s))
<1> SUFFICES ASSUME s.l.bulkDeletePending, s.l.bulk # <<>>
             PROVE  \E p : Deleted(s, Delete(s, p), p) /\ Alike(Delete(s, p), BulkDelete(s))
  BY DEF BulkDelete
<1> DEFINE p == Last(s.l.bulk)
           w == Delete(s, p)
           more == Len(s.l.bulk) > 1
           rest == Front(w.l.bulk)
           l == [w.l EXCEPT !.bulk = rest, !.bulkDeletePending = more]
           u == BulkDelete(s)
<1>1. Deleted(s, w, p)
  BY DeleteIs
<1>2. u = [w EXCEPT !.l.bulk = Front(@), !.l.bulkDeletePending = more]
  BY DEF BulkDelete
<1>3. more \in BOOLEAN
  OBVIOUS
<1> HIDE DEF p, w, u, more
<1>4. Typed(w) /\ w.l \in Loggers(w.l.bulk)
  BY <1>1 DEF Deleted, Typed, Mem
<1>5. u = [w EXCEPT !.l = l]
  BY <1>2, <1>4 DEF Typed, Mem, Loggers
<1> HIDE DEF rest
<1>6. /\ l \in Loggers(l.bulk) /\ l.buffer = w.l.buffer /\ l.pending = w.l.pending
      /\ l.rotationPending = w.l.rotationPending /\ l.compress = w.l.compress
  BY <1>3, <1>4 DEF Loggers
<1> HIDE DEF l
<1>7. Alike(w, u)
  BY <1>4, <1>5, <1>6, LoggerSet DEF Alike
<1>8. QED
  BY <1>1, <1>7 DEF u, w

LEMMA DeleteAllIs ==
    ASSUME NEW s, Typed(s)
    PROVE  Alike(s, DeleteAllLogs(s))
<1> DEFINE more == s.l.bulkDeletePending \/ Listed(s) # <<>>
           list == Listed(s)
           size == IF Exists(s, Current) THEN 0 ELSE s.l.currentFileSize
           l == [s.l EXCEPT !.bulk = list, !.bulkDeletePending = more, !.currentFileSize = size]
           u == DeleteAllLogs(s)
<1>1. s.l \in Loggers(s.l.bulk)
  BY DEF Typed, Mem
<1>2. u = [s EXCEPT !.l = l]
  BY <1>1 DEF DeleteAllLogs, Typed, Mem, Loggers
<1>3. more \in BOOLEAN /\ size \in Nat
  BY <1>1 DEF Loggers
<1> HIDE DEF more, list, size, u
<1>4. /\ l \in Loggers(l.bulk) /\ l.buffer = s.l.buffer /\ l.pending = s.l.pending
      /\ l.rotationPending = s.l.rotationPending /\ l.compress = s.l.compress
  BY <1>1, <1>3 DEF Loggers
<1> HIDE DEF l
<1>5. Alike(s, u)
  BY <1>2, <1>4, LoggerSet DEF Alike
<1>6. QED
  BY <1>5 DEF u

\* An event is numbered, and perhaps buffered.
Noted(s, u) ==
    /\ Typed(u) /\ u.f = s.f /\ u.r = s.r /\ u.clock = s.clock
    /\ u.l.compress = s.l.compress /\ u.l.pending = s.l.pending
    /\ u.l.rotationPending = s.l.rotationPending
    /\ u.l.buffer = s.l.buffer \/ u.l.buffer = Append(s.l.buffer, s.h.last + 1)
    /\ u.h.last = s.h.last + 1 /\ u.h.owed = s.h.owed

LEMMA LoggedIs ==
    ASSUME NEW s, Typed(s)
    PROVE  Noted(s, Logged(s))
<1> DEFINE n == s.h.last + 1
           h == [s.h EXCEPT !.last = n]
           t == [s EXCEPT !.h = h]
           l == [t.l EXCEPT !.buffer = Append(t.l.buffer, n)]
           u == [t EXCEPT !.l = l]
<1>1. s.h \in Hists /\ n \in Nat
  BY DEF Typed, Mem, Hists
<1>2. t = [s EXCEPT !.h.last = n]
  BY DEF Typed, Mem
<1>3. Logged(s) = t \/ Logged(s) = BufferLine(t, n)
  BY <1>2 DEF Logged
<1>4. h \in Hists /\ h.last = n /\ h.owed = s.h.owed
  BY <1>1 DEF Hists
<1> HIDE DEF n, h
<1>5. Noted(s, t) /\ t.l = s.l /\ Typed(t) /\ t.l \in Loggers(t.l.bulk)
  <2>1. Typed(t) /\ t.f = s.f /\ t.l = s.l /\ t.r = s.r /\ t.clock = s.clock /\ t.h = h
    BY <1>4, HistSet
  <2> HIDE DEF t
  <2>2. QED
    BY <1>4, <2>1 DEF Noted, n, Typed, Mem
<1> HIDE DEF t
<1>6. BufferLine(t, n) = t \/ BufferLine(t, n) = u
  <2>1. u = [t EXCEPT !.l.buffer = Append(@, n)]
    BY <1>5 DEF Typed, Mem
  <2>2. QED
    BY <2>1 DEF BufferLine
<1>7. Noted(s, u)
  <2>1. Append(t.l.buffer, n) \in Seq(Nat)
    BY <1>1, <1>5 DEF Loggers
  <2>2. /\ l \in Loggers(l.bulk) /\ l.buffer = Append(t.l.buffer, n) /\ l.pending = t.l.pending
        /\ l.rotationPending = t.l.rotationPending /\ l.compress = t.l.compress
    BY <1>5, <2>1 DEF Loggers
  <2> HIDE DEF l
  <2>3. Typed(u) /\ u.f = t.f /\ u.l = l /\ u.r = t.r /\ u.clock = t.clock /\ u.h = t.h
    BY <1>5, <2>2, LoggerSet
  <2> HIDE DEF u
  <2>4. QED
    BY <1>5, <2>2, <2>3 DEF Noted, n
<1>8. QED
  BY <1>3, <1>5, <1>6, <1>7

LEMMA NotedSound ==
    ASSUME NEW s, Sound(s), s.h.last < MaxLines, NEW u, Noted(s, u)
    PROVE  Sound(u)
<1> DEFINE n == s.h.last + 1
           b == s.l.buffer
<1>1. /\ b \in Seq(Nat) /\ Len(b) \in Nat /\ s.h.last \in Nat /\ MaxLines \in Nat /\ s.clock \in Nat
  BY ClockIs DEF Sound, Typed, Mem, Loggers, Hists
<1>2. Len(Append(b, n)) = Len(b) + 1 /\ ToSet(Append(b, n)) = ToSet(b) \cup {n}
  <2>1. n \in Nat
    BY <1>1
  <2> HIDE DEF b, n
  <2>2. Append(b, n) = b \o <<n>> /\ <<n>> \in Seq(Nat)
    BY <1>1, <2>1, AppendIsConcat, OneSet
  <2>3. ToSet(b \o <<n>>) = ToSet(b) \cup {n}
    <3> DEFINE e == <<n>>
    <3>1. ToSet(e) = {n} /\ e \in Seq(Nat)
      BY <2>1, OneSet
    <3> HIDE DEF e
    <3>2. ToSet(b \o e) = ToSet(b) \cup ToSet(e)
      BY <1>1, <3>1, ConcatSet
    <3>3. QED
      BY <3>1, <3>2 DEF e
  <2>4. Len(Append(b, n)) = Len(b) + 1
    BY <1>1, <2>1, AppendProperties
  <2>5. QED
    BY <2>2, <2>3, <2>4
<1>12. u.l.buffer = b \/ u.l.buffer = Append(b, n)
  BY DEF Noted
<1> DEFINE a == u.l.buffer
           k == Append(b, n)
<1> HIDE DEF b, a, k
<1>13. Len(a) <= Len(b) + 1 /\ Len(a) \in Nat /\ \A m \in ToSet(a) : m \in ToSet(b) \/ m = n
  <2>1. (a = b \/ a = k) /\ Len(k) = Len(b) + 1 /\ ToSet(k) = ToSet(b) \cup {n}
    BY <1>2, <1>12 DEF a, k
  <2>2. QED
    BY <1>1, <2>1
<1>3. \A q : Content(u, q) = Content(s, q) /\ Lines(u, q) = Lines(s, q)
  BY DEF Noted, Content, Exists, Lines
<1>4. \A m : (InFile(u, m) <=> InFile(s, m)) /\ (InEncoder(u, m) <=> InEncoder(s, m))
  BY <1>3 DEF InFile, InEncoder, Noted
<1>5. Src(u) = Src(s) /\ Dst(u) = Dst(s)
  BY DEF Noted, Src, Dst
<1>6. \A m \in ToSet(u.l.buffer) : m \in ToSet(b) \/ m = n
  BY <1>13 DEF a
<1>7. Numbered(u)
  <2>1. u.clock + Len(u.l.buffer) <= u.h.last + 1
    <3>1. s.clock + Len(b) <= s.h.last + 1 /\ u.clock = s.clock /\ u.h.last = s.h.last + 1
      BY DEF Sound, Numbered, Noted, b
    <3>2. u.clock + Len(a) <= u.h.last + 1
      BY <1>1, <1>13, <3>1
    <3>3. QED
      BY <3>2 DEF a
  <2>2. u.h.last <= MaxLines
    BY <1>1 DEF Noted
  <2>3. QED
    BY <1>5, <2>1, <2>2 DEF Sound, Numbered, Noted
<1>8. Fresh(u)
  <2>1. u.h.last = n /\ n \in Nat /\ n > s.h.last
    BY <1>1 DEF Noted
  <2>2. \A m : InFile(s, m) \/ InEncoder(s, m) => m \in Nat
    <3>1. \A q : Content(s, q) \in Seq(Nat)
      BY ContentIs DEF Sound
    <3>2. s.l.compress.held \in Seq(Nat)
      BY DEF Sound, Typed, Mem, Loggers, Compressors
    <3>3. \A x \in Seq(Nat) : ToSet(x) \subseteq Nat
      BY DEF ToSet
    <3>4. QED
      BY <3>1, <3>2, <3>3 DEF InFile, InEncoder, Lines
  <2>3. \A m \in ToSet(b) : m \in Nat
    BY <1>1 DEF ToSet
  <2>4. \A m : InFile(s, m) \/ InEncoder(s, m) => m <= s.h.last /\ m \notin ToSet(b)
    BY DEF Sound, Fresh, b
  <2>5. \A m \in ToSet(b) : m <= s.h.last
    BY DEF Sound, Fresh, b
  <2> HIDE DEF n, b
  <2>6. \A m : InFile(s, m) \/ InEncoder(s, m) => m <= n /\ m # n
    BY <1>1, <2>1, <2>2, <2>4
  <2>7. \A m \in ToSet(b) : m <= n
    BY <1>1, <2>1, <2>3, <2>5
  <2>8. QED
    BY <1>4, <1>6, <2>1, <2>4, <2>6, <2>7 DEF Fresh
<1>9. Kept(u)
  BY <1>4 DEF Sound, Kept, Noted
<1>10. Copied(u)
  BY <1>3, <1>5 DEF Sound, Copied, SrcKnown, ReadOn, Safe, Out, Noted
<1>11. QED
  BY <1>7, <1>8, <1>9, <1>10 DEF Sound, Noted

LEMMA AlikeSound ==
    ASSUME NEW s, Sound(s), NEW u, Alike(s, u)
    PROVE  Sound(u)
BY SameSound DEF Alike

-----------------------------------------------------------------------------
(* The actions.                                                            *)

LEMMA BecomesIs ==
    ASSUME NEW u, Typed(u), Becomes(u)
    PROVE  Now' = u
<1>1. u = [f |-> u.f, l |-> u.l, r |-> u.r, clock |-> u.clock, due |-> u.due, h |-> u.h]
  BY DEF Typed, Mem
<1>2. QED
  BY <1>1 DEF Becomes, Now

LEMMA BecomesSound ==
    ASSUME NEW u, Sound(u), Becomes(u)
    PROVE  Sound(Now)'
<1>1. Now' = u
  BY BecomesIs DEF Sound
<1>2. QED
  BY <1>1

LEMMA LimitedSound ==
    ASSUME NEW s, Sound(s), NEW crowded
    PROVE  Sound(Limited(s, crowded))
<1>1. CASE Limited(s, crowded) = s \/ Alike(s, Limited(s, crowded))
  BY <1>1, AlikeSound
<1>2. CASE \E p : Deleted(s, Delete(s, p), p) /\ Alike(Delete(s, p), Limited(s, crowded))
  BY <1>2, DeleteSound, AlikeSound
<1>3. QED
  BY <1>1, <1>2, LimitedIs DEF Sound

LEMMA BulkSound ==
    ASSUME NEW s, Sound(s)
    PROVE  Sound(BulkDelete(s))
<1>1. CASE BulkDelete(s) = s
  BY <1>1
<1>2. CASE \E p : Deleted(s, Delete(s, p), p) /\ Alike(Delete(s, p), BulkDelete(s))
  BY <1>2, DeleteSound, AlikeSound
<1>3. QED
  BY <1>1, <1>2, BulkIs DEF Sound

LEMMA InitSound == Init => Sound(Now)
<1> SUFFICES ASSUME Init
             PROVE  Sound(Now)
  OBVIOUS
<1>1. 1 \in Clock /\ <<>> \in Seq(Nat) /\ ToSet(<<>>) = {} /\ Len(<<>>) = 0 /\ MaxLines \in Nat
  BY EmptySet, BoundsAssumption DEF Clock
<1>2. Booting \in Loggers(Booting.bulk)
  <2>1. NotCompressing \in Compressors
    BY <1>1 DEF NotCompressing, Compressors
  <2>2. QED
    BY <1>1, <2>1 DEF Booting, Loggers
<1>3. /\ ~Booting.compress.on /\ ~Booting.rotationPending /\ Booting.buffer = <<>>
  BY DEF Booting, NotCompressing
<1>4. NoReader \in Readers
  BY <1>1 DEF NoReader, Readers
<1>5. [p \in {} |-> <<>>] \in [{} -> Seq(Nat)] /\ {} \in SUBSET Path
  OBVIOUS
<1>6. /\ Now.l = Booting /\ Now.r = NoReader /\ Now.clock = 1 /\ Now.due = {} /\ Now.h.last = 0
      /\ Now.h.owed = {} /\ Now.h \in Hists /\ DOMAIN Now.f = {} /\ Now.f \in Dirs
  BY <1>5 DEF Init, Now, Hists, Dirs
<1>7. Typed(Now)
  BY <1>1, <1>2, <1>4, <1>6 DEF Typed, Mem, Now
<1>8. \A n : ~InFile(Now, n)
  BY <1>1, <1>6 DEF InFile, Lines, Content, Exists
<1>9. Numbered(Now)
  BY <1>1, <1>3, <1>6 DEF Numbered
<1>10. Fresh(Now) /\ Copied(Now) /\ Kept(Now)
  BY <1>1, <1>3, <1>6, <1>8 DEF Fresh, InEncoder, Copied, Kept
<1>11. QED
  BY <1>7, <1>9, <1>10 DEF Sound

LEMMA TickSound ==
    ASSUME Sound(Now), Tick, ~EncoderFails
    PROVE  Sound(Now)'
<1>1. PICK fails \in {FALSE, EncoderFails}, crowded \in BOOLEAN :
      \E flushed \in {IF FlushDue(Now) THEN FlushBuffer(Now) ELSE Now} :
      \E stepped \in {Stepped(flushed, fails)} :
      \E s \in {BulkDelete(StartPending(Limited(stepped, crowded)))} : Becomes(s)
  BY DEF Tick
<1>2. PICK flushed \in {IF FlushDue(Now) THEN FlushBuffer(Now) ELSE Now} :
      \E stepped \in {Stepped(flushed, fails)} :
      \E s \in {BulkDelete(StartPending(Limited(stepped, crowded)))} : Becomes(s)
  BY <1>1
<1>3. PICK stepped \in {Stepped(flushed, fails)} :
      \E s \in {BulkDelete(StartPending(Limited(stepped, crowded)))} : Becomes(s)
  BY <1>2
<1>4. Becomes(BulkDelete(StartPending(Limited(stepped, crowded))))
  BY <1>3
<1>5. Sound(flushed)
  BY <1>2, FlushSound
<1>6. stepped = CompressStep(flushed)
  <2>1. ~fails
    BY <1>1
  <2>2. stepped = Stepped(flushed, fails)
    BY <1>3
  <2>3. QED
    BY <2>1, <2>2 DEF Stepped
<1>7. Sound(stepped)
  BY <1>5, <1>6, CompressStepSound
<1>8. Sound(Limited(stepped, crowded))
  BY <1>7, LimitedSound
<1>9. Sound(StartPending(Limited(stepped, crowded)))
  BY <1>8, StartSound
<1>10. Sound(BulkDelete(StartPending(Limited(stepped, crowded))))
  BY <1>9, BulkSound
<1>11. QED
  BY <1>4, <1>10, BecomesSound

\* begin(): the logger is wired to a mounted file system.
LEMMA BeginIs ==
    ASSUME Typed(Now), Begin
    PROVE  \E s : Alike(Now, s) /\ Becomes(IF MayLog THEN Logged(s) ELSE s)
<1> DEFINE n == Len(Content(Now, Current))
           l == [logger EXCEPT !.wired = TRUE, !.fsReady = TRUE, !.currentFileSize = n]
           s == [Now EXCEPT !.l = l]
<1>1. n \in Nat
  BY ContentIs
<1>2. Now.l = logger /\ logger \in Loggers(logger.bulk)
  BY DEF Typed, Mem, Now
<1> HIDE DEF n
<1>3. /\ l \in Loggers(l.bulk) /\ l.buffer = logger.buffer /\ l.pending = logger.pending
      /\ l.rotationPending = logger.rotationPending /\ l.compress = logger.compress
  BY <1>1, <1>2 DEF Loggers
<1>4. s = [Now EXCEPT !.l.wired = TRUE, !.l.fsReady = TRUE, !.l.currentFileSize = n]
  BY <1>2 DEF Now
<1>5. Becomes(IF MayLog THEN Logged(s) ELSE s)
  BY <1>4 DEF Begin, n
<1> HIDE DEF l
<1>6. Typed(s) /\ s.f = Now.f /\ s.l = l /\ s.r = Now.r /\ s.clock = Now.clock /\ s.h = Now.h
  BY <1>3, LoggerSet
<1> HIDE DEF s
<1>7. Alike(Now, s)
  BY <1>2, <1>3, <1>6 DEF Alike
<1>8. QED
  BY <1>5, <1>7

LEMMA BeginSound ==
    ASSUME Sound(Now), Begin
    PROVE  Sound(Now)'
<1>1. PICK s : Alike(Now, s) /\ Becomes(IF MayLog THEN Logged(s) ELSE s)
  BY BeginIs DEF Sound
<1>2. Sound(s) /\ (MayLog => s.h.last < MaxLines)
  BY <1>1, AlikeSound DEF Alike, MayLog, Now
<1>3. MayLog => Noted(s, Logged(s))
  BY <1>2, LoggedIs DEF Sound
<1>4. MayLog => Sound(Logged(s))
  BY <1>2, <1>3, NotedSound
<1>5. QED
  BY <1>1, <1>2, <1>4, BecomesSound

\* An event, logged before begin() or after it.
LEMMA EventIs ==
    ASSUME Typed(Now), Events
    PROVE  MayLog /\ \E u : Noted(Now, u) /\ Becomes(u)
<1>1. Noted(Now, Logged(Now))
  BY LoggedIs
<1>2. CASE LogEvent
  <2> DEFINE s == Logged(Now)
             e == s.h.early \cup {s.h.last}
             h == [s.h EXCEPT !.early = e]
             u == [s EXCEPT !.h = h]
  <2>1. Noted(Now, s) /\ Typed(s) /\ s.h \in Hists
    BY <1>1 DEF Noted, Typed, Mem
  <2>2. MayLog /\ (Becomes(s) \/ Becomes([s EXCEPT !.h.early = e]))
    BY <1>2 DEF LogEvent
  <2> HIDE DEF s
  <2>3. u = [s EXCEPT !.h.early = e]
    BY <2>1 DEF Typed, Mem
  <2>4. h \in Hists /\ h.last = s.h.last /\ h.owed = s.h.owed
    BY <2>1 DEF Hists
  <2> HIDE DEF h
  <2>5. Typed(u) /\ u.f = s.f /\ u.l = s.l /\ u.r = s.r /\ u.clock = s.clock /\ u.h = h
    BY <2>1, <2>4, HistSet
  <2> HIDE DEF u
  <2>6. Noted(Now, u)
    BY <2>1, <2>4, <2>5 DEF Noted
  <2>7. QED
    BY <2>1, <2>2, <2>3, <2>6
<1>3. CASE OnCommand
  BY <1>1, <1>3 DEF OnCommand
<1>4. QED
  BY <1>2, <1>3 DEF Events

LEMMA EventSound ==
    ASSUME Sound(Now), Events
    PROVE  Sound(Now)'
<1>1. MayLog /\ \E u : Noted(Now, u) /\ Becomes(u)
  BY EventIs DEF Sound
<1>2. PICK u : Noted(Now, u) /\ Becomes(u)
  BY <1>1
<1>3. Sound(u)
  BY <1>1, <1>2, NotedSound DEF MayLog, Now
<1>4. QED
  BY <1>2, <1>3, BecomesSound

LEMMA PrefixSet ==
    ASSUME NEW a \in Seq(Nat), NEW n \in 0 .. Len(a)
    PROVE  SubSeq(a, 1, n) \in Seq(Nat) /\ ToSet(SubSeq(a, 1, n)) \subseteq ToSet(a)
<1> DEFINE b == SubSeq(a, 1, n)
<1>1. b \in Seq(Nat) /\ Len(b) = n /\ \A i \in 1 .. n : b[i] = a[i]
  OBVIOUS
<1>2. DOMAIN b = 1 .. n /\ DOMAIN a = 1 .. Len(a) /\ Len(a) \in Nat
  BY <1>1
<1>3. DOMAIN b \subseteq DOMAIN a
  BY <1>2
<1> HIDE DEF b
<1>4. QED
  BY <1>1, <1>2, <1>3 DEF ToSet, b

\* Memory is gone, and perhaps the end of what was being compressed.
Cut(s, u) ==
    /\ Typed(u) /\ DOMAIN u.f = DOMAIN s.f
    /\ \A q : q # Dst(s) \/ ~s.l.compress.on => Content(u, q) = Content(s, q)
    /\ \A q : Lines(u, q) \subseteq Lines(s, q)
    /\ u.l = Booting /\ u.r = NoReader /\ u.h = s.h
    /\ ClockSet => u.clock = s.clock

LEMMA CutIs ==
    ASSUME Typed(Now), PowerCut
    PROVE  Cut(Now, Now')
<1> DEFINE dst == Hs(logger.pending)
           torn == logger.compress.on /\ dst \in DOMAIN files
<1>1. PICK n \in IF torn THEN 0 .. Len(files[dst]) ELSE {0} :
      files' = IF torn THEN [files EXCEPT ![dst] = SubSeq(@, 1, n)] ELSE files
  BY DEF PowerCut
<1>2. /\ Now.f = files /\ Now.l = logger /\ Now.r = reader /\ Now.clock = clock /\ Now.h = hist
      /\ clock \in Clock /\ hist \in Hists /\ Dst(Now) = dst
  BY DEF Now, Typed, Mem, Dst
<1>3. /\ Now'.f = files' /\ Now'.l = Booting /\ Now'.r = NoReader /\ Now'.h = hist
      /\ Now'.clock = (IF ClockSet THEN clock ELSE 1) /\ Now'.due = {}
  BY DEF Now, PowerCut
<1>4. PICK D \in SUBSET Path : files \in [D -> Seq(Nat)]
  BY <1>2 DEF Typed, Mem, Dirs
<1>5. /\ files' \in [D -> Seq(Nat)] /\ \A q \in D : ToSet(files'[q]) \subseteq ToSet(files[q])
      /\ \A q \in D : q # dst \/ ~logger.compress.on => files'[q] = files[q]
  <2>1. CASE torn
    <3> DEFINE b == SubSeq(files[dst], 1, n)
    <3>1. files[dst] \in Seq(Nat) /\ dst \in D
      BY <1>4, <2>1
    <3>2. n \in 0 .. Len(files[dst])
      BY <1>1, <2>1
    <3>3. b \in Seq(Nat) /\ ToSet(b) \subseteq ToSet(files[dst])
      BY <3>1, <3>2, PrefixSet
    <3>4. files' = [files EXCEPT ![dst] = b]
      BY <1>1, <2>1
    <3> HIDE DEF b, dst
    <3>5. QED
      BY <1>4, <2>1, <3>1, <3>3, <3>4
  <2>2. CASE ~torn
    BY <1>1, <1>4, <2>2
  <2>3. QED
    BY <2>1, <2>2
<1>6. /\ DOMAIN Now'.f = DOMAIN Now.f
      /\ \A q : q # dst \/ ~logger.compress.on => Content(Now', q) = Content(Now, q)
      /\ \A q : Lines(Now', q) \subseteq Lines(Now, q)
  <2> HIDE DEF dst
  <2>1. QED
    BY <1>2, <1>3, <1>4, <1>5 DEF Content, Exists, Lines
<1>7. Booting \in Loggers(Booting.bulk) /\ NoReader \in Readers /\ 1 \in Clock
  <2>1. NotCompressing \in Compressors /\ 1 \in Clock /\ <<>> \in Seq(Nat)
    BY EmptySet, BoundsAssumption DEF NotCompressing, Compressors, Clock
  <2>2. Booting \in Loggers(Booting.bulk)
    BY <2>1 DEF Booting, Loggers
  <2>3. QED
    BY <2>1, <2>2 DEF NoReader, Readers
<1>8. Typed(Now')
  <2>1. Now'.f \in Dirs
    BY <1>3, <1>5 DEF Dirs
  <2>2. Now'.clock \in Clock
    BY <1>2, <1>3, <1>7
  <2>3. QED
    BY <1>2, <1>3, <1>7, <2>1, <2>2 DEF Typed, Mem, Now
<1>9. QED
  BY <1>2, <1>3, <1>6, <1>8 DEF Cut

LEMMA CutSound ==
    ASSUME NEW s, Sound(s), NEW u, Cut(s, u), ClockSet
    PROVE  Sound(u)
<1>1. /\ u.l.buffer = <<>> /\ ~u.l.compress.on /\ ~u.l.rotationPending
      /\ Len(<<>>) = 0 /\ ToSet(<<>>) = {}
  BY EmptySet DEF Cut, Booting, NotCompressing
<1>2. /\ Typed(u) /\ DOMAIN u.f = DOMAIN s.f /\ u.h = s.h /\ u.clock = s.clock
      /\ \A q : Lines(u, q) \subseteq Lines(s, q)
  BY DEF Cut
<1>3. \A n : InFile(u, n) => InFile(s, n)
  BY <1>2 DEF InFile
<1>4. Numbered(u)
  <2>1. s.l.buffer \in Seq(Nat) /\ s.clock \in Nat /\ s.h.last \in Nat
    BY ClockIs DEF Sound, Typed, Mem, Loggers, Hists
  <2>2. Len(s.l.buffer) \in Nat /\ s.clock + Len(s.l.buffer) <= s.h.last + 1
    BY <2>1 DEF Sound, Numbered
  <2>3. s.clock + 0 <= s.h.last + 1
    BY <2>1, <2>2
  <2>4. QED
    BY <1>1, <1>2, <2>3 DEF Sound, Numbered
<1>5. Fresh(u)
  BY <1>1, <1>2, <1>3 DEF Sound, Fresh, InEncoder
<1>6. Copied(u)
  BY <1>1 DEF Copied
<1>7. ASSUME NEW n \in s.h.owed
      PROVE  InFile(u, n)
  <2>1. PICK q \in Path : n \in Lines(s, q)
    BY <1>7 DEF Sound, Kept, InFile
  <2>2. CASE q # Dst(s) \/ ~s.l.compress.on
    BY <2>1, <2>2 DEF Cut, Lines, InFile
  <2>3. CASE q = Dst(s) /\ s.l.compress.on
    <3> DEFINE src == s.l.compress.src
    <3>1. n \in Out(s) /\ Safe(s)
      BY <2>1, <2>3 DEF Out, Sound, Copied
    <3>2. n \in Lines(s, src) /\ src # Gone
      BY <1>7, <3>1 DEF Safe
    <3>3. src # Dst(s)
      BY PathsAre DEF Sound, Typed, Mem, Loggers, Compressors, Dst
    <3>4. src \in Path
      BY <3>2, NoLinesOutside DEF Sound
    <3>5. QED
      BY <3>2, <3>3, <3>4 DEF Cut, Lines, InFile
  <2>4. QED
    BY <2>2, <2>3
<1>8. Kept(u)
  BY <1>2, <1>7 DEF Kept
<1>9. QED
  BY <1>2, <1>4, <1>5, <1>6, <1>8 DEF Sound

\* A download and the passing of time leave the files and the logger alone.
LEMMA QuietIs ==
    ASSUME Typed(Now), files' = files, logger' = logger, clock' = clock, hist' = hist,
           reader' \in Readers, due' \in SUBSET {"flush", "limits"}
    PROVE  Typed(Now)'
BY DEF Typed, Mem, Now

LEMMA QuietSound ==
    ASSUME Sound(Now), files' = files, logger' = logger, clock' = clock, hist' = hist, Typed(Now)'
    PROVE  Sound(Now)'
<1>1. /\ Now'.f = Now.f /\ Now'.l = Now.l /\ Now'.clock = Now.clock /\ Now'.h = Now.h
  BY DEF Now
<1>2. Sound(Now')
  BY <1>1, SameSound
<1>3. QED
  BY <1>2

LEMMA ReadIs ==
    ASSUME Typed(Now), ReadLog \/ ReadMore
    PROVE  Typed(Now)'
<1>1. /\ files' = files /\ logger' = logger /\ clock' = clock /\ hist' = hist /\ due' = due
      /\ due \in SUBSET {"flush", "limits"} /\ reader \in Readers /\ logger \in Loggers(logger.bulk)
  BY DEF ReadLog, ReadMore, Typed, Mem, Now
<1>2. \A x \in Seq(Nat) : ToSet(x) \subseteq Nat
  BY DEF ToSet
<1>3. \A p : Content(Now, p) \in Seq(Nat) /\ ToSet(Content(Now, p)) \subseteq Nat
  BY <1>2, ContentIs
<1>4. CASE ReadLog
  <2>1. PICK p \in DOMAIN files \cup {Current} :
          LET tail == IF p = Current THEN logger.buffer ELSE <<>>
          IN  reader' = [on |-> TRUE, path |-> IF p \in DOMAIN files THEN p ELSE Gone, pos |-> 0,
                         tail |-> tail, got |-> {},
                         want |-> ToSet(tail) \cup IF p[1] = "hs" THEN {} ELSE ToSet(Content(Now, p))]
    BY <1>4 DEF ReadLog
  <2> DEFINE tail == IF p = Current THEN logger.buffer ELSE <<>>
             want == ToSet(tail) \cup IF p[1] = "hs" THEN {} ELSE ToSet(Content(Now, p))
             path == IF p \in DOMAIN files THEN p ELSE Gone
  <2>2. tail \in Seq(Nat)
    BY <1>1, EmptySet DEF Loggers
  <2>3. want \subseteq Nat
    BY <1>2, <1>3, <2>2
  <2>4. DOMAIN files \subseteq Path
    BY PathsOf DEF Now
  <2>5. reader' = [on |-> TRUE, path |-> path, pos |-> 0, tail |-> tail, got |-> {}, want |-> want]
    BY <2>1
  <2>6. path \in Path \cup {Gone}
    BY <2>4
  <2> HIDE DEF path, tail, want
  <2>7. reader' \in Readers
    BY <2>2, <2>3, <2>5, <2>6 DEF Readers
  <2>8. QED
    BY <1>1, <2>7, QuietIs
<1>5. CASE ReadMore
  <2> DEFINE lines == Content(Now, reader.path)
  <2>1. reader' = IF reader.pos < Len(lines)
                  THEN [reader EXCEPT !.pos = @ + 1, !.got = @ \cup {lines[reader.pos + 1]}]
                  ELSE [reader EXCEPT !.on = FALSE, !.path = Gone, !.got = @ \cup ToSet(reader.tail)]
    BY <1>5 DEF ReadMore, BufferedRead
  <2>2. lines \in Seq(Nat) /\ reader.pos \in Nat /\ ToSet(reader.tail) \subseteq Nat
    BY <1>1, <1>2, <1>3 DEF Readers
  <2> HIDE DEF lines
  <2>3. reader' \in Readers
    <3>1. CASE reader.pos < Len(lines)
      <4> DEFINE x == lines[reader.pos + 1]
      <4>1. x \in Nat /\ reader.pos + 1 \in Nat
        BY <2>2, <3>1
      <4>2. reader' = [reader EXCEPT !.pos = @ + 1, !.got = @ \cup {x}]
        BY <2>1, <3>1
      <4> HIDE DEF x
      <4>3. QED
        BY <1>1, <4>1, <4>2 DEF Readers
    <3>2. CASE ~(reader.pos < Len(lines))
      BY <1>1, <2>1, <2>2, <3>2 DEF Readers
    <3>3. QED
      BY <3>1, <3>2
  <2>4. QED
    BY <1>1, <2>3, QuietIs
<1>6. QED
  BY <1>4, <1>5

LEMMA RequestSound ==
    ASSUME Sound(Now), Requests
    PROVE  Sound(Now)'
<1>1. CASE DeleteLog
  <2>1. PICK p : Becomes(Delete(Now, p))
    BY <1>1 DEF DeleteLog
  <2>2. QED
    BY <2>1, DeleteSound, BecomesSound
<1>2. CASE DeleteAll
  <2>1. Alike(Now, DeleteAllLogs(Now)) /\ Becomes(DeleteAllLogs(Now))
    BY <1>2, DeleteAllIs DEF DeleteAll, Sound
  <2>2. QED
    BY <2>1, AlikeSound, BecomesSound
<1>3. CASE ChangeSettings
  <2>1. Now' = Now
    BY <1>3 DEF ChangeSettings, Now
  <2>2. QED
    BY <2>1
<1>4. CASE ReadLog \/ ReadMore
  <2>1. Typed(Now)'
    BY <1>4, ReadIs DEF Sound
  <2>2. QED
    BY <1>4, <2>1, QuietSound DEF ReadLog, ReadMore
<1>5. QED
  BY <1>1, <1>2, <1>3, <1>4 DEF Requests

LEMMA ElapsesIs ==
    ASSUME Typed(Now), NEW d \in {"flush", "limits"}, Elapses(d)
    PROVE  Typed(Now)'
<1>1. /\ files' = files /\ logger' = logger /\ clock' = clock /\ hist' = hist /\ reader' = reader
      /\ due \in SUBSET {"flush", "limits"} /\ reader \in Readers /\ due' = due \cup {d}
  BY DEF Elapses, Typed, Mem, Now
<1>2. QED
  BY <1>1, QuietIs

LEMMA NextSound ==
    ASSUME Sound(Now), [Next]_vars, ClockSet, ~EncoderFails
    PROVE  Sound(Now)'
<1>1. CASE Begin
  BY <1>1, BeginSound
<1>2. CASE Events
  BY <1>2, EventSound
<1>3. CASE Tick
  BY <1>3, TickSound
<1>4. ASSUME NEW d \in {"flush", "limits"}, Elapses(d)
      PROVE  Sound(Now)'
  <2>1. Typed(Now)'
    BY <1>4, ElapsesIs DEF Sound
  <2>2. QED
    BY <1>4, <2>1, QuietSound DEF Elapses
<1>5. CASE Requests
  BY <1>5, RequestSound
<1>6. CASE PowerCut
  <2>1. Cut(Now, Now')
    BY <1>6, CutIs DEF Sound
  <2>2. Sound(Now')
    BY <2>1, CutSound
  <2>3. QED
    BY <2>2
<1>7. CASE UNCHANGED vars
  <2>1. Now' = Now
    BY <1>7 DEF vars, Now
  <2>2. QED
    BY <2>1
<1>8. QED
  BY <1>1, <1>2, <1>3, <1>4, <1>5, <1>6, <1>7 DEF Next

(* A line that has reached the flash stays readable in some file until a   *)
(* request or the limits delete it, wherever in a rotation, a compression  *)
(* or the removal of its source (data_logger.cpp:140-167) power is cut,    *)
(* provided the time is known at boot, so that no name is given twice, and *)
(* the encoder does not fail.                                              *)
THEOREM WrittenIsKept ==
    ASSUME ClockSet, ~EncoderFails
    PROVE  Spec => []FlushedIsKept
<1>1. Sound(Now) => FlushedIsKept
  <2> SUFFICES ASSUME Sound(Now), NEW n \in hist.owed
               PROVE  n \in Stored
    BY DEF FlushedIsKept
  <2>1. PICK p \in Path : n \in Lines(Now, p)
    BY DEF Sound, Kept, InFile, Now
  <2>2. p \in DOMAIN files /\ n \in ToSet(files[p])
    <3>1. p \in DOMAIN Now.f
      BY <2>1, NoLinesOutside DEF Sound
    <3>2. QED
      BY <2>1, <3>1 DEF Lines, Content, Exists, Now
  <2>3. QED
    BY <2>2 DEF Stored
<1>2. Sound(Now) /\ [Next]_vars => Sound(Now)'
  BY NextSound
<1>3. QED
  BY <1>1, <1>2, InitSound, PTL DEF Spec

-----------------------------------------------------------------------------
(* The invariant of ReaderMissesNothing. A download follows its file       *)
(* through renames and appends, and each line it still owes is in the rest *)
(* of the file or in the tail it took from memory. It needs neither the    *)
(* clock nor the encoder.                                                  *)

\* A line that the download still owes its client is in the rest of its file.
ToCome(s, n) ==
    \E i \in DOMAIN Content(s, s.r.path) : i > s.r.pos /\ Content(s, s.r.path)[i] = n

Reading(s) ==
    /\ s.r.path \in DOMAIN s.f \cup {Gone}
    /\ s.r.path[1] = "hs" => s.r.want = {}
    /\ \A n \in s.r.want : \/ n \in s.r.got
                           \/ s.r.on /\ (n \in ToSet(s.r.tail) \/ ToCome(s, n))
Served(s) == Typed(s) /\ Reading(s)

LEMMA MovedIs ==
    ASSUME NEW r \in Readers, NEW p, NEW q
    PROVE  LET v == Moved(r, p, q)
           IN  /\ v.on = r.on /\ v.pos = r.pos /\ v.tail = r.tail /\ v.got = r.got /\ v.want = r.want
               /\ v.path = IF r.path = p THEN q ELSE r.path
BY DEF Moved, Readers

\* The file goes on under the download, perhaps by another name.
LEMMA FollowServed ==
    ASSUME NEW s, Served(s), NEW u, Typed(u),
           u.r.on = s.r.on, u.r.pos = s.r.pos, u.r.tail = s.r.tail, u.r.got = s.r.got,
           u.r.want \subseteq s.r.want, u.r.path \in DOMAIN u.f \cup {Gone},
           u.r.path[1] = "hs" => s.r.path[1] = "hs",
           \A i \in DOMAIN Content(s, s.r.path) :
             s.r.path[1] # "hs" /\ Content(s, s.r.path)[i] \in u.r.want =>
                /\ i \in DOMAIN Content(u, u.r.path)
                /\ Content(u, u.r.path)[i] = Content(s, s.r.path)[i]
    PROVE  Served(u)
<1>1. ASSUME NEW n \in u.r.want
      PROVE  n \in u.r.got \/ (u.r.on /\ (n \in ToSet(u.r.tail) \/ ToCome(u, n)))
  <2>1. n \in s.r.want /\ s.r.path[1] # "hs"
    BY <1>1 DEF Served, Reading
  <2>2. n \in s.r.got \/ (s.r.on /\ (n \in ToSet(s.r.tail) \/ ToCome(s, n)))
    BY <2>1 DEF Served, Reading
  <2>3. ToCome(s, n) => ToCome(u, n)
    BY <1>1, <2>1 DEF ToCome
  <2>4. QED
    BY <2>2, <2>3
<1>2. u.r.path[1] = "hs" => u.r.want = {}
  BY DEF Served, Reading
<1>3. QED
  BY <1>1, <1>2 DEF Served, Reading

LEMMA SameServed ==
    ASSUME NEW s, Served(s), NEW u, Typed(u), u.f = s.f, u.r = s.r
    PROVE  Served(u)
BY DEF Served, Reading, ToCome, Content, Exists

LEMMA AppendServed ==
    ASSUME NEW s, Served(s), NEW u, Appended(s, u)
    PROVE  Served(u)
<1> DEFINE a == Content(s, Current)
           b == s.l.buffer
           path == s.r.path
<1>1. a \in Seq(Nat) /\ b \in Seq(Nat)
  BY ContentIs DEF Served, Typed, Mem, Loggers
<1>2. DOMAIN a = 1 .. Len(a) /\ Len(a) \in Nat /\ Len(b) \in Nat
  <2> HIDE DEF a, b
  <2>1. QED
    BY <1>1
<1>3. /\ DOMAIN (a \o b) = 1 .. Len(a) + Len(b)
      /\ \A i \in 1 .. Len(a) + Len(b) : (a \o b)[i] = IF i <= Len(a) THEN a[i] ELSE b[i - Len(a)]
  <2> HIDE DEF a, b
  <2>1. QED
    BY <1>1, ConcatProperties
<1>4. \A i \in DOMAIN a : i \in DOMAIN (a \o b) /\ (a \o b)[i] = a[i]
  <2> HIDE DEF a, b
  <2>1. QED
    BY <1>2, <1>3
<1>5. \A q : Content(u, q) = IF q = Current THEN a \o b ELSE Content(s, q)
  BY DEF Appended
<1>6. \A i \in DOMAIN Content(s, path) :
        i \in DOMAIN Content(u, path) /\ Content(u, path)[i] = Content(s, path)[i]
  <2>1. CASE path = Current
    BY <1>4, <1>5, <2>1
  <2>2. CASE path # Current
    BY <1>5, <2>2
  <2>3. QED
    BY <2>1, <2>2
<1>7. Typed(u) /\ u.r = s.r /\ DOMAIN s.f \subseteq DOMAIN u.f
  BY DEF Appended
<1>8. path \in DOMAIN s.f \cup {Gone}
  BY DEF Served, Reading
<1> HIDE DEF path
<1>9. QED
  BY <1>6, <1>7, <1>8, FollowServed DEF path

LEMMA RotateServed ==
    ASSUME NEW s, Served(s), Current \in DOMAIN s.f, NEW u, Rotated(s, u)
    PROVE  Served(u) /\ (u.r.path = Gone => s.r.path = Gone)
<1> DEFINE q == Raw(s.clock)
           path == s.r.path
<1>1. CASE q \in DOMAIN s.f
  <2>1. u.f = s.f /\ u.r = s.r /\ Typed(u)
    BY <1>1 DEF Rotated
  <2>2. QED
    BY <2>1, SameServed
<1>2. CASE q \notin DOMAIN s.f
  <2>1. /\ Typed(u) /\ DOMAIN u.f = (DOMAIN s.f \ {Current}) \cup {q}
        /\ \A x : Content(u, x) = IF x = q THEN Content(s, Current)
                                  ELSE IF x = Current THEN <<>> ELSE Content(s, x)
        /\ u.r = Moved(s.r, Current, q)
    BY <1>2 DEF Rotated
  <2>2. s.r \in Readers /\ path \in DOMAIN s.f \cup {Gone}
    BY DEF Served, Reading, Typed, Mem
  <2>3. /\ u.r.on = s.r.on /\ u.r.pos = s.r.pos /\ u.r.tail = s.r.tail /\ u.r.got = s.r.got
        /\ u.r.want = s.r.want /\ u.r.path = IF path = Current THEN q ELSE path
    BY <2>1, <2>2, MovedIs
  <2>4. q # Gone /\ q # Current /\ Current # Gone /\ q[1] # "hs"
    BY PathsAre
  <2> HIDE DEF path, q
  <2>5. path # q
    BY <1>2, <2>2, <2>4
  <2>6. Content(u, u.r.path) = Content(s, path)
    BY <2>1, <2>3, <2>5
  <2>7. u.r.path \in DOMAIN u.f \cup {Gone}
    BY <2>1, <2>2, <2>3
  <2>8. u.r.path[1] = "hs" => path[1] = "hs"
    BY <2>3, <2>4
  <2>9. Served(u)
    BY <2>1, <2>3, <2>6, <2>7, <2>8, FollowServed DEF path
  <2>10. QED
    BY <2>3, <2>4, <2>9 DEF path
<1>3. QED
  BY <1>1, <1>2

LEMMA FlushServed ==
    ASSUME NEW s, Served(s)
    PROVE  Served(FlushBuffer(s)) /\ (FlushBuffer(s).r.path = Gone => s.r.path = Gone)
<1> DEFINE w == AppendBuffer(s)
           u == FlushBuffer(s)
<1>1. CASE u = s
  BY <1>1
<1>2. ASSUME Appended(s, w), u = w \/ Rotated(w, u)
      PROVE  Served(u) /\ (u.r.path = Gone => s.r.path = Gone)
  <2> HIDE DEF w, u
  <2>1. Served(w) /\ w.r = s.r /\ Current \in DOMAIN w.f
    BY <1>2, AppendServed DEF Appended
  <2>2. CASE u = w
    BY <2>1, <2>2
  <2>3. CASE Rotated(w, u)
    BY <2>1, <2>3, RotateServed
  <2>4. QED
    BY <1>2, <2>2, <2>3
<1>3. QED
  BY <1>1, <1>2, FlushIs DEF Served

\* Only the destination of a compression is written: nobody waits for its lines.
LEMMA HsServed ==
    ASSUME NEW s, Served(s), NEW u, Typed(u), u.r = s.r, DOMAIN s.f \subseteq DOMAIN u.f,
           \A q : q # Dst(s) => Content(u, q) = Content(s, q)
    PROVE  Served(u)
<1> DEFINE path == s.r.path
<1>1. path[1] # "hs" => Content(u, path) = Content(s, path)
  BY PathsAre DEF Dst
<1>2. path \in DOMAIN u.f \cup {Gone}
  BY DEF Served, Reading
<1> HIDE DEF path
<1>3. QED
  BY <1>1, <1>2, FollowServed DEF path

LEMMA StartServed ==
    ASSUME NEW s, Served(s)
    PROVE  Served(StartPending(s))
<1> DEFINE u == StartPending(s)
<1>1. u = s \/ Begun(s, u) \/ Skipped(s, u)
  BY StartIs DEF Served
<1> HIDE DEF u
<1>2. Begun(s, u) => Served(u)
  BY HsServed DEF Begun
<1>3. Skipped(s, u) => Served(u)
  BY SameServed DEF Skipped
<1>4. QED
  BY <1>1, <1>2, <1>3 DEF u

\* A removal that does not hit the file under the download.
LEMMA VanishServed ==
    ASSUME NEW s, Served(s), NEW u, NEW p, Typed(u), DOMAIN u.f = DOMAIN s.f \ {p},
           \A q : Content(u, q) = IF q = p THEN <<>> ELSE Content(s, q),
           u.r = Moved(s.r, p, Gone), u.r.path # Gone \/ s.r.path = Gone
    PROVE  Served(u)
<1> DEFINE path == s.r.path
<1>1. s.r \in Readers /\ path \in DOMAIN s.f \cup {Gone}
  BY DEF Served, Reading, Typed, Mem
<1>2. /\ u.r.on = s.r.on /\ u.r.pos = s.r.pos /\ u.r.tail = s.r.tail /\ u.r.got = s.r.got
      /\ u.r.want = s.r.want /\ u.r.path = IF path = p THEN Gone ELSE path
  BY <1>1, MovedIs
<1>3. u.r.path = path /\ path \in DOMAIN u.f \cup {Gone}
  BY <1>1, <1>2
<1>4. Content(u, path) = Content(s, path)
  <2>1. path = p => Content(s, path) = <<>>
    <3>1. Gone \notin DOMAIN s.f
      BY PathsOf, PathsAre DEF Served
    <3>2. QED
      BY <1>2, <3>1, ContentIs DEF Served
  <2>2. QED
    BY <2>1
<1> HIDE DEF path
<1>5. QED
  BY <1>2, <1>3, <1>4, FollowServed DEF path

LEMMA DeleteServed ==
    ASSUME NEW s, Served(s), NEW p, NEW u, Deleted(s, u, p)
    PROVE  Served(u)
<1> DEFINE path == s.r.path
           L == LinesOf(s, p)
           m == Moved(s.r, p, Gone)
<1>1. s.r \in Readers /\ path \in DOMAIN s.f \cup {Gone} /\ s.r.want \ L \in SUBSET Nat
  BY DEF Served, Reading, Typed, Mem, Readers
<1>2. /\ m.on = s.r.on /\ m.pos = s.r.pos /\ m.tail = s.r.tail /\ m.got = s.r.got
      /\ m.path = (IF path = p THEN Gone ELSE path) /\ m \in Readers
  <2>1. m \in Readers
    BY <1>1 DEF Moved, Readers
  <2>2. QED
    BY <1>1, <2>1, MovedIs
<1>3. Lines(s, p) \subseteq L
  BY DEF LinesOf, Lines
<1>4. u.r = [m EXCEPT !.want = s.r.want \ L]
  BY DEF Deleted
<1> HIDE DEF m, L
<1>5. /\ u.r.on = s.r.on /\ u.r.pos = s.r.pos /\ u.r.tail = s.r.tail /\ u.r.got = s.r.got
      /\ u.r.path = (IF path = p THEN Gone ELSE path) /\ u.r.want = s.r.want \ L
  BY <1>2, <1>4 DEF Readers
<1>6. /\ Typed(u) /\ DOMAIN u.f = DOMAIN s.f \ {p}
      /\ \A q : Content(u, q) = IF q = p THEN <<>> ELSE Content(s, q)
  BY DEF Deleted
<1>7. u.r.path \in DOMAIN u.f \cup {Gone} /\ u.r.want \subseteq s.r.want
  BY <1>1, <1>5, <1>6
<1>8. u.r.path[1] = "hs" => path[1] = "hs"
  BY <1>5, PathsAre
<1>9. ASSUME NEW i \in DOMAIN Content(s, path), Content(s, path)[i] \in u.r.want
      PROVE  Content(u, u.r.path) = Content(s, path)
  <2>1. path # p
    BY <1>3, <1>5, <1>9 DEF Lines, ToSet
  <2>2. QED
    BY <1>5, <1>6, <2>1
<1> HIDE DEF path
<1>10. QED
  BY <1>5, <1>6, <1>7, <1>8, <1>9, FollowServed DEF path

\* compressStep(): it takes a file from a download only with its last step.
LEMMA CompressStepServed ==
    ASSUME NEW s, Served(s), NEW u, u = CompressStep(s), u.r.path # Gone \/ s.r.path = Gone
    PROVE  Served(u)
<1> DEFINE w == Output(s)
<1>1. Put(s, w)
  BY PutIs DEF Served
<1>2. Served(w) /\ w.r = s.r
  BY <1>1, HsServed DEF Put
<1>3. CASE ~s.l.compress.on
  BY <1>3 DEF CompressStep
<1>4. CASE s.l.compress.on /\ s.l.compress.inputDone
  <2>1. u = Compressed(w)
    BY <1>4 DEF CompressStep
  <2> HIDE DEF w
  <2>2. Finished(w, u)
    BY <1>2, <2>1, FinishIs DEF Served
  <2>3. QED
    BY <1>2, <2>2, VanishServed DEF Finished
<1>5. CASE s.l.compress.on /\ ~s.l.compress.inputDone
  <2>1. u = Chunk(s)
    BY <1>5 DEF CompressStep
  <2>2. Fed(s, u) \/ Fed(w, u)
    BY <2>1, FedIs DEF Served
  <2> HIDE DEF w
  <2>3. Fed(s, u) => Served(u)
    BY SameServed DEF Fed
  <2>4. Fed(w, u) => Served(u)
    BY <1>2, SameServed DEF Fed
  <2>5. QED
    BY <2>2, <2>3, <2>4
<1>6. QED
  BY <1>3, <1>4, <1>5

LEMMA FailedServed ==
    ASSUME NEW s, Served(s), NEW u, u = Failed(s), u.r.path # Gone \/ s.r.path = Gone
    PROVE  Served(u)
<1> DEFINE w == RemoveFile(s, Hs(s.l.pending))
<1>1. Removed(s, w, Dst(s))
  BY RemoveIs DEF Served, Dst
<1>2. u = Compressed(w)
  BY DEF Failed
<1> HIDE DEF w
<1>3. Typed(w) /\ Finished(w, u)
  BY <1>1, <1>2, FinishIs DEF Removed
<1>4. w.r.path = Gone => u.r.path = Gone
  <2>1. w.r \in Readers /\ u.r = Moved(w.r, Src(w), Gone)
    BY <1>3 DEF Typed, Mem, Finished
  <2>2. u.r.path = IF w.r.path = Src(w) THEN Gone ELSE w.r.path
    BY <2>1, MovedIs
  <2>3. QED
    BY <2>2
<1>5. s.r.path = Gone => w.r.path = Gone
  <2>1. s.r \in Readers /\ w.r = Moved(s.r, Dst(s), Gone)
    BY <1>1 DEF Served, Typed, Mem, Removed
  <2>2. w.r.path = IF s.r.path = Dst(s) THEN Gone ELSE s.r.path
    BY <2>1, MovedIs
  <2>3. QED
    BY <2>2
<1>6. Served(w)
  BY <1>1, <1>4, VanishServed DEF Removed
<1>7. QED
  BY <1>3, <1>5, <1>6, VanishServed DEF Finished

LEMMA AlikeServed ==
    ASSUME NEW s, Served(s), NEW u, Alike(s, u)
    PROVE  Served(u)
BY SameServed DEF Alike

LEMMA LimitedServed ==
    ASSUME NEW s, Served(s), NEW crowded
    PROVE  Served(Limited(s, crowded))
<1>1. CASE Limited(s, crowded) = s \/ Alike(s, Limited(s, crowded))
  BY <1>1, AlikeServed
<1>2. CASE \E p : Deleted(s, Delete(s, p), p) /\ Alike(Delete(s, p), Limited(s, crowded))
  BY <1>2, DeleteServed, AlikeServed
<1>3. QED
  BY <1>1, <1>2, LimitedIs DEF Served

LEMMA BulkServed ==
    ASSUME NEW s, Served(s)
    PROVE  Served(BulkDelete(s))
<1>1. CASE BulkDelete(s) = s
  BY <1>1
<1>2. CASE \E p : Deleted(s, Delete(s, p), p) /\ Alike(Delete(s, p), BulkDelete(s))
  BY <1>2, DeleteServed, AlikeServed
<1>3. QED
  BY <1>1, <1>2, BulkIs DEF Served

LEMMA BecomesServed ==
    ASSUME NEW u, Served(u), Becomes(u)
    PROVE  Served(Now)'
<1>1. Now' = u
  BY BecomesIs DEF Served
<1>2. QED
  BY <1>1

LEMMA TickServed ==
    ASSUME Served(Now), Tick, ~SlowReader
    PROVE  Served(Now)'
<1>1. PICK fails \in {FALSE, EncoderFails}, crowded \in BOOLEAN :
      \E flushed \in {IF FlushDue(Now) THEN FlushBuffer(Now) ELSE Now} :
      \E stepped \in {Stepped(flushed, fails)} :
      \E s \in {BulkDelete(StartPending(Limited(stepped, crowded)))} :
        (reader.path = Gone \/ stepped.r.path # Gone) /\ Becomes(s)
  BY DEF Tick
<1>2. PICK flushed \in {IF FlushDue(Now) THEN FlushBuffer(Now) ELSE Now} :
      \E stepped \in {Stepped(flushed, fails)} :
      \E s \in {BulkDelete(StartPending(Limited(stepped, crowded)))} :
        (reader.path = Gone \/ stepped.r.path # Gone) /\ Becomes(s)
  BY <1>1
<1>3. PICK stepped \in {Stepped(flushed, fails)} :
      \E s \in {BulkDelete(StartPending(Limited(stepped, crowded)))} :
        (reader.path = Gone \/ stepped.r.path # Gone) /\ Becomes(s)
  BY <1>2
<1>4. /\ Becomes(BulkDelete(StartPending(Limited(stepped, crowded))))
      /\ reader.path = Gone \/ stepped.r.path # Gone
  BY <1>3
<1>5. Served(flushed) /\ (reader.path = Gone => flushed.r.path = Gone)
  <2>1. Now.r = reader
    BY DEF Now
  <2>2. FlushBuffer(Now).r.path = Gone \/ reader.path # Gone
    <3>1. ASSUME NEW s, Typed(s), s.r.path = Gone
          PROVE  FlushBuffer(s).r.path = Gone
      <4>1. CASE FlushBuffer(s) = s
        BY <3>1, <4>1
      <4> DEFINE w == AppendBuffer(s)
                 u == FlushBuffer(s)
      <4>2. ASSUME Appended(s, w), u = w \/ Rotated(w, u)
            PROVE  u.r.path = Gone
        <5> HIDE DEF w, u
        <5>1. w.r = s.r /\ Typed(w) /\ w.r \in Readers /\ w.r.path # Current
          BY <3>1, <4>2, PathsAre DEF Appended, Typed, Mem
        <5>2. ASSUME Rotated(w, u)
              PROVE  u.r.path = Gone
          <6>1. u.r = w.r \/ u.r = Moved(w.r, Current, Raw(w.clock))
            BY <5>2 DEF Rotated
          <6>2. Moved(w.r, Current, Raw(w.clock)).path = w.r.path
            BY <5>1, MovedIs
          <6>3. QED
            BY <3>1, <5>1, <6>1, <6>2
        <5>3. QED
          BY <3>1, <4>2, <5>1, <5>2
      <4>3. QED
        BY <3>1, <4>1, <4>2, FlushIs
    <3>2. QED
      BY <2>1, <3>1 DEF Served
  <2>3. QED
    BY <1>2, <2>1, <2>2, FlushServed
<1>6. stepped = Failed(flushed) \/ stepped = CompressStep(flushed)
  BY <1>3 DEF Stepped
<1>7. Served(stepped)
  BY <1>4, <1>5, <1>6, CompressStepServed, FailedServed
<1>8. Served(BulkDelete(StartPending(Limited(stepped, crowded))))
  BY <1>7, LimitedServed, StartServed, BulkServed
<1>9. QED
  BY <1>4, <1>8, BecomesServed

LEMMA ReadServed ==
    ASSUME Served(Now), ReadLog \/ ReadMore
    PROVE  Served(Now)'
<1>1. Typed(Now) /\ Typed(Now')
  BY ReadIs DEF Served
<1>2. /\ Now.f = files /\ Now'.f = files /\ Now.r = reader /\ Now'.r = reader'
  BY DEF Now, ReadLog, ReadMore
<1>3. \A q : Content(Now', q) = Content(Now, q)
  BY <1>2 DEF Content, Exists
<1>4. CASE ReadLog
  <2>1. PICK p \in DOMAIN files \cup {Current} :
          LET tail == IF p = Current THEN logger.buffer ELSE <<>>
          IN  reader' = [on |-> TRUE, path |-> IF p \in DOMAIN files THEN p ELSE Gone, pos |-> 0,
                         tail |-> tail, got |-> {},
                         want |-> ToSet(tail) \cup IF p[1] = "hs" THEN {} ELSE ToSet(Content(Now, p))]
    BY <1>4 DEF ReadLog
  <2> DEFINE tail == IF p = Current THEN logger.buffer ELSE <<>>
             path == IF p \in DOMAIN files THEN p ELSE Gone
  <2>2. /\ reader'.on /\ reader'.path = path /\ reader'.pos = 0 /\ reader'.tail = tail
        /\ reader'.want = ToSet(tail) \cup IF p[1] = "hs" THEN {} ELSE ToSet(Content(Now, p))
    BY <2>1
  <2>3. Content(Now, p) = Content(Now, path) /\ path \in DOMAIN files \cup {Gone}
    <3>1. CASE p \in DOMAIN files
      BY <3>1
    <3>2. CASE p \notin DOMAIN files
      <4>1. Gone \notin DOMAIN files
        BY <1>1, <1>2, PathsOf, PathsAre
      <4>2. QED
        BY <1>1, <1>2, <3>2, <4>1, ContentIs
    <3>3. QED
      BY <3>1, <3>2
  <2>4. path[1] = "hs" => p[1] = "hs" /\ p # Current
    BY PathsAre
  <2>5. path[1] = "hs" => reader'.want = {}
    BY <2>2, <2>4, EmptySet
  <2> HIDE DEF path, tail
  <2>6. ASSUME NEW n \in reader'.want
        PROVE  n \in ToSet(tail) \/ ToCome(Now', n)
    <3>1. CASE n \notin ToSet(tail)
      <4>1. n \in ToSet(Content(Now, path))
        BY <2>2, <2>3, <2>6, <3>1
      <4>2. PICK i \in DOMAIN Content(Now, path) : Content(Now, path)[i] = n
        BY <4>1 DEF ToSet
      <4>3. Content(Now, path) \in Seq(Nat)
        BY <1>1, ContentIs
      <4>4. i > 0
        <5> DEFINE a == Content(Now, path)
        <5> HIDE DEF a
        <5>1. a \in Seq(Nat) /\ i \in DOMAIN a
          BY <4>2, <4>3 DEF a
        <5>2. QED
          BY <5>1
      <4>5. QED
        BY <1>2, <1>3, <2>2, <4>2, <4>4 DEF ToCome
    <3>2. QED
      BY <3>1
  <2>7. Reading(Now')
    BY <1>2, <2>2, <2>3, <2>5, <2>6 DEF Reading
  <2>8. QED
    BY <1>1, <2>7 DEF Served
<1>5. CASE ReadMore
  <2> DEFINE a == Content(Now, reader.path)
             r == reader
  <2>1. r.on /\ reader' = IF r.pos < Len(a)
                  THEN [r EXCEPT !.pos = @ + 1, !.got = @ \cup {a[r.pos + 1]}]
                  ELSE [r EXCEPT !.on = FALSE, !.path = Gone, !.got = @ \cup ToSet(r.tail)]
    BY <1>5 DEF ReadMore, BufferedRead
  <2>2. a \in Seq(Nat) /\ r \in Readers /\ r.pos \in Nat
    BY <1>1, <1>2, ContentIs DEF Typed, Mem, Readers
  <2>3. /\ r.path \in DOMAIN files \cup {Gone} /\ (r.path[1] = "hs" => r.want = {})
        /\ \A n \in r.want : \/ n \in r.got
                             \/ n \in ToSet(r.tail)
                             \/ \E i \in DOMAIN a : i > r.pos /\ a[i] = n
    BY <1>2, <2>1 DEF Served, Reading, ToCome
  <2> HIDE DEF a, r
  <2>4. CASE r.pos < Len(a)
    <3> DEFINE x == a[r.pos + 1]
    <3>1. reader' = [r EXCEPT !.pos = r.pos + 1, !.got = r.got \cup {x}]
      BY <2>1, <2>2, <2>4 DEF Readers
    <3> HIDE DEF x
    <3>2. /\ reader'.on = r.on /\ reader'.path = r.path /\ reader'.tail = r.tail
          /\ reader'.want = r.want /\ reader'.pos = r.pos + 1 /\ reader'.got = r.got \cup {x}
      BY <2>2, <3>1 DEF Readers
    <3>3. ASSUME NEW i \in DOMAIN a, i > r.pos
          PROVE  a[i] = x \/ i > r.pos + 1
      BY <2>2, <3>3 DEF x
    <3>4. Content(Now', reader'.path) = a
      BY <1>3, <3>2 DEF a, r
    <3>5. ASSUME NEW n \in r.want
          PROVE  n \in reader'.got \/ n \in ToSet(r.tail) \/ ToCome(Now', n)
      <4>1. CASE \E i \in DOMAIN a : i > r.pos /\ a[i] = n
        <5>1. PICK i \in DOMAIN a : i > r.pos /\ a[i] = n
          BY <4>1
        <5>2. QED
          BY <1>2, <3>2, <3>3, <3>4, <5>1 DEF ToCome
      <4>2. QED
        BY <2>3, <3>2, <3>5, <4>1
    <3>6. Reading(Now')
      BY <1>2, <2>1, <2>3, <3>2, <3>5 DEF Reading
    <3>7. QED
      BY <1>1, <3>6 DEF Served
  <2>5. CASE ~(r.pos < Len(a))
    <3>1. /\ reader'.path = Gone /\ reader'.want = r.want /\ reader'.got = r.got \cup ToSet(r.tail)
      BY <2>1, <2>2, <2>5 DEF Readers
    <3>2. ASSUME NEW n \in r.want
          PROVE  n \in reader'.got
      <4>1. \A i \in DOMAIN a : ~(i > r.pos)
        BY <2>2, <2>5
      <4>2. QED
        BY <2>3, <3>1, <3>2, <4>1
    <3>3. Reading(Now')
      BY <1>2, <3>1, <3>2, PathsAre DEF Reading
    <3>4. QED
      BY <1>1, <3>3 DEF Served
  <2>6. QED
    BY <2>4, <2>5
<1>6. QED
  BY <1>4, <1>5

LEMMA NextServed ==
    ASSUME Served(Now), [Next]_vars, ~SlowReader
    PROVE  Served(Now)'
<1>1. CASE Begin
  <2>1. PICK s : Alike(Now, s) /\ Becomes(IF MayLog THEN Logged(s) ELSE s)
    BY <1>1, BeginIs DEF Served
  <2>2. Served(s)
    BY <2>1, AlikeServed
  <2>3. Served(Logged(s))
    BY <2>2, LoggedIs, SameServed DEF Served, Noted
  <2>4. QED
    BY <2>1, <2>2, <2>3, BecomesServed
<1>2. CASE Events
  <2>1. PICK u : Noted(Now, u) /\ Becomes(u)
    BY <1>2, EventIs DEF Served
  <2>2. Served(u)
    BY <2>1, SameServed DEF Noted
  <2>3. QED
    BY <2>1, <2>2, BecomesServed
<1>3. CASE Tick
  BY <1>3, TickServed
<1>4. ASSUME NEW d \in {"flush", "limits"}, Elapses(d)
      PROVE  Served(Now)'
  <2>1. Typed(Now)' /\ Now'.f = Now.f /\ Now'.r = Now.r
    BY <1>4, ElapsesIs DEF Served, Elapses, Now
  <2>2. Served(Now')
    BY <2>1, SameServed
  <2>3. QED
    BY <2>2
<1>5. CASE DeleteLog
  <2>1. PICK p : Becomes(Delete(Now, p))
    BY <1>5 DEF DeleteLog
  <2>2. Served(Delete(Now, p))
    BY DeleteIs, DeleteServed DEF Served
  <2>3. QED
    BY <2>1, <2>2, BecomesServed
<1>6. CASE DeleteAll
  <2>1. Alike(Now, DeleteAllLogs(Now)) /\ Becomes(DeleteAllLogs(Now))
    BY <1>6, DeleteAllIs DEF DeleteAll, Served
  <2>2. QED
    BY <2>1, AlikeServed, BecomesServed
<1>7. CASE ReadLog \/ ReadMore
  BY <1>7, ReadServed
<1>8. CASE PowerCut
  <2>1. Typed(Now') /\ Now'.r = NoReader
    BY <1>8, CutIs DEF Cut, Served
  <2>2. Reading(Now')
    BY <2>1 DEF Reading, NoReader, Gone
  <2>3. QED
    BY <2>1, <2>2 DEF Served
<1>9. CASE ChangeSettings \/ UNCHANGED vars
  <2>1. Now' = Now
    BY <1>9 DEF ChangeSettings, vars, Now
  <2>2. QED
    BY <2>1
<1>10. QED
  BY <1>1, <1>2, <1>3, <1>4, <1>5, <1>6, <1>7, <1>8, <1>9 DEF Next, Requests

(* A download has every line that was in its file or in memory when it     *)
(* began (data_logger.cpp:64-87, 631-665), though flushes and rotations go *)
(* on below it, provided it ends before the compression of its file does.  *)
THEOREM ReaderIsServed ==
    ASSUME ~SlowReader
    PROVE  Spec => []ReaderMissesNothing
<1>1. Init => Served(Now)
  <2> SUFFICES ASSUME Init
               PROVE  Served(Now)
    OBVIOUS
  <2>1. Typed(Now)
    BY InitSound DEF Sound
  <2>2. Now.r = NoReader
    BY DEF Init, Now
  <2>3. Reading(Now)
    BY <2>2 DEF Reading, NoReader, Gone
  <2>4. QED
    BY <2>1, <2>3 DEF Served
<1>2. Served(Now) => ReaderMissesNothing
  BY DEF Served, Reading, ReaderMissesNothing, Now
<1>3. Served(Now) /\ [Next]_vars => Served(Now)'
  BY NextServed
<1>4. QED
  BY <1>1, <1>2, <1>3, PTL DEF Spec

(***************************************************************************)
(* Part 2: the encoder.                                                    *)
(***************************************************************************)

-----------------------------------------------------------------------------
(* What a step of the encoder does to its control.                         *)

LEMMA PushBitsKeeps ==
    ASSUME NEW e, HasControl(e), NEW o, NEW count, NEW bits
    PROVE  Keeps(PushBits(e, o, count, bits), e)
BY DEF PushBits, HasControl, Keeps

LEMMA PushOutgoingKeeps ==
    ASSUME NEW e, HasControl(e), NEW o
    PROVE  Keeps(PushOutgoing(e, o), e)
<1> DEFINE more == [e EXCEPT !.count = e.count - ByteBits]
           last == [e EXCEPT !.count = 0]
<1>1. /\ HasControl(more) /\ more.finishing = e.finishing /\ more.state = e.state
      /\ HasControl(last) /\ last.finishing = e.finishing /\ last.state = e.state
  BY DEF HasControl
<1>2. \/ PushOutgoing(e, o) = PushBits(more, o, ByteBits, e.outgoing \div Pow2[e.count - ByteBits])
      \/ PushOutgoing(e, o) = PushBits(last, o, e.count, e.outgoing)
  BY DEF PushOutgoing
<1> HIDE DEF more, last
<1>3. /\ Keeps(PushBits(more, o, ByteBits, e.outgoing \div Pow2[e.count - ByteBits]), more)
      /\ Keeps(PushBits(last, o, e.count, e.outgoing), last)
  BY <1>1, PushBitsKeeps
<1>4. QED
  BY <1>1, <1>2, <1>3 DEF Keeps

LEMMA GoesControl ==
    ASSUME NEW e, NEW s, Keeps(s, e), NEW state
    PROVE  /\ HasControl(Goes(s, state).e)
           /\ Goes(s, state).e.finishing = e.finishing
           /\ Goes(s, state).e.state = state
<1>1. Goes(s, state) = [e |-> [s.e EXCEPT !.state = state], o |-> s.o]
  BY DEF Goes, Keeps
<1>2. QED
  BY <1>1 DEF Keeps, HasControl

\* The end begins only in the search, when the encoder is finishing.
LEMMA StepControl ==
    ASSUME NEW e, EndsWhenFinished(e), NEW o
    PROVE  /\ EndsWhenFinished(EncoderStep(e, o).e)
           /\ EncoderStep(e, o).e.finishing = e.finishing
<1> DEFINE s == EncoderStep(e, o)
<1>1. HasControl(e)
  BY DEF EndsWhenFinished
<1>2. CASE e.state = "filled"
  BY <1>2 DEF EncoderStep, Stays, EndsWhenFinished, HasControl, Ending
<1>3. CASE e.state = "search"
  <2>1. s.e = StepSearch(e)
    BY <1>3 DEF EncoderStep, Stays
  <2> DEFINE m == Match(e)
  <2>2. \/ e.finishing /\ s.e = [e EXCEPT !.state = "flush_bits"]
        \/ s.e = [e EXCEPT !.state = "save_backlog"]
        \/ s.e = [e EXCEPT !.match_scan_index = @ + 1, !.match_length = 0, !.state = "yield_tag_bit"]
        \/ s.e = [e EXCEPT !.match_pos = m.at, !.match_length = m.len, !.state = "yield_tag_bit"]
    BY <2>1 DEF StepSearch
  <2>3. QED
    BY <1>1, <2>2 DEF EndsWhenFinished, HasControl, Ending
<1>4. CASE e.state = "save_backlog"
  <2>1. s.e = SaveBacklog(e)
    BY <1>4 DEF EncoderStep, Stays
  <2>2. HasControl(s.e) /\ s.e.finishing = e.finishing /\ s.e.state = "not_full"
    BY <1>1, <2>1 DEF SaveBacklog, HasControl
  <2>3. QED
    BY <2>2 DEF EndsWhenFinished, Ending
<1>5. CASE e.state = "flush_bits" /\ (e.bit_index = 0 \/ ~Full(o))
  <2>1. s = FlushBits(e, o)
    BY <1>5 DEF EncoderStep
  <2>2. s.e = [e EXCEPT !.state = "done"]
    BY <2>1 DEF FlushBits, Stays
  <2>3. QED
    BY <1>5, <2>2 DEF EndsWhenFinished, HasControl, Ending
<1>6. CASE e.state = "yield_tag_bit" /\ ~Full(o)
  <2> DEFINE br == [e EXCEPT !.outgoing = e.match_pos - 1, !.count = WindowBits]
  <2>1. \/ s = Goes(PushBits(e, o, 1, 1), "yield_literal")
        \/ s = Goes(PushBits(br, o, 1, 0), "yield_br_index")
    BY <1>6 DEF EncoderStep, YieldTagBit
  <2>2. HasControl(br) /\ br.finishing = e.finishing
    BY <1>1 DEF HasControl
  <2> HIDE DEF br
  <2>3. Keeps(PushBits(e, o, 1, 1), e) /\ Keeps(PushBits(br, o, 1, 0), br)
    BY <1>1, <2>2, PushBitsKeeps
  <2>4. QED
    BY <2>1, <2>2, <2>3, GoesControl DEF EndsWhenFinished, Ending
<1>7. CASE e.state = "yield_literal" /\ ~Full(o)
  <2> DEFINE byte == e.buffer[Window + e.match_scan_index - 1]
  <2>1. s = Goes(PushBits(e, o, ByteBits, byte), "search")
    BY <1>7 DEF EncoderStep, YieldLiteral
  <2> HIDE DEF byte
  <2>2. Keeps(PushBits(e, o, ByteBits, byte), e)
    BY <1>1, PushBitsKeeps
  <2>3. QED
    BY <2>1, <2>2, GoesControl DEF EndsWhenFinished, Ending
<1>8. CASE e.state = "yield_br_index" /\ ~Full(o)
  <2> DEFINE next == [e EXCEPT !.outgoing = e.match_length - 1, !.count = LookaheadBits,
                                    !.state = "yield_br_length"]
  <2>1. s = PushOutgoing(e, o) \/ s.e = next
    BY <1>8 DEF EncoderStep, YieldBrIndex, Stays
  <2>2. CASE s = PushOutgoing(e, o)
    <3>1. Keeps(s, e)
      BY <1>1, <2>2, PushOutgoingKeeps
    <3> HIDE DEF s
    <3>2. EndsWhenFinished(s.e) /\ s.e.finishing = e.finishing
      BY <3>1 DEF Keeps, EndsWhenFinished
    <3>3. QED
      BY <3>2 DEF s
  <2>3. CASE s.e = next
    <3> HIDE DEF s
    <3>1. EndsWhenFinished(s.e) /\ s.e.finishing = e.finishing
      BY <1>1, <2>3 DEF EndsWhenFinished, HasControl, Ending
    <3>2. QED
      BY <3>1 DEF s
  <2>4. QED
    BY <2>1, <2>2, <2>3
<1>9. CASE e.state = "yield_br_length" /\ ~Full(o)
  <2> DEFINE next == [e EXCEPT !.match_scan_index = @ + e.match_length, !.match_length = 0,
                                    !.state = "search"]
  <2>1. s = PushOutgoing(e, o) \/ s.e = next
    BY <1>9 DEF EncoderStep, YieldBrLength, Stays
  <2>2. CASE s = PushOutgoing(e, o)
    <3>1. Keeps(s, e)
      BY <1>1, <2>2, PushOutgoingKeeps
    <3> HIDE DEF s
    <3>2. EndsWhenFinished(s.e) /\ s.e.finishing = e.finishing
      BY <3>1 DEF Keeps, EndsWhenFinished
    <3>3. QED
      BY <3>2 DEF s
  <2>3. CASE s.e = next
    <3> HIDE DEF s
    <3>1. EndsWhenFinished(s.e) /\ s.e.finishing = e.finishing
      BY <1>1, <2>3 DEF EndsWhenFinished, HasControl, Ending
    <3>2. QED
      BY <3>1 DEF s
  <2>4. QED
    BY <2>1, <2>2, <2>3
<1>10. CASE s = Stays(e, o)
  BY <1>10 DEF Stays
<1>11. QED
  BY <1>2, <1>3, <1>4, <1>5, <1>6, <1>7, <1>8, <1>9, <1>10 DEF EncoderStep

-----------------------------------------------------------------------------
(* The loop and the encoder.                                               *)

LEMMA InitHsInv == HsInit => HsInv
BY DEF HsInit, HsInv, EncoderReset, EndsWhenFinished, HasControl, Ending, Feeding

LEMMA CompressHsInv == HsInv /\ Compress => HsInv'
<1> SUFFICES ASSUME HsInv, Compress
             PROVE  HsInv'
  OBVIOUS
<1> USE DEF HsInv
<1>1. CASE ReadSource
  BY <1>1 DEF ReadSource, Feeding
<1>2. CASE SinkChunk
  <2> DEFINE s == Sink(enc, caller.left)
  <2>1. enc' = s.e /\ caller.at = "read" /\ caller'.at = "poll" /\ {"at", "left"} \subseteq DOMAIN caller'
    BY <1>2 DEF SinkChunk
  <2>2. HasControl(s.e) /\ s.e.finishing = enc.finishing /\ s.e.state \in {enc.state, "filled"}
    BY DEF Sink, EndsWhenFinished, HasControl
  <2> HIDE DEF s
  <2>3. QED
    BY <2>1, <2>2 DEF EndsWhenFinished, Ending, Feeding
<1>3. CASE Finish
  <2>1. /\ enc' = [enc EXCEPT !.finishing = TRUE, !.state = IF @ = "not_full" THEN "filled" ELSE @]
        /\ caller'.at \in {"done", "poll_rest"} /\ {"at", "left"} \subseteq DOMAIN caller'
    BY <1>3 DEF Finish
  <2>2. QED
    BY <2>1 DEF EndsWhenFinished, HasControl, Feeding
<1>4. CASE PollStep
  <2>1. enc' = EncoderStep(enc, out).e /\ caller' = caller /\ caller.at # "read"
    BY <1>4 DEF PollStep, Polling
  <2>2. QED
    BY <2>1, StepControl DEF Feeding
<1>5. CASE PollReturns
  <2>1. enc' = enc /\ caller' = AfterPoll /\ caller.at \in {"poll", "poll_rest"}
    BY <1>5 DEF PollReturns, Polling
  <2>2. CASE ~Empty
    BY <2>1, <2>2 DEF AfterPoll
  <2>3. CASE Empty
    <3>1. /\ caller'.at = IF caller.at = "poll" THEN "read" ELSE "finish"
          /\ {"at", "left"} \subseteq DOMAIN caller'
      BY <2>1, <2>3 DEF AfterPoll
    <3>2. caller.at = "poll" => enc.state = "not_full"
      BY <2>3 DEF Empty, EndsWhenFinished, Ending, Feeding
    <3>3. QED
      BY <2>1, <3>1, <3>2 DEF Feeding
  <2>4. QED
    BY <2>2, <2>3
<1>6. QED
  BY <1>1, <1>2, <1>3, <1>4, <1>5 DEF Compress

LEMMA NextHsInv == HsInv /\ [HsNext]_hsVars => HsInv'
<1> SUFFICES ASSUME HsInv, [HsNext]_hsVars
             PROVE  HsInv'
  OBVIOUS
<1>1. CASE Compress
  BY <1>1, CompressHsInv
<1>2. CASE Read \/ UNCHANGED hsVars
  <2>1. UNCHANGED <<enc, caller>>
    BY <1>2 DEF Read, Open, DecodeStep, Refill, SinkInput, EndOfInput, hsVars
  <2>2. QED
    BY <2>1 DEF HsInv
<1>3. QED
  BY <1>1, <1>2 DEF HsNext

(* compressStep() never sinks into an encoder that is full or finished     *)
(* (heatshrink_encoder_32bit.cpp:170, the misuse it reports), so the error *)
(* paths that give the source up are not taken.                            *)
THEOREM EncoderNeverMisused == HsSpec => []CallsAreLegal
<1>1. HsInv => CallsAreLegal
  BY DEF HsInv, CallsAreLegal, MaySink, Feeding
<1>2. QED
  BY <1>1, InitHsInv, NextHsInv, PTL DEF HsSpec

(***************************************************************************)
(* Part 3: what is served is what was compressed.                          *)
(*                                                                         *)
(* The invariant and its terms are in HeatshrinkInvariant.                 *)
(* A recursive function is reasoned about through the least number for     *)
(* which what is claimed of it fails.                                      *)
(***************************************************************************)

-----------------------------------------------------------------------------
(* Least elements, powers of two, quotients and rests.                     *)

LEMMA LeastElement ==
    ASSUME NEW S, S \subseteq Nat, S # {}
    PROVE  \E x \in S : \A y \in S : x <= y
<1>1. IsWellFoundedOn(Less, Nat)
  BY NatLessThanWellFounded DEF OpToRel, Less
<1>2. PICK x \in S : \A y \in S : ~(<<y, x>> \in Less)
  BY <1>1, WFMin, Zenon
<1>3. ASSUME NEW y \in S PROVE x <= y
  <2>1. x \in Nat /\ y \in Nat OBVIOUS
  <2>2. ~(y < x) BY <1>2, <2>1 DEF Less
  <2> QED BY <2>1, <2>2
<1> QED BY <1>3

LEMMA PowersExist == ASSUME NEW n \in Nat PROVE PowersTo(n) # {}
<1> DEFINE S == {k \in Nat : PowersTo(k) = {}}
<1> SUFFICES ASSUME S # {} PROVE FALSE OBVIOUS
<1>1. PICK k \in S : \A y \in S : k <= y
  BY LeastElement
<1>2. CASE k = 0
  <2> DEFINE f == [i \in 0 .. 0 |-> 1]
  <2>1. f \in PowersTo(0) BY DEF PowersTo
  <2> QED BY <2>1, <1>2
<1>3. CASE k # 0
  <2>1. k - 1 \in Nat /\ k - 1 \notin S BY <1>1, <1>3
  <2>2. PICK f : f \in PowersTo(k - 1) BY <2>1
  <2>3. f \in [0 .. k - 1 -> Nat \ {0}] /\ f[0] = 1 /\ \A i \in 1 .. k - 1 : f[i] = 2 * f[i - 1]
    BY <2>2 DEF PowersTo
  <2> DEFINE g == [i \in 0 .. k |-> IF i = k THEN 2 * f[k - 1] ELSE f[i]]
  <2>4. ASSUME NEW i \in 0 .. k PROVE g[i] \in Nat \ {0}
    <3>1. CASE i = k
      <4>1. f[k - 1] \in Nat \ {0} BY <2>1, <2>3
      <4> QED BY <3>1, <4>1
    <3>2. CASE i # k
      <4>1. i \in 0 .. k - 1 BY <3>2, <2>1
      <4> QED BY <3>2, <4>1, <2>3
    <3> QED BY <3>1, <3>2
  <2>5. g[0] = 1 BY <2>3, <1>3
  <2>6. ASSUME NEW i \in 1 .. k PROVE g[i] = 2 * g[i - 1]
    <3>1. i - 1 \in 0 .. k /\ i - 1 # k /\ i \in 0 .. k BY <2>1
    <3>2. CASE i = k BY <3>1, <3>2
    <3>3. CASE i # k
      <4>1. i \in 1 .. k - 1 BY <3>3, <2>1
      <4> QED BY <3>1, <3>3, <4>1, <2>3
    <3> QED BY <3>2, <3>3
  <2>7. g \in PowersTo(k) BY <2>4, <2>5, <2>6 DEF PowersTo
  <2> QED BY <2>7
<1> QED BY <1>2, <1>3

LEMMA PowersAgree ==
    ASSUME NEW n \in Nat, NEW m \in Nat, NEW f \in PowersTo(n), NEW g \in PowersTo(m),
           NEW i \in Nat, i <= n, i <= m
    PROVE  f[i] = g[i]
<1> DEFINE S == {j \in Nat : j <= n /\ j <= m /\ f[j] # g[j]}
<1> SUFFICES ASSUME S # {} PROVE FALSE OBVIOUS
<1>1. PICK k \in S : \A y \in S : k <= y
  BY LeastElement
<1>2. k # 0 BY DEF PowersTo
<1>3. k - 1 \in Nat /\ k - 1 \notin S BY <1>1, <1>2
<1>4. f[k - 1] = g[k - 1] BY <1>3
<1>5. k \in 1 .. n /\ k \in 1 .. m BY <1>2
<1>6. f[k] = 2 * f[k - 1] /\ g[k] = 2 * g[k - 1] BY <1>5 DEF PowersTo
<1> QED BY <1>4, <1>6

LEMMA Pow2Is == Pow2 = [n \in Nat |-> IF n = 0 THEN 1 ELSE 2 * Pow2[n - 1]]
<1> DEFINE F(n) == CHOOSE f : f \in PowersTo(n)
           p == [n \in Nat |-> F(n)[n]]
<1>1. ASSUME NEW n \in Nat PROVE F(n) \in PowersTo(n)
  BY PowersExist, Zenon
<1> HIDE DEF F
<1>2. ASSUME NEW n \in Nat PROVE p[n] = IF n = 0 THEN 1 ELSE 2 * p[n - 1]
  <2>1. CASE n = 0 BY <2>1, <1>1 DEF PowersTo
  <2>2. CASE n # 0
    <3>1. n - 1 \in Nat /\ n \in 1 .. n BY <2>2
    <3>2. F(n)[n] = 2 * F(n)[n - 1] BY <1>1, <3>1 DEF PowersTo
    <3>3. F(n)[n - 1] = F(n - 1)[n - 1] BY <1>1, <3>1, PowersAgree
    <3> QED BY <3>1, <3>2, <3>3, <2>2
  <2> QED BY <2>1, <2>2
<1>3. p = [n \in Nat |-> IF n = 0 THEN 1 ELSE 2 * p[n - 1]]
  BY <1>2
<1> HIDE DEF p
<1>4. \E f : f = [n \in Nat |-> IF n = 0 THEN 1 ELSE 2 * f[n - 1]]
  BY <1>3, Zenon
<1> QED BY <1>4, Zenon DEF Pow2

LEMMA Pow2Zero == Pow2[0] = 1
  BY Pow2Is
LEMMA Pow2Next == ASSUME NEW n \in Nat PROVE Pow2[n + 1] = 2 * Pow2[n]
<1>1. n + 1 \in Nat /\ n + 1 # 0 /\ (n + 1) - 1 = n OBVIOUS
<1> QED BY <1>1, Pow2Is
LEMMA Pow2Type == ASSUME NEW n \in Nat PROVE Pow2[n] \in Nat /\ Pow2[n] >= 1
<1> DEFINE S == {k \in Nat : ~(Pow2[k] \in Nat /\ Pow2[k] >= 1)}
<1> SUFFICES ASSUME S # {} PROVE FALSE OBVIOUS
<1>1. PICK k \in S : \A y \in S : k <= y
  BY LeastElement
<1>2. k # 0 BY Pow2Zero
<1>3. k - 1 \in Nat /\ k - 1 \notin S BY <1>1, <1>2
<1>4. Pow2[(k - 1) + 1] = 2 * Pow2[k - 1] BY <1>3, Pow2Next
<1>5. (k - 1) + 1 = k OBVIOUS
<1> QED BY <1>3, <1>4, <1>5
LEMMA Pow2Sum ==
    ASSUME NEW m \in Nat, NEW n \in Nat
    PROVE  Pow2[m + n] = Pow2[m] * Pow2[n]
<1> DEFINE S == {k \in Nat : Pow2[m + k] # Pow2[m] * Pow2[k]}
<1> SUFFICES ASSUME S # {} PROVE FALSE OBVIOUS
<1>1. PICK k \in S : \A y \in S : k <= y
  BY LeastElement
<1>0. Pow2[m] \in Nat BY Pow2Type
<1>2. k # 0 BY Pow2Zero, <1>0
<1>3. k - 1 \in Nat /\ k - 1 \notin S BY <1>1, <1>2
<1>4. Pow2[(k - 1) + 1] = 2 * Pow2[k - 1] BY <1>3, Pow2Next
<1>5. Pow2[(m + (k - 1)) + 1] = 2 * Pow2[m + (k - 1)] BY <1>3, Pow2Next
<1>6. (k - 1) + 1 = k /\ (m + (k - 1)) + 1 = m + k OBVIOUS
<1>7. Pow2[m + (k - 1)] = Pow2[m] * Pow2[k - 1] BY <1>3
<1>8. Pow2[k - 1] \in Nat BY <1>3, Pow2Type
<1>9. Pow2[m + k] = 2 * (Pow2[m] * Pow2[k - 1]) BY <1>5, <1>6, <1>7
<1>10. Pow2[k] = 2 * Pow2[k - 1] BY <1>4, <1>6
<1>11. 2 * (Pow2[m] * Pow2[k - 1]) = Pow2[m] * (2 * Pow2[k - 1]) BY <1>0, <1>8
<1> QED BY <1>9, <1>10, <1>11
LEMMA DivRest ==
    ASSUME NEW x \in Nat, NEW a \in Nat, a >= 1
    PROVE  /\ x \div a \in Nat /\ x % a \in Nat /\ x % a < a
           /\ x = (x \div a) * a + (x % a)
  BY Z3
LEMMA DivIs ==
    ASSUME NEW x \in Nat, NEW a \in Nat, a >= 1, NEW q \in Nat, NEW r \in Nat, r < a, x = q * a + r
    PROVE  x \div a = q /\ x % a = r
<1> DEFINE p == x \div a
           s == x % a
<1>1. p \in Nat /\ s \in Nat /\ s < a /\ x = p * a + s BY DivRest
<1> HIDE DEF p, s
<1>2. (p - q) * a = r - s BY <1>1
<1>3. ~(p - q >= 1)
  <2> SUFFICES ASSUME p - q >= 1 PROVE FALSE OBVIOUS
  <2>1. (p - q) * a >= a BY <1>1
  <2> QED BY <2>1, <1>2, <1>1
<1>4. ~(p - q <= -1)
  <2> SUFFICES ASSUME p - q <= -1 PROVE FALSE OBVIOUS
  <2>1. (p - q) * a <= -a BY <1>1
  <2> QED BY <2>1, <1>2, <1>1
<1>5. p = q BY <1>3, <1>4, <1>1
<1>6. s = r BY <1>5, <1>1
<1> QED BY <1>5, <1>6 DEF p, s
LEMMA DivSmall ==
    ASSUME NEW x \in Nat, NEW a \in Nat, x < a
    PROVE  x \div a = 0 /\ x % a = x
  BY DivIs
LEMMA DivDiv ==
    ASSUME NEW x \in Nat, NEW a \in Nat, a >= 1, NEW b \in Nat, b >= 1
    PROVE  x \div (a * b) = (x \div a) \div b /\ x % (a * b) = ((x \div a) % b) * a + (x % a)
<1> DEFINE q == x \div a
           r == x % a
           p == q \div b
           s == q % b
<1>1. q \in Nat /\ r \in Nat /\ r < a /\ x = q * a + r BY DivRest
<1> HIDE DEF q, r
<1>2. p \in Nat /\ s \in Nat /\ s < b /\ q = p * b + s BY <1>1, DivRest
<1> HIDE DEF p, s
<1>3. x = p * (a * b) + (s * a + r)
  <2>1. q * a = (p * b + s) * a BY <1>2
  <2>2. (p * b + s) * a = p * (a * b) + s * a BY <1>2
  <2> QED BY <1>1, <1>2, <2>1, <2>2
<1>4. s * a + r \in Nat BY <1>1, <1>2
<1>5. s * a + r < a * b
  <2>1. s + 1 <= b BY <1>2
  <2>2. (s + 1) * a <= b * a BY <2>1, <1>2
  <2>3. (s + 1) * a = s * a + a BY <1>2
  <2>4. b * a = a * b OBVIOUS
  <2>5. s * a \in Nat /\ a * b \in Nat BY <1>2
  <2> QED BY <2>2, <2>3, <2>4, <2>5, <1>1
<1>6. a * b \in Nat /\ a * b >= 1 OBVIOUS
<1>7. x \div (a * b) = p /\ x % (a * b) = s * a + r
  BY <1>2, <1>3, <1>4, <1>5, <1>6, DivIs
<1> QED BY <1>7 DEF p, s, q, r
LEMMA ModMul ==
    ASSUME NEW x \in Nat, NEW a \in Nat, a >= 1, NEW b \in Nat, b >= 1
    PROVE  (x * a) % (b * a) = (x % b) * a
<1> DEFINE q == x \div b
           r == x % b
<1>1. q \in Nat /\ r \in Nat /\ r < b /\ x = q * b + r BY DivRest
<1> HIDE DEF q, r
<1>2. x * a = q * (b * a) + r * a
  <2>1. x * a = (q * b + r) * a BY <1>1
  <2>2. (q * b + r) * a = q * (b * a) + r * a BY <1>1
  <2> QED BY <2>1, <2>2
<1>3. r * a < b * a
  <2>1. (r + 1) * a <= b * a BY <1>1
  <2>2. (r + 1) * a = r * a + a BY <1>1
  <2>3. r * a \in Nat /\ b * a \in Nat BY <1>1
  <2> QED BY <2>1, <2>2, <2>3
<1>4. x * a \in Nat /\ r * a \in Nat /\ b * a \in Nat /\ b * a >= 1 BY <1>1
<1>5. (x * a) % (b * a) = r * a BY <1>1, <1>2, <1>3, <1>4, DivIs
<1> QED BY <1>5 DEF r
LEMMA DivSum ==
    ASSUME NEW q \in Nat, NEW a \in Nat, NEW r \in Nat, r < a
    PROVE  (q * a + r) \div a = q /\ (q * a + r) % a = r
<1>1. q * a + r \in Nat OBVIOUS
<1> QED BY <1>1, DivIs

-----------------------------------------------------------------------------
(* Places in a stream, and fields.                                         *)

LEMMA ByteIs == ByteBits \in Nat \ {0} /\ \A x : x \in Byte <=> x \in Nat /\ x < Pow2[ByteBits]
<1>1. ByteBits \in Nat \ {0} BY BitsAssumption
<1>2. Pow2[ByteBits] \in Nat BY <1>1, Pow2Type
<1> QED BY <1>1, <1>2 DEF Byte

LEMMA Pow2Split ==
    ASSUME NEW m \in Nat, NEW n \in Nat, n <= m
    PROVE  /\ Pow2[m] = Pow2[n] * Pow2[m - n] /\ Pow2[m] = Pow2[m - n] * Pow2[n]
           /\ Pow2[m] \in Nat /\ Pow2[n] \in Nat /\ Pow2[m - n] \in Nat
           /\ Pow2[m] >= 1 /\ Pow2[n] >= 1 /\ Pow2[m - n] >= 1
<1>1. m - n \in Nat /\ n + (m - n) = m OBVIOUS
<1>2. Pow2[n + (m - n)] = Pow2[n] * Pow2[m - n] BY <1>1, Pow2Sum
<1>3. Pow2[m] \in Nat /\ Pow2[n] \in Nat /\ Pow2[m - n] \in Nat /\ Pow2[m] >= 1 /\ Pow2[n] >= 1 /\ Pow2[m - n] >= 1
  BY <1>1, Pow2Type
<1>4. Pow2[m] = Pow2[n] * Pow2[m - n] BY <1>1, <1>2
<1>5. Pow2[n] * Pow2[m - n] = Pow2[m - n] * Pow2[n] BY <1>3
<1> QED BY <1>3, <1>4, <1>5

LEMMA AtType ==
    ASSUME NEW Y \in Seq(Byte), NEW c \in Nat, c <= Len(Y)
    PROVE  At(Y, c) \in Nat /\ At(Y, c) < Pow2[ByteBits] /\ At(Y, c) \in Byte
<1>1. Pow2[ByteBits] \in Nat /\ Pow2[ByteBits] >= 1 BY ByteIs, Pow2Type
<1>2. CASE c = 0 BY <1>1, <1>2, ByteIs DEF At
<1>3. CASE c # 0
  <2>1. c \in 1 .. Len(Y) BY <1>3
  <2>2. Y[c] \in Byte BY <2>1
  <2> QED BY <2>2, <1>3, ByteIs DEF At
<1> QED BY <1>2, <1>3

LEMMA AfterType ==
    ASSUME NEW P \in Pos, NEW n \in Nat, n <= ByteBits
    PROVE  /\ After(P, n) \in Pos /\ UpTo(P, After(P, n))
           /\ After(P, n).c = IF n <= P.b THEN P.c ELSE P.c + 1
           /\ After(P, n).b = IF n <= P.b THEN P.b - n ELSE ByteBits - (n - P.b)
<1>1. ByteBits \in Nat \ {0} BY ByteIs
<1>2. P.c \in Nat /\ P.b \in 0 .. ByteBits - 1 BY DEF Pos
<1>3. CASE n <= P.b BY <1>1, <1>2, <1>3 DEF After, Pos, UpTo
<1>4. CASE ~(n <= P.b) BY <1>1, <1>2, <1>4 DEF After, Pos, UpTo
<1> QED BY <1>3, <1>4

LEMMA AfterAfter ==
    ASSUME NEW P \in Pos, NEW m \in Nat, NEW n \in Nat, m + n <= ByteBits
    PROVE  After(After(P, m), n) = After(P, m + n)
<1>1. ByteBits \in Nat \ {0} BY ByteIs
<1>2. P.c \in Nat /\ P.b \in 0 .. ByteBits - 1 BY DEF Pos
<1>3. CASE m + n <= P.b BY <1>1, <1>2, <1>3 DEF After
<1>4. CASE m <= P.b /\ ~(m + n <= P.b) BY <1>1, <1>2, <1>4 DEF After
<1>5. CASE ~(m <= P.b)
  <2>1. After(P, m) = [c |-> P.c + 1, b |-> ByteBits - (m - P.b)] BY <1>5 DEF After
  <2>2. n <= ByteBits - (m - P.b) BY <1>1, <1>2
  <2>3. After(After(P, m), n) = [c |-> P.c + 1, b |-> (ByteBits - (m - P.b)) - n] BY <2>1, <2>2 DEF After
  <2>4. After(P, m + n) = [c |-> P.c + 1, b |-> ByteBits - ((m + n) - P.b)] BY <1>5, <1>2 DEF After
  <2>5. (ByteBits - (m - P.b)) - n = ByteBits - ((m + n) - P.b) BY <1>1, <1>2
  <2> QED BY <2>3, <2>4, <2>5
<1> QED BY <1>3, <1>4, <1>5, <1>1, <1>2

LEMMA UpToTransitive ==
    ASSUME NEW P \in Pos, NEW Q \in Pos, NEW R \in Pos, UpTo(P, Q), UpTo(Q, R)
    PROVE  UpTo(P, R)
<1>1. ByteBits \in Nat BY ByteIs
<1>2. /\ P.c \in Nat /\ Q.c \in Nat /\ R.c \in Nat
      /\ P.b \in 0 .. ByteBits - 1 /\ Q.b \in 0 .. ByteBits - 1 /\ R.b \in 0 .. ByteBits - 1
  BY DEF Pos
<1> QED BY <1>1, <1>2 DEF UpTo

LEMMA FieldBound ==
    ASSUME NEW Y \in Seq(Byte), NEW P \in Pos, NEW n \in Nat, n <= ByteBits, After(P, n).c <= Len(Y)
    PROVE  Field(Y, P, n) \in Nat /\ Field(Y, P, n) < Pow2[n]
<1>1. ByteBits \in Nat \ {0} BY ByteIs
<1>2. P.c \in Nat /\ P.b \in 0 .. ByteBits - 1 BY DEF Pos
<1>3. CASE n <= P.b
  <2>1. P.c <= Len(Y) BY <1>3, AfterType
  <2> DEFINE y == At(Y, P.c)
             u == Pow2[P.b - n]
             v == Pow2[n]
  <2>2. y \in Nat BY <1>2, <2>1, AtType
  <2>3. u \in Nat /\ u >= 1 /\ v \in Nat /\ v >= 1 BY <1>2, <1>3, Pow2Type
  <2>4. Field(Y, P, n) = (y \div u) % v BY <1>3 DEF Field
  <2> HIDE DEF y, u, v
  <2>5. y \div u \in Nat BY <2>2, <2>3, DivRest
  <2>6. (y \div u) % v \in Nat /\ (y \div u) % v < v BY <2>5, <2>3, DivRest
  <2> QED BY <2>4, <2>6 DEF v
<1>4. CASE ~(n <= P.b)
  <2>1. P.c + 1 <= Len(Y) /\ P.c <= Len(Y) /\ P.c + 1 # 0 BY <1>2, <1>4, AfterType
  <2> DEFINE y == At(Y, P.c)
             z == Y[P.c + 1]
             k == n - P.b
             u == Pow2[P.b]
             v == Pow2[k]
             w == Pow2[ByteBits - k]
  <2>2. y \in Nat BY <1>2, <2>1, AtType
  <2>3. z \in Nat /\ z < Pow2[ByteBits] BY <1>2, <2>1, AtType DEF At
  <2>4. k \in Nat /\ k <= ByteBits /\ P.b \in Nat /\ n = k + P.b BY <1>1, <1>2, <1>4
  <2>5. Pow2[ByteBits] = v * w /\ v \in Nat /\ v >= 1 /\ w \in Nat /\ w >= 1
    BY <1>1, <2>4, Pow2Split
  <2>6. u \in Nat /\ u >= 1 BY <2>4, Pow2Type
  <2>7. Pow2[n] = v * u BY <2>4, Pow2Sum
  <2>8. Field(Y, P, n) = (y % u) * v + (z \div w) BY <1>4 DEF Field
  <2> HIDE DEF y, z, k, u, v, w
  <2>9. y % u \in Nat /\ y % u < u BY <2>2, <2>6, DivRest
  <2>10. z \div w \in Nat /\ z \div w < v
    <3> DEFINE q == z \div w
               r == z % w
    <3>1. q \in Nat /\ r \in Nat /\ r < w /\ z = q * w + r BY <2>3, <2>5, DivRest
    <3> HIDE DEF q, r
    <3>2. ~(q >= v)
      <4> SUFFICES ASSUME q >= v PROVE FALSE OBVIOUS
      <4>1. q * w >= v * w BY <2>5, <3>1
      <4> QED BY <4>1, <2>3, <2>5, <3>1
    <3> QED BY <3>1, <3>2, <2>5 DEF q
  <2> DEFINE m == y % u
             q == z \div w
  <2>11. m * v + q \in Nat /\ m * v + q < v * u
    <3> HIDE DEF m, q
    <3>0. m \in Nat /\ m < u /\ q \in Nat /\ q < v BY <2>9, <2>10 DEF m, q
    <3>1. (m + 1) * v <= u * v BY <3>0, <2>5, <2>6
    <3>2. (m + 1) * v = m * v + v /\ u * v = v * u BY <3>0, <2>5, <2>6
    <3>3. m * v \in Nat /\ v * u \in Nat BY <3>0, <2>5, <2>6
    <3> QED BY <3>0, <3>1, <3>2, <3>3, <2>5
  <2> QED BY <2>7, <2>8, <2>11
<1> QED BY <1>3, <1>4

LEMMA DivPow ==
    ASSUME NEW x \in Nat, NEW m \in Nat, NEW n \in Nat, NEW k \in Nat, k = m + n
    PROVE  /\ x \div Pow2[k] = (x \div Pow2[m]) \div Pow2[n]
           /\ x % Pow2[k] = ((x \div Pow2[m]) % Pow2[n]) * Pow2[m] + (x % Pow2[m])
<1>1. Pow2[m] \in Nat /\ Pow2[m] >= 1 /\ Pow2[n] \in Nat /\ Pow2[n] >= 1 BY Pow2Type
<1>2. Pow2[k] = Pow2[m] * Pow2[n] BY Pow2Sum
<1> DEFINE a == Pow2[m]
           b == Pow2[n]
<1> HIDE DEF a, b
<1>3. x \div (a * b) = (x \div a) \div b /\ x % (a * b) = ((x \div a) % b) * a + (x % a)
  BY <1>1, DivDiv DEF a, b
<1> QED BY <1>2, <1>3 DEF a, b

LEMMA FieldAgrees ==
    ASSUME NEW Y \in Seq(Byte), NEW Z \in Seq(Byte), NEW P \in Pos, NEW Q \in Pos,
           NEW n \in Nat, n <= ByteBits, UpTo(After(P, n), Q), Agree(Y, Z, Q)
    PROVE  Field(Y, P, n) = Field(Z, P, n) /\ After(P, n).c <= Len(Y) /\ After(P, n).c <= Len(Z)
<1>1. ByteBits \in Nat \ {0} BY ByteIs
<1>2. P.c \in Nat /\ P.b \in 0 .. ByteBits - 1 /\ Q.c \in Nat /\ Q.b \in 0 .. ByteBits - 1 BY DEF Pos
<1>3. /\ Q.c <= Len(Y) /\ Q.c <= Len(Z) /\ Len(Y) \in Nat /\ Len(Z) \in Nat
      /\ \A i \in 1 .. Q.c - 1 : Y[i] = Z[i]
      /\ At(Y, Q.c) \div Pow2[Q.b] = At(Z, Q.c) \div Pow2[Q.b]
  BY DEF Agree
<1>4. /\ After(P, n).c = IF n <= P.b THEN P.c ELSE P.c + 1
      /\ After(P, n).b = IF n <= P.b THEN P.b - n ELSE ByteBits - (n - P.b)
  BY AfterType
\* Whole bytes before Q.c are the same, and of the byte at Q.c what is above Q.b.
<1>5. ASSUME NEW c \in Nat, c < Q.c PROVE At(Y, c) = At(Z, c)
  <2>1. CASE c = 0 BY <2>1 DEF At
  <2>2. CASE c # 0
    <3>1. c \in 1 .. Q.c - 1 BY <2>2, <1>5, <1>2
    <3> QED BY <3>1, <1>3, <2>2 DEF At
  <2> QED BY <2>1, <2>2
<1>6. ASSUME NEW k \in Nat, k >= Q.b PROVE At(Y, Q.c) \div Pow2[k] = At(Z, Q.c) \div Pow2[k]
  <2> DEFINE y == At(Y, Q.c)
             z == At(Z, Q.c)
             q == Q.b
             d == k - Q.b
  <2>1. q \in Nat /\ d \in Nat /\ k = q + d BY <1>2, <1>6
  <2>2. y \in Nat /\ z \in Nat BY <1>2, <1>3, AtType
  <2>3. y \div Pow2[q] = z \div Pow2[q] BY <1>3
  <2> HIDE DEF y, z, q, d
  <2>4. y \div Pow2[k] = (y \div Pow2[q]) \div Pow2[d]
    BY <2>1, <2>2, DivPow
  <2>5. z \div Pow2[k] = (z \div Pow2[q]) \div Pow2[d]
    BY <2>1, <2>2, DivPow
  <2>6. y \div Pow2[k] = z \div Pow2[k] BY <2>3, <2>4, <2>5
  <2> QED BY <2>6 DEF y, z
<1>7. CASE n <= P.b
  <2>1. P.c < Q.c \/ (P.c = Q.c /\ Q.b <= P.b - n) BY <1>4, <1>7 DEF UpTo
  <2>2. At(Y, P.c) \div Pow2[P.b - n] = At(Z, P.c) \div Pow2[P.b - n]
    <3>1. CASE P.c < Q.c
      <4>1. At(Y, P.c) = At(Z, P.c) BY <1>5, <3>1, <1>2
      <4> QED BY <4>1
    <3>2. CASE P.c = Q.c /\ Q.b <= P.b - n
      <4>1. P.b - n \in Nat /\ P.b - n >= Q.b BY <1>2, <1>7, <3>2
      <4> QED BY <4>1, <1>6, <3>2
    <3> QED BY <2>1, <3>1, <3>2
  <2> QED BY <2>1, <2>2, <1>7, <1>4, <1>3, <1>2 DEF Field
<1>8. CASE ~(n <= P.b)
  <2>1. P.c + 1 < Q.c \/ (P.c + 1 = Q.c /\ Q.b <= ByteBits - (n - P.b)) BY <1>4, <1>8 DEF UpTo
  <2>2. At(Y, P.c) = At(Z, P.c) BY <1>5, <2>1, <1>2
  <2>3. At(Y, P.c + 1) \div Pow2[ByteBits - (n - P.b)] = At(Z, P.c + 1) \div Pow2[ByteBits - (n - P.b)]
    <3>1. CASE P.c + 1 < Q.c
      <4>1. At(Y, P.c + 1) = At(Z, P.c + 1) BY <1>5, <3>1, <1>2
      <4> QED BY <4>1
    <3>2. CASE P.c + 1 = Q.c /\ Q.b <= ByteBits - (n - P.b)
      <4>1. ByteBits - (n - P.b) \in Nat /\ ByteBits - (n - P.b) >= Q.b BY <1>1, <1>2, <1>8, <3>2
      <4> QED BY <4>1, <1>6, <3>2
    <3> QED BY <2>1, <3>1, <3>2
  <2>4. At(Y, P.c + 1) = Y[P.c + 1] /\ At(Z, P.c + 1) = Z[P.c + 1] BY <1>2 DEF At
  <2>5. Field(Y, P, n) = Field(Z, P, n) BY <2>2, <2>3, <2>4, <1>8 DEF Field
  <2> QED BY <2>1, <2>5, <1>8, <1>4, <1>3, <1>2
<1> QED BY <1>7, <1>8

LEMMA Distributes ==
    ASSUME NEW u \in Nat, NEW v \in Nat, NEW b \in Nat
    PROVE  (u + v) * b = u * b + v * b
  OBVIOUS
LEMMA Associates ==
    ASSUME NEW u \in Nat, NEW v \in Nat, NEW b \in Nat
    PROVE  (u * v) * b = u * (v * b)
  OBVIOUS

LEMMA Regroup ==
    ASSUME NEW x \in Nat, NEW a \in Nat, NEW b \in Nat, NEW y \in Nat, NEW z \in Nat
    PROVE  x * (a * b) + (y * b + z) = (x * a + y) * b + z
<1>1. x * a \in Nat /\ y * b \in Nat /\ x * (a * b) \in Nat OBVIOUS
<1>2. (x * a + y) * b = (x * a) * b + y * b BY <1>1, Distributes
<1>3. (x * a) * b = x * (a * b) BY Associates
<1> QED BY <1>1, <1>2, <1>3

LEMMA FieldSplit ==
    ASSUME NEW Y \in Seq(Byte), NEW P \in Pos, NEW m \in Nat, NEW n \in Nat, m + n <= ByteBits,
           After(P, m + n).c <= Len(Y)
    PROVE  Field(Y, P, m + n) = Field(Y, P, m) * Pow2[n] + Field(Y, After(P, m), n)
<1>1. ByteBits \in Nat \ {0} BY ByteIs
<1>2. P.c \in Nat /\ P.b \in 0 .. ByteBits - 1 BY DEF Pos
<1>3. /\ After(P, m).c = IF m <= P.b THEN P.c ELSE P.c + 1
      /\ After(P, m).b = IF m <= P.b THEN P.b - m ELSE ByteBits - (m - P.b)
  BY AfterType, <1>1
<1>4. After(P, m + n).c = IF m + n <= P.b THEN P.c ELSE P.c + 1
  BY AfterType
<1>5. Pow2[n] \in Nat /\ Pow2[n] >= 1 /\ Pow2[m] \in Nat /\ Pow2[m] >= 1 /\ Pow2[m + n] = Pow2[m] * Pow2[n]
      /\ Pow2[m + n] = Pow2[n] * Pow2[m]
  <2>1. Pow2[n] \in Nat /\ Pow2[n] >= 1 /\ Pow2[m] \in Nat /\ Pow2[m] >= 1 BY Pow2Type
  <2>2. Pow2[m + n] = Pow2[m] * Pow2[n] BY Pow2Sum
  <2> QED BY <2>1, <2>2
<1>6. At(Y, P.c) \in Nat
  <2>1. P.c <= Len(Y) BY <1>2, <1>4
  <2> QED BY <2>1, <1>2, AtType
<1>7. CASE m + n <= P.b
  <2> DEFINE k == P.b - (m + n)
             y == At(Y, P.c)
             w == y \div Pow2[k]
  <2>1. k \in Nat /\ P.b - m = k + n /\ P.b - m \in Nat BY <1>2, <1>7
  <2>2. Pow2[k] \in Nat /\ Pow2[k] >= 1 /\ Pow2[P.b - m] = Pow2[k] * Pow2[n]
    BY <2>1, Pow2Type, Pow2Sum
  <2>3. w \in Nat BY <1>6, <2>2, DivRest
  <2>4. y \div Pow2[P.b - m] = w \div Pow2[n]
    <3> DEFINE l == P.b - m
    <3>1. l \in Nat /\ l = k + n /\ y \in Nat BY <1>6, <2>1
    <3> HIDE DEF k, l, y
    <3>2. k \in Nat BY <2>1
    <3>3. y \div Pow2[l] = (y \div Pow2[k]) \div Pow2[n] BY <3>1, <3>2, DivPow
    <3> QED BY <3>3 DEF l
  <2>5. Field(Y, P, m + n) = w % Pow2[m + n] BY <1>7 DEF Field
  <2>6. Field(Y, P, m) = (w \div Pow2[n]) % Pow2[m] BY <2>4, <1>7, <1>2 DEF Field
  <2>7. Field(Y, After(P, m), n) = w % Pow2[n]
    <3>1. m <= P.b /\ n <= P.b - m /\ (P.b - m) - n = k BY <1>2, <1>7
    <3>2. After(P, m).c = P.c /\ After(P, m).b = P.b - m BY <1>3, <3>1
    <3> QED BY <3>1, <3>2 DEF Field
  <2> HIDE DEF w, y, k
  <2>8. w % (Pow2[n] * Pow2[m]) = ((w \div Pow2[n]) % Pow2[m]) * Pow2[n] + (w % Pow2[n])
    BY <2>3, <1>5, DivDiv
  <2> QED BY <2>5, <2>6, <2>7, <2>8, <1>5
<1>8. CASE m <= P.b /\ ~(m + n <= P.b)
  <2> DEFINE y == At(Y, P.c)
             j == P.b - m
             l == (m + n) - P.b
             q == Y[P.c + 1] \div Pow2[ByteBits - l]
  <2>1. j \in Nat /\ l \in Nat /\ m + j = P.b /\ j + m = P.b /\ n = j + l /\ n - j = l BY <1>2, <1>8
  <2>2. Pow2[j] \in Nat /\ Pow2[j] >= 1 /\ Pow2[l] \in Nat BY <2>1, Pow2Type
  <2>3. Pow2[P.b] = Pow2[j] * Pow2[m] BY <2>1, Pow2Sum
  <2>4. Pow2[n] = Pow2[j] * Pow2[l] BY <2>1, Pow2Sum
  <2>5. Field(Y, P, m + n) = (y % Pow2[P.b]) * Pow2[l] + q BY <1>8 DEF Field
  <2>6. Field(Y, P, m) = (y \div Pow2[j]) % Pow2[m] BY <1>8 DEF Field
  <2>7. Field(Y, After(P, m), n) = (y % Pow2[j]) * Pow2[l] + q
    <3>1. ~(n <= j) BY <2>1, <1>8, <1>2
    <3>2. After(P, m).c = P.c /\ After(P, m).b = j BY <1>3, <1>8
    <3> QED BY <3>1, <3>2, <2>1 DEF Field
  <2>8. q \in Nat
    <3>1. P.c + 1 <= Len(Y) /\ P.c + 1 \in Nat /\ P.c + 1 # 0 BY <1>2, <1>4, <1>8
    <3>2. Y[P.c + 1] \in Nat BY <3>1, AtType DEF At
    <3>3. ByteBits - l \in Nat BY <1>1, <1>2, <1>8
    <3>4. Pow2[ByteBits - l] \in Nat /\ Pow2[ByteBits - l] >= 1 BY <3>3, Pow2Type
    <3> QED BY <3>2, <3>4, DivRest
  <2> HIDE DEF y, j, l, q
  <2>9. y % (Pow2[j] * Pow2[m]) = ((y \div Pow2[j]) % Pow2[m]) * Pow2[j] + (y % Pow2[j])
    BY <1>6, <2>2, <1>5, DivDiv DEF y
  <2>10. ((y \div Pow2[j]) % Pow2[m]) \in Nat /\ (y % Pow2[j]) \in Nat
    <3>1. y \div Pow2[j] \in Nat /\ y % Pow2[j] \in Nat BY <1>6, <2>2, DivRest DEF y
    <3> QED BY <3>1, <1>5, DivRest
  <2> DEFINE s == (y \div Pow2[j]) % Pow2[m]
             t == y % Pow2[j]
  <2>11. (s * Pow2[j] + t) * Pow2[l] + q = s * (Pow2[j] * Pow2[l]) + (t * Pow2[l] + q)
    <3> HIDE DEF s, t
    <3>1. s \in Nat /\ t \in Nat BY <2>10 DEF s, t
    <3> DEFINE a == Pow2[j]
               b == Pow2[l]
    <3>2. a \in Nat /\ b \in Nat BY <2>2
    <3> HIDE DEF a, b
    <3>3. s * (a * b) + (t * b + q) = (s * a + t) * b + q BY <3>1, <3>2, <2>8, Regroup
    <3> QED BY <3>3 DEF a, b
  <2> QED BY <2>3, <2>4, <2>5, <2>6, <2>7, <2>9, <2>11
<1>9. CASE ~(m <= P.b)
  <2> DEFINE y == At(Y, P.c) % Pow2[P.b]
             z == Y[P.c + 1]
             j == m - P.b
             l == (m + n) - P.b
             w == z \div Pow2[ByteBits - l]
  <2>1. j \in Nat /\ l \in Nat /\ l = j + n /\ ByteBits - l \in Nat /\ ByteBits - j \in Nat
        /\ ByteBits - j = (ByteBits - l) + n
    BY <1>1, <1>2, <1>9
  <2>2. Pow2[j] \in Nat /\ Pow2[l] \in Nat /\ Pow2[ByteBits - l] \in Nat /\ Pow2[ByteBits - l] >= 1
        /\ Pow2[l] = Pow2[j] * Pow2[n] /\ Pow2[ByteBits - j] = Pow2[ByteBits - l] * Pow2[n]
    BY <2>1, Pow2Type, Pow2Sum
  <2>3. z \in Nat
    <3>1. P.c + 1 <= Len(Y) /\ P.c + 1 \in Nat /\ P.c + 1 # 0 BY <1>2, <1>4, <1>9
    <3> QED BY <3>1, AtType DEF At
  <2>4. Field(Y, P, m + n) = y * Pow2[l] + w BY <1>9, <1>2 DEF Field
  <2>5. Field(Y, P, m) = y * Pow2[j] + (w \div Pow2[n])
    <3>0. z \div (Pow2[ByteBits - l] * Pow2[n]) = (z \div Pow2[ByteBits - l]) \div Pow2[n]
      <4> HIDE DEF z, l
      <4> QED BY <2>2, <2>3, <1>5, DivDiv
    <3>1. z \div Pow2[ByteBits - j] = w \div Pow2[n] BY <3>0, <2>2
    <3> QED BY <3>1, <1>9 DEF Field
  <2>6. Field(Y, After(P, m), n) = w % Pow2[n]
    <3>1. After(P, m).c = P.c + 1 /\ After(P, m).b = ByteBits - j BY <1>3, <1>9
    <3>2. n <= ByteBits - j /\ (ByteBits - j) - n = ByteBits - l BY <2>1
    <3>3. At(Y, P.c + 1) = z BY <1>2 DEF At
    <3> QED BY <3>1, <3>2, <3>3 DEF Field
  <2>7. y \in Nat
    <3>1. Pow2[P.b] \in Nat /\ Pow2[P.b] >= 1 BY <1>2, Pow2Type
    <3> QED BY <3>1, <1>6, DivRest
  <2>8. w \in Nat BY <2>2, <2>3, DivRest
  <2> HIDE DEF y, z, j, l, w
  <2>9. (w \div Pow2[n]) \in Nat /\ w % Pow2[n] \in Nat /\ w = (w \div Pow2[n]) * Pow2[n] + (w % Pow2[n])
    BY <2>8, <1>5, DivRest
  <2> DEFINE s == w \div Pow2[n]
             t == w % Pow2[n]
  <2>10. y * (Pow2[j] * Pow2[n]) + (s * Pow2[n] + t) = (y * Pow2[j] + s) * Pow2[n] + t
    <3> HIDE DEF s, t
    <3>1. s \in Nat /\ t \in Nat BY <2>9 DEF s, t
    <3> DEFINE a == Pow2[j]
               b == Pow2[n]
    <3>2. a \in Nat /\ b \in Nat BY <2>2, <1>5
    <3> HIDE DEF a, b
    <3>3. y * (a * b) + (s * b + t) = (y * a + s) * b + t BY <3>1, <3>2, <2>7, Regroup
    <3> QED BY <3>3 DEF a, b
  <2> QED BY <2>2, <2>4, <2>5, <2>6, <2>9, <2>10
<1> QED BY <1>7, <1>8, <1>9

-----------------------------------------------------------------------------
(* The bits the encoder pushes.                                            *)

LEMMA EndsType ==
    ASSUME NEW z \in Seq(Byte), NEW k \in 0 .. ByteBits - 1
    PROVE  Ends(z, k) \in Pos
  BY ByteIs DEF Ends, Pos

LEMMA FlushedIs ==
    ASSUME NEW z \in Seq(Byte), NEW byte \in Nat, NEW k \in 0 .. ByteBits - 1
    PROVE  /\ Flushed(z, byte, k) \in Seq(Byte) /\ Len(Flushed(z, byte, k)) = Len(z) + 1
           /\ \A i \in 1 .. Len(z) : Flushed(z, byte, k)[i] = z[i]
           /\ Flushed(z, byte, k)[Len(z) + 1] = (byte % Pow2[k]) * Pow2[ByteBits - k]
<1> DEFINE a == Pow2[ByteBits - k]
           b == Pow2[k]
           f == (byte * Pow2[ByteBits - k]) % Pow2[ByteBits]
<1>1. ByteBits \in Nat \ {0} BY ByteIs
<1>2. k \in Nat /\ ByteBits - k \in Nat /\ (k + (ByteBits - k)) = ByteBits BY <1>1
<1>3. a \in Nat /\ a >= 1 /\ b \in Nat /\ b >= 1 BY <1>2, Pow2Type
<1>4. Pow2[ByteBits] = b * a BY <1>2, Pow2Sum
<1>5. f = (byte % b) * a
  <2> HIDE DEF a, b
  <2>1. (byte * a) % (b * a) = (byte % b) * a BY <1>3, ModMul
  <2> QED BY <1>4, <2>1 DEF a
<1>6. f \in Byte
  <2>1. byte * a \in Nat /\ b * a \in Nat /\ b * a >= 1 BY <1>3
  <2> HIDE DEF a, b
  <2>2. (byte * a) % (b * a) \in Nat /\ (byte * a) % (b * a) < b * a BY <2>1, DivRest
  <2> QED BY <2>2, <1>4, ByteIs DEF a
<1> HIDE DEF f
<1>7. Flushed(z, byte, k) = Append(z, f) BY DEF f, Flushed
<1> QED BY <1>5, <1>6, <1>7

LEMMA PendingIs ==
    ASSUME NEW byte \in Nat, NEW k \in 0 .. ByteBits - 1, NEW count \in 1 .. ByteBits, NEW v \in Nat
    PROVE  /\ byte % Pow2[k] \in Nat /\ byte % Pow2[k] < Pow2[k]
           /\ v % Pow2[count] \in Nat /\ v % Pow2[count] < Pow2[count]
           /\ Pending(byte, k, count, v) = (byte % Pow2[k]) * Pow2[count] + (v % Pow2[count])
           /\ Pending(byte, k, count, v) \in Nat /\ Pending(byte, k, count, v) < Pow2[k + count]
           /\ Pending(byte, k, count, v) % Pow2[count] = v % Pow2[count]
           /\ k = 0 => byte % Pow2[k] = 0
<1> DEFINE p == byte % Pow2[k]
           w == v % Pow2[count]
           a == Pow2[k]
           b == Pow2[count]
<1>0. k \in Nat /\ count \in Nat BY ByteIs
<1>1. a \in Nat /\ a >= 1 /\ b \in Nat /\ b >= 1 /\ Pow2[k + count] = a * b
  BY <1>0, Pow2Type, Pow2Sum
<1>2. p \in Nat /\ p < a /\ w \in Nat /\ w < b BY <1>1, DivRest
<1>3. Pending(byte, k, count, v) = p * b + w BY DEF Pending
<1>4. k = 0 => p = 0
  <2>1. k = 0 => a = 1 BY Pow2Zero
  <2> QED BY <2>1, <1>2
<1> HIDE DEF p, w, a, b
<1>5. p * b + w \in Nat /\ p * b + w < a * b
  <2>1. (p + 1) * b <= a * b BY <1>1, <1>2
  <2>2. (p + 1) * b = p * b + b BY <1>1, <1>2
  <2>3. p * b \in Nat /\ a * b \in Nat BY <1>1, <1>2
  <2> QED BY <1>1, <1>2, <2>1, <2>2, <2>3
<1>6. (p * b + w) % b = w BY <1>1, <1>2, DivSum
<1> QED BY <1>1, <1>2, <1>3, <1>4, <1>5, <1>6 DEF p, w, a, b

\* No byte is full yet.
LEMMA PushFew ==
    ASSUME NEW z \in Seq(Byte), NEW byte \in Nat, NEW k \in 0 .. ByteBits - 1,
           NEW count \in 1 .. ByteBits, NEW v \in Nat, k + count < ByteBits
    PROVE  LET Y == Flushed(z, byte, k)
               Z == Flushed(z, Pending(byte, k, count, v) % Pow2[ByteBits], k + count)
           IN  /\ Agree(Y, Z, Ends(z, k))
               /\ Field(Z, Ends(z, k), count) = v % Pow2[count]
<1> DEFINE Y == Flushed(z, byte, k)
           x == Pending(byte, k, count, v)
           Z == Flushed(z, x % Pow2[ByteBits], k + count)
           p == byte % Pow2[k]
           w == v % Pow2[count]
           n == k + count
           a == Pow2[ByteBits - n]
           b == Pow2[count]
           d == Pow2[ByteBits - k]
           t == Len(z) + 1
<1>1. ByteBits \in Nat \ {0} /\ k \in Nat /\ n \in 0 .. ByteBits - 1 /\ ByteBits - n \in Nat
  BY ByteIs
<1>2. /\ p \in Nat /\ w \in Nat /\ w < b /\ x = p * b + w /\ x \in Nat /\ x < Pow2[n]
      /\ x % b = w /\ (k = 0 => p = 0)
  <2>1. /\ byte % Pow2[k] \in Nat /\ byte % Pow2[k] < Pow2[k]
        /\ v % Pow2[count] \in Nat /\ v % Pow2[count] < Pow2[count]
        /\ Pending(byte, k, count, v) = (byte % Pow2[k]) * Pow2[count] + (v % Pow2[count])
        /\ Pending(byte, k, count, v) \in Nat /\ Pending(byte, k, count, v) < Pow2[k + count]
        /\ Pending(byte, k, count, v) % Pow2[count] = v % Pow2[count]
        /\ k = 0 => byte % Pow2[k] = 0
    <3> HIDE DEF x, n, p, w, b, a, d, t, Y, Z
    <3> QED BY PendingIs
  <2> QED BY <2>1
<1>3. a \in Nat /\ a >= 1 /\ b \in Nat /\ b >= 1 /\ d = b * a /\ d \in Nat /\ d >= 1
  <2> DEFINE l == ByteBits - k
             m == ByteBits - n
  <2>1. l = count + m /\ l \in Nat /\ m \in Nat /\ count \in Nat BY <1>1
  <2> HIDE DEF l, m
  <2>2. Pow2[l] = Pow2[count] * Pow2[m] BY <2>1, Pow2Sum
  <2> QED BY <2>1, <2>2, Pow2Type DEF l, m
<1>4. x % Pow2[ByteBits] = x
  <2>1. Pow2[ByteBits] = Pow2[n] * a /\ Pow2[n] \in Nat /\ Pow2[ByteBits] \in Nat BY <1>1, Pow2Split
  <2>2. Pow2[n] <= Pow2[n] * a BY <2>1, <1>3
  <2>3. x < Pow2[ByteBits] BY <2>1, <2>2, <1>2
  <2> HIDE DEF x
  <2> QED BY <2>1, <2>3, <1>2, DivSmall
<1>5. x % Pow2[n] = x
  <2>1. Pow2[n] \in Nat BY <1>1, Pow2Type
  <2> HIDE DEF x, n
  <2> QED BY <2>1, <1>2, DivSmall
<1>6. /\ Y \in Seq(Byte) /\ Len(Y) = t /\ \A i \in 1 .. Len(z) : Y[i] = z[i]
      /\ Y[t] = p * d
  BY FlushedIs
<1>7. /\ Z \in Seq(Byte) /\ Len(Z) = t /\ \A i \in 1 .. Len(z) : Z[i] = z[i]
      /\ Z[t] = x * a
  <2> HIDE DEF x, n
  <2>1. /\ Flushed(z, x, n) \in Seq(Byte) /\ Len(Flushed(z, x, n)) = Len(z) + 1
        /\ \A i \in 1 .. Len(z) : Flushed(z, x, n)[i] = z[i]
        /\ Flushed(z, x, n)[Len(z) + 1] = (x % Pow2[n]) * Pow2[ByteBits - n]
    BY <1>1, <1>2, FlushedIs
  <2>2. Z = Flushed(z, x, n) BY <1>4 DEF n, x
  <2> HIDE DEF Z
  <2> QED BY <2>1, <2>2, <1>5
<1>8. Len(z) \in Nat /\ t # 0 /\ t - 1 = Len(z) OBVIOUS
<1>9. Ends(z, k) = IF k = 0 THEN [c |-> Len(z), b |-> 0] ELSE [c |-> t, b |-> ByteBits - k]
  BY DEF Ends
<1> HIDE DEF x, n, p, w, a, b, d, t, Y, Z
<1>10. x * a = p * d + w * a /\ w * a \in Nat /\ w * a < d
  <2>1. (p * b + w) * a = p * (b * a) + w * a
    <3>1. p * b \in Nat BY <1>2, <1>3
    <3>2. (p * b + w) * a = (p * b) * a + w * a BY <3>1, <1>2, <1>3, Distributes
    <3>3. (p * b) * a = p * (b * a) BY <1>2, <1>3, Associates
    <3> QED BY <3>2, <3>3
  <2>2. w * a \in Nat /\ (w + 1) * a <= b * a BY <1>2, <1>3
  <2>3. (w + 1) * a = w * a + a BY <1>2, <1>3
  <2> QED BY <1>2, <1>3, <2>1, <2>2, <2>3
<1>11. (x * a) \div d = p /\ (p * d) \div d = p
  <2>1. (p * d + w * a) \div d = p BY <1>2, <1>3, <1>10, DivSum
  <2>2. (p * d + 0) \div d = p BY <1>2, <1>3, DivSum
  <2>3. p * d + 0 = p * d BY <1>2, <1>3
  <2> QED BY <2>1, <2>2, <2>3, <1>10
<1>12. (x * a) \div a = x
  <2>1. (x * a + 0) \div a = x BY <1>2, <1>3, DivSum
  <2>2. x * a + 0 = x * a BY <1>2, <1>3
  <2> QED BY <2>1, <2>2
<1>13. CASE k = 0
  <2>1. Ends(z, k).c = Len(z) /\ Ends(z, k).b = 0 BY <1>9, <1>13
  <2>2. At(Y, Len(z)) = At(Z, Len(z)) BY <1>6, <1>7, <1>8 DEF At
  <2>3. Agree(Y, Z, Ends(z, k))
    <3>1. Len(z) <= Len(Y) /\ Len(z) <= Len(Z) BY <1>6, <1>7, <1>8 DEF t
    <3> QED BY <2>1, <2>2, <3>1, <1>6, <1>7, <1>8 DEF Agree
  <2>4. At(Z, Len(z)) % Pow2[0] = 0
    <3>1. Len(z) <= Len(Z) BY <1>7, <1>8 DEF t
    <3>2. At(Z, Len(z)) \in Nat BY <3>1, <1>7, <1>8, AtType
    <3> QED BY <3>2, Pow2Zero
  <2>5. Z[t] \div Pow2[ByteBits - count] = w
    <3>1. ByteBits - count = ByteBits - n BY <1>13, <1>1 DEF n
    <3>2. x = w BY <1>2, <1>3, <1>13
    <3> QED BY <3>1, <3>2, <1>7, <1>12 DEF a
  <2>6. Field(Z, Ends(z, k), count) = (At(Z, Len(z)) % Pow2[0]) * Pow2[count - 0] + (Z[Len(z) + 1] \div Pow2[ByteBits - (count - 0)])
    BY <2>1 DEF Field
  <2>7. Field(Z, Ends(z, k), count) = w
    <3>1. count - 0 = count /\ Pow2[count] \in Nat /\ 0 * Pow2[count] = 0 BY <1>3 DEF b
    <3> QED BY <2>4, <2>5, <2>6, <3>1, <1>2 DEF t
  <2> QED BY <2>3, <2>7 DEF Y, Z, x, w, n
<1>14. CASE k # 0
  <2>1. Ends(z, k).c = t /\ Ends(z, k).b = ByteBits - k BY <1>9, <1>14
  <2>2. At(Y, t) = p * d /\ At(Z, t) = x * a BY <1>6, <1>7, <1>8 DEF At
  <2>3. Agree(Y, Z, Ends(z, k))
    <3>1. \A i \in 1 .. t - 1 : Y[i] = Z[i] BY <1>6, <1>7, <1>8
    <3>2. t <= Len(Y) /\ t <= Len(Z) BY <1>6, <1>7, <1>8 DEF t
    <3> QED BY <2>1, <2>2, <3>1, <3>2, <1>11 DEF Agree, d
  <2>4. count <= ByteBits - k /\ (ByteBits - k) - count = ByteBits - n BY <1>1 DEF n
  <2>5. Field(Z, Ends(z, k), count) = ((x * a) \div a) % b
    BY <2>1, <2>2, <2>4 DEF Field, a, b
  <2>6. Field(Z, Ends(z, k), count) = w BY <2>5, <1>12, <1>2
  <2> QED BY <2>3, <2>6 DEF Y, Z, x, w, n
<1> QED BY <1>13, <1>14

\* A byte is full, and goes to the output.
LEMMA PushWhole ==
    ASSUME NEW z \in Seq(Byte), NEW byte \in Nat, NEW k \in 0 .. ByteBits - 1,
           NEW count \in 1 .. ByteBits, NEW v \in Nat, k + count >= ByteBits
    PROVE  LET Y == Flushed(z, byte, k)
               x == Pending(byte, k, count, v)
               f == (x \div Pow2[(k + count) - ByteBits]) % Pow2[ByteBits]
               Z == Flushed(Append(z, f), x % Pow2[ByteBits], (k + count) - ByteBits)
           IN  /\ f \in Byte
               /\ Agree(Y, Z, Ends(z, k))
               /\ Field(Z, Ends(z, k), count) = v % Pow2[count]
<1> DEFINE Y == Flushed(z, byte, k)
           x == Pending(byte, k, count, v)
           m == (k + count) - ByteBits
           e == Pow2[m]
           f == (x \div Pow2[(k + count) - ByteBits]) % Pow2[ByteBits]
           Z == Flushed(Append(z, f), x % Pow2[ByteBits], (k + count) - ByteBits)
           p == byte % Pow2[k]
           w == v % Pow2[count]
           a == Pow2[k]
           b == Pow2[count]
           d == Pow2[ByteBits - k]
           g == Pow2[ByteBits - m]
           h == Pow2[ByteBits]
           t == Len(z) + 1
           q == w \div e
           r == w % e
<1>0. count >= 1 /\ m = (k + count) - ByteBits OBVIOUS
<1>1. ByteBits \in Nat \ {0} /\ k \in Nat /\ m \in 0 .. ByteBits - 1 /\ m \in Nat
      /\ ByteBits - k \in Nat /\ ByteBits - m \in Nat /\ count = (ByteBits - k) + m /\ count \in Nat
  BY ByteIs
<1>2. /\ p \in Nat /\ p < a /\ w \in Nat /\ w < b /\ x = p * b + w /\ x \in Nat
      /\ x % b = w /\ (k = 0 => p = 0)
  <2>1. /\ byte % Pow2[k] \in Nat /\ byte % Pow2[k] < Pow2[k]
        /\ v % Pow2[count] \in Nat /\ v % Pow2[count] < Pow2[count]
        /\ Pending(byte, k, count, v) = (byte % Pow2[k]) * Pow2[count] + (v % Pow2[count])
        /\ Pending(byte, k, count, v) \in Nat /\ Pending(byte, k, count, v) < Pow2[k + count]
        /\ Pending(byte, k, count, v) % Pow2[count] = v % Pow2[count]
        /\ k = 0 => byte % Pow2[k] = 0
    <3> HIDE DEF x, m, e, f, p, w, b, a, d, g, h, t, q, r, Y, Z
    <3> QED BY PendingIs
  <2> QED BY <2>1
<1>3. /\ a \in Nat /\ a >= 1 /\ b \in Nat /\ b >= 1 /\ d \in Nat /\ d >= 1 /\ e \in Nat /\ e >= 1
      /\ g \in Nat /\ g >= 1 /\ h \in Nat /\ h >= 1
  <2> HIDE DEF m
  <2> QED BY <1>1, Pow2Type
<1>4. b = d * e /\ h = e * g /\ h = a * d
  <2> DEFINE l == ByteBits - k
             j == ByteBits - m
  <2>1. l \in Nat /\ m \in Nat /\ j \in Nat /\ k \in Nat /\ count = l + m /\ ByteBits = m + j /\ ByteBits = k + l
    BY <1>1
  <2> HIDE DEF l, j, m
  <2>2. Pow2[l + m] = Pow2[l] * Pow2[m] /\ Pow2[m + j] = Pow2[m] * Pow2[j] /\ Pow2[k + l] = Pow2[k] * Pow2[l]
    BY <2>1, Pow2Sum
  <2> QED BY <2>1, <2>2 DEF l, j
<1>5. k = 0 => m = 0 /\ count = ByteBits BY <1>1
<1>6. m = 0 => e = 1 BY Pow2Zero
<1>7. /\ Y \in Seq(Byte) /\ Len(Y) = t /\ \A i \in 1 .. Len(z) : Y[i] = z[i]
      /\ Y[t] = p * d
  BY FlushedIs
<1>8. Len(z) \in Nat /\ t # 0 /\ t - 1 = Len(z) /\ t \in Nat /\ t > Len(z) OBVIOUS
<1>9. Ends(z, k) = IF k = 0 THEN [c |-> Len(z), b |-> 0] ELSE [c |-> t, b |-> ByteBits - k]
  BY DEF Ends
<1>10. f = (x \div e) % h OBVIOUS
<1> HIDE DEF q, r
<1>11. q \in Nat /\ r \in Nat /\ r < e /\ w = q * e + r
  <2> HIDE DEF w, e
  <2> QED BY <1>2, <1>3, DivRest DEF q, r
<1> HIDE DEF x, e, f, p, w, a, b, d, g, h
<1>12. q < d
  <2> SUFFICES ASSUME q >= d PROVE FALSE BY <1>11, <1>3
  <2>1. q * e >= d * e BY <1>3, <1>11
  <2> QED BY <2>1, <1>2, <1>4, <1>11, <1>3
<1>13. p * d + q \in Nat /\ p * d \in Nat /\ p * d + q < h
  <2>1. (p + 1) * d <= a * d BY <1>2, <1>3
  <2>2. (p + 1) * d = p * d + d BY <1>2, <1>3
  <2>3. p * d \in Nat BY <1>2, <1>3
  <2> QED BY <2>1, <2>2, <2>3, <1>4, <1>11, <1>12, <1>3
<1>14. x = (p * d + q) * e + r
  <2>1. p * (d * e) + (q * e + r) = (p * d + q) * e + r BY <1>2, <1>3, <1>11, Regroup
  <2> QED BY <2>1, <1>2, <1>4, <1>11
<1>15. x \div e = p * d + q /\ x % e = r
  <2> DEFINE u == p * d + q
  <2>1. u \in Nat /\ x = u * e + r BY <1>13, <1>14
  <2> HIDE DEF u
  <2>2. x \div e = u /\ x % e = r BY <2>1, <1>2, <1>3, <1>11, DivIs
  <2> QED BY <2>2 DEF u
<1>16. f = p * d + q
  <2> DEFINE u == p * d + q
  <2>1. u \in Nat /\ u < h /\ f = u % h BY <1>10, <1>13, <1>15
  <2> HIDE DEF u
  <2>2. f = u BY <2>1, <1>3, DivSmall
  <2> QED BY <2>2 DEF u
<1>17. f \in Byte BY <1>16, <1>13, ByteIs DEF h
<1>18. x % h \in Nat /\ (x % h) % e = r
  <2>1. x % (e * g) = ((x \div e) % g) * e + (x % e) BY <1>2, <1>3, DivDiv
  <2>2. (x \div e) % g \in Nat BY <1>3, <1>13, <1>15, DivRest
  <2> DEFINE u == (x \div e) % g
  <2>3. x % h = u * e + r /\ u \in Nat BY <2>1, <2>2, <1>4, <1>15
  <2> HIDE DEF u
  <2>4. (u * e + r) % e = r BY <2>3, <1>3, <1>11, DivSum
  <2>5. u * e + r \in Nat BY <2>3, <1>3, <1>11
  <2> QED BY <2>3, <2>4, <2>5
<1>19. /\ Z \in Seq(Byte) /\ Len(Z) = t + 1 /\ \A i \in 1 .. Len(z) : Z[i] = z[i]
       /\ Z[t] = f /\ Z[t + 1] = r * g
  <2> DEFINE y == Append(z, f)
             s == x % h
  <2>1. y \in Seq(Byte) /\ Len(y) = t /\ y[t] = f /\ \A i \in 1 .. Len(z) : y[i] = z[i]
    BY <1>17, <1>8
  <2>2. s \in Nat BY <1>18
  <2>3. Z = Flushed(y, s, m) BY DEF h, m
  <2> HIDE DEF y, s, m, Z, t
  <2>4. /\ Flushed(y, s, m) \in Seq(Byte) /\ Len(Flushed(y, s, m)) = Len(y) + 1
        /\ \A i \in 1 .. Len(y) : Flushed(y, s, m)[i] = y[i]
        /\ Flushed(y, s, m)[Len(y) + 1] = (s % Pow2[m]) * Pow2[ByteBits - m]
    BY <2>1, <2>2, <1>1, FlushedIs
  <2>5. (s % Pow2[m]) * Pow2[ByteBits - m] = r * g BY <1>18 DEF s, e, g
  <2>6. \A i \in 1 .. Len(z) : i \in 1 .. t BY <1>8
  <2>7. t \in 1 .. t BY <1>8
  <2> QED BY <2>1, <2>3, <2>4, <2>5, <2>6, <2>7
<1> HIDE DEF m, t, Y, Z
<1>20. (p * d) \div d = p /\ f \div d = p /\ f % d = q
  <2>1. (p * d + q) \div d = p /\ (p * d + q) % d = q BY <1>2, <1>3, <1>11, <1>12, DivSum
  <2>2. (p * d + 0) \div d = p BY <1>2, <1>3, DivSum
  <2>3. p * d + 0 = p * d BY <1>13
  <2> QED BY <2>1, <2>2, <2>3, <1>16
<1>21. (r * g) \div g = r
  <2>1. (r * g + 0) \div g = r BY <1>11, <1>3, DivSum
  <2>2. r * g + 0 = r * g BY <1>11, <1>3
  <2> QED BY <2>1, <2>2
<1>22. CASE k = 0
  <2>1. Ends(z, k).c = Len(z) /\ Ends(z, k).b = 0 BY <1>9, <1>22
  <2>2. At(Y, Len(z)) = At(Z, Len(z)) BY <1>7, <1>19, <1>8 DEF At
  <2>3. Agree(Y, Z, Ends(z, k))
    <3>1. Len(z) <= Len(Y) /\ Len(z) <= Len(Z) BY <1>7, <1>19, <1>8
    <3> QED BY <2>1, <2>2, <3>1, <1>7, <1>19, <1>8 DEF Agree
  <2>4. At(Z, Len(z)) % Pow2[0] = 0
    <3>1. Len(z) <= Len(Z) BY <1>19, <1>8
    <3>2. At(Z, Len(z)) \in Nat BY <3>1, <1>19, <1>8, AtType
    <3> QED BY <3>2, Pow2Zero
  <2>5. Z[t] \div Pow2[ByteBits - count] = w
    <3>0. count = ByteBits /\ m = 0 BY <1>22, <1>5
    <3>1. ByteBits - count = 0 /\ Pow2[0] = 1 /\ e = 1 BY <3>0, <1>1, <1>6, Pow2Zero
    <3>2. q * 1 = q /\ r = 0 /\ 0 * d = 0 BY <3>1, <1>11, <1>3
    <3>3. f = w BY <3>1, <3>2, <1>2, <1>11, <1>16, <1>22
    <3>4. f \div 1 = f BY <3>3, <1>2
    <3> QED BY <3>1, <3>3, <3>4, <1>19
  <2>6. Field(Z, Ends(z, k), count) = (At(Z, Len(z)) % Pow2[0]) * Pow2[count - 0] + (Z[Len(z) + 1] \div Pow2[ByteBits - (count - 0)])
    BY <2>1 DEF Field
  <2>7. Field(Z, Ends(z, k), count) = w
    <3>1. count - 0 = count /\ Pow2[count] \in Nat /\ 0 * Pow2[count] = 0 BY <1>3 DEF b
    <3> QED BY <2>4, <2>5, <2>6, <3>1, <1>2 DEF t
  <2> QED BY <2>3, <2>7, <1>17 DEF Y, Z, x, w, f
<1>23. CASE k # 0
  <2>1. Ends(z, k).c = t /\ Ends(z, k).b = ByteBits - k BY <1>9, <1>23
  <2>2. At(Y, t) = p * d /\ At(Z, t) = f BY <1>7, <1>19, <1>8 DEF At
  <2>3. Agree(Y, Z, Ends(z, k))
    <3>1. \A i \in 1 .. t - 1 : Y[i] = Z[i] BY <1>7, <1>19, <1>8
    <3>2. t <= Len(Y) /\ t <= Len(Z) BY <1>7, <1>19, <1>8
    <3> QED BY <2>1, <2>2, <3>1, <3>2, <1>20 DEF Agree, d
  <2>4. Field(Z, Ends(z, k), count) = w
    <3>1. CASE m = 0
      <4>1. count <= ByteBits - k /\ (ByteBits - k) - count = 0 /\ b = d /\ d = Pow2[count]
        BY <3>1, <1>1 DEF b, d
      <4>2. Field(Z, Ends(z, k), count) = (f \div Pow2[0]) % d
        BY <2>1, <2>2, <4>1 DEF Field
      <4>3. f \div Pow2[0] = f BY <1>13, <1>16, Pow2Zero
      <4>4. q * 1 = q /\ r = 0 BY <1>11, <3>1, <1>6
      <4> QED BY <4>2, <4>3, <4>4, <1>20, <1>11, <3>1, <1>6
    <3>2. CASE m # 0
      <4>1. ~(count <= ByteBits - k) /\ count - (ByteBits - k) = m BY <1>1, <3>2
      <4>2. Field(Z, Ends(z, k), count) = (f % Pow2[ByteBits - k]) * Pow2[m] + (Z[t + 1] \div Pow2[ByteBits - m])
        BY <2>1, <2>2, <4>1 DEF Field
      <4> QED BY <4>2, <1>20, <1>21, <1>19, <1>11 DEF d, e, g
    <3> QED BY <3>1, <3>2
  <2> QED BY <2>3, <2>4, <1>17 DEF Y, Z, x, w, f
<1> QED BY <1>22, <1>23

-----------------------------------------------------------------------------

LEMMA PushBitsWrites ==
    ASSUME NEW f \in Seq(Byte), NEW e, HasBits(e), NEW o \in Seq(Byte),
           NEW count \in 1 .. ByteBits, NEW v \in Nat
    PROVE  Wrote(PushBits(e, o, count, v), f, e, o, count, v)
<1> DEFINE s == PushBits(e, o, count, v)
           k == e.bit_index
           byte == e.current_byte
           x == Pending(byte, k, count, v)
           n == k + count
           z == f \o o
<1> SUFFICES
      /\ s.o \in Seq(Byte) /\ Len(s.o) \in {Len(o), Len(o) + 1}
      /\ \E cb \in Byte, bi \in 0 .. ByteBits - 1 :
            s = [e |-> [e EXCEPT !.current_byte = cb, !.bit_index = bi], o |-> s.o]
      /\ HasBits(s.e)
      /\ Tip(f, s.e, s.o) = After(Tip(f, e, o), count)
      /\ Agree(Stream(f, e, o), Stream(f, s.e, s.o), Tip(f, e, o))
      /\ Field(Stream(f, s.e, s.o), Tip(f, e, o), count) = v % Pow2[count]
  BY DEF Wrote
<1>1. ByteBits \in Nat \ {0} /\ k \in 0 .. ByteBits - 1 /\ k \in Nat /\ byte \in Nat /\ count \in Nat /\ count >= 1
      /\ count <= ByteBits /\ n \in Nat
  BY ByteIs DEF HasBits
<1>2. x \in Nat
  <2> HIDE DEF x, k, byte
  <2> QED BY <1>1, PendingIs DEF x
<1>3. z \in Seq(Byte) /\ Len(z) = Len(f) + Len(o) OBVIOUS
<1>4. Pow2[ByteBits] \in Nat /\ Pow2[ByteBits] >= 1 BY <1>1, Pow2Type
<1>5. x % Pow2[ByteBits] \in Byte
  <2> HIDE DEF x
  <2> QED BY <1>2, <1>4, ByteIs, DivRest
<1>6. CASE n < ByteBits
  <2> DEFINE cb == x % Pow2[ByteBits]
  <2>1. s = [e |-> [e EXCEPT !.current_byte = cb, !.bit_index = n], o |-> o]
    BY <1>1, <1>6 DEF PushBits, Pending
  <2>2. n \in 0 .. ByteBits - 1 BY <1>1, <1>6
  <2>3. s.o = o /\ s.e = [e EXCEPT !.current_byte = cb, !.bit_index = n] BY <2>1
  <2>4. s.e.current_byte = cb /\ s.e.bit_index = n /\ HasBits(s.e)
    BY <2>2, <2>3, <1>5 DEF HasBits
  <2>5. Stream(f, s.e, s.o) = Flushed(z, cb, n) /\ Tip(f, s.e, s.o) = Ends(z, n)
    BY <2>3, <2>4 DEF Stream, Tip
  <2>6. Stream(f, e, o) = Flushed(z, byte, k) /\ Tip(f, e, o) = Ends(z, k) BY DEF Stream, Tip
  <2>7. Ends(z, n) = After(Ends(z, k), count)
    <3>1. CASE k = 0 BY <3>1, <1>1, <1>6 DEF Ends, After
    <3>2. CASE k # 0
      <4>1. Ends(z, k) = [c |-> Len(z) + 1, b |-> ByteBits - k] BY <3>2 DEF Ends
      <4>2. Ends(z, n) = [c |-> Len(z) + 1, b |-> ByteBits - n] BY <1>1 DEF Ends
      <4>3. count <= ByteBits - k /\ (ByteBits - k) - count = ByteBits - n BY <1>1, <1>6
      <4>4. After(Ends(z, k), count) = [c |-> Len(z) + 1, b |-> (ByteBits - k) - count]
        BY <4>1, <4>3 DEF After
      <4> QED BY <4>2, <4>3, <4>4
    <3> QED BY <3>1, <3>2
  <2>8. Agree(Flushed(z, byte, k), Flushed(z, cb, n), Ends(z, k))
        /\ Field(Flushed(z, cb, n), Ends(z, k), count) = v % Pow2[count]
    <3> HIDE DEF z, byte, k
    <3> QED BY <1>1, <1>3, <1>6, PushFew
  <2>9. \E c \in Byte, b \in 0 .. ByteBits - 1 : s = [e |-> [e EXCEPT !.current_byte = c, !.bit_index = b], o |-> s.o]
    BY <2>1, <2>2, <2>3, <1>5
  <2>10. s.o \in Seq(Byte) /\ Len(s.o) \in {Len(o), Len(o) + 1} BY <2>3
  <2> HIDE DEF s, cb, n, x, z, byte, k
  <2>11. Tip(f, s.e, s.o) = After(Tip(f, e, o), count) BY <2>5, <2>6, <2>7
  <2>12. Agree(Stream(f, e, o), Stream(f, s.e, s.o), Tip(f, e, o)) BY <2>5, <2>6, <2>8
  <2>13. Field(Stream(f, s.e, s.o), Tip(f, e, o), count) = v % Pow2[count] BY <2>5, <2>6, <2>8
  <2> QED BY <2>4, <2>9, <2>10, <2>11, <2>12, <2>13 DEF s
<1>7. CASE n >= ByteBits
  <2> DEFINE cb == x % Pow2[ByteBits]
             m == n - ByteBits
             d == (x \div Pow2[m]) % Pow2[ByteBits]
             y == Append(z, d)
  <2>1. s = [e |-> [e EXCEPT !.current_byte = cb, !.bit_index = m], o |-> Append(o, d)]
    BY <1>1, <1>7 DEF PushBits, Pending
  <2>2. m \in 0 .. ByteBits - 1 BY <1>1, <1>7
  <2>3. s.o = Append(o, d) /\ s.e = [e EXCEPT !.current_byte = cb, !.bit_index = m] BY <2>1
  <2>4. s.e.current_byte = cb /\ s.e.bit_index = m /\ HasBits(s.e)
    BY <2>2, <2>3, <1>5 DEF HasBits
  <2>8. d \in Byte /\ Agree(Flushed(z, byte, k), Flushed(y, cb, m), Ends(z, k))
        /\ Field(Flushed(y, cb, m), Ends(z, k), count) = v % Pow2[count]
    <3> HIDE DEF z, byte, k
    <3> QED BY <1>1, <1>3, <1>7, PushWhole
  <2>5. Stream(f, s.e, s.o) = Flushed(y, cb, m) /\ Tip(f, s.e, s.o) = Ends(y, m)
    <3>1. f \o Append(o, d) = Append(z, d)
      <4> HIDE DEF d
      <4> QED BY <2>8
    <3> QED BY <3>1, <2>3, <2>4 DEF Stream, Tip
  <2>6. Stream(f, e, o) = Flushed(z, byte, k) /\ Tip(f, e, o) = Ends(z, k) BY DEF Stream, Tip
  <2>7. Ends(y, m) = After(Ends(z, k), count)
    <3>0. Len(y) = Len(z) + 1 /\ Len(z) \in Nat
      <4> HIDE DEF d, z
      <4> QED BY <1>3, <2>8
    <3> HIDE DEF y, z
    <3>1. CASE k = 0
      <4>1. count = ByteBits /\ m = 0 BY <3>1, <1>1, <1>7
      <4> QED BY <3>1, <4>1, <3>0, <1>1 DEF Ends, After
    <3>2. CASE k # 0 /\ m = 0
      <4>1. Ends(z, k) = [c |-> Len(z) + 1, b |-> ByteBits - k] BY <3>2 DEF Ends
      <4>2. Ends(y, m) = [c |-> Len(z) + 1, b |-> 0] BY <3>0, <3>2 DEF Ends
      <4>3. count <= ByteBits - k /\ (ByteBits - k) - count = 0 BY <1>1, <3>2
      <4>4. After(Ends(z, k), count) = [c |-> Len(z) + 1, b |-> (ByteBits - k) - count]
        BY <4>1, <4>3 DEF After
      <4> QED BY <4>2, <4>3, <4>4
    <3>3. CASE k # 0 /\ m # 0
      <4>1. Ends(z, k) = [c |-> Len(z) + 1, b |-> ByteBits - k] BY <3>3 DEF Ends
      <4>2. Ends(y, m) = [c |-> (Len(z) + 1) + 1, b |-> ByteBits - m] BY <3>0, <3>3 DEF Ends
      <4>3. ~(count <= ByteBits - k) /\ count - (ByteBits - k) = m BY <1>1, <1>7, <3>3
      <4>4. After(Ends(z, k), count) = [c |-> (Len(z) + 1) + 1, b |-> ByteBits - (count - (ByteBits - k))]
        BY <4>1, <4>3 DEF After
      <4> QED BY <4>2, <4>3, <4>4
    <3> QED BY <3>1, <3>2, <3>3
  <2>9. \E c \in Byte, b \in 0 .. ByteBits - 1 : s = [e |-> [e EXCEPT !.current_byte = c, !.bit_index = b], o |-> s.o]
    BY <2>1, <2>2, <2>3, <1>5
  <2>10. s.o \in Seq(Byte) /\ Len(s.o) \in {Len(o), Len(o) + 1}
    <3>1. s.o = Append(o, d) BY <2>3
    <3>2. d \in Byte BY <2>8
    <3> HIDE DEF d, s
    <3>3. Append(o, d) \in Seq(Byte) /\ Len(Append(o, d)) = Len(o) + 1 BY <3>2
    <3> QED BY <3>1, <3>3
  <2> HIDE DEF s, cb, m, n, x, z, y, d, byte, k
  <2>11. Tip(f, s.e, s.o) = After(Tip(f, e, o), count) BY <2>5, <2>6, <2>7
  <2>12. Agree(Stream(f, e, o), Stream(f, s.e, s.o), Tip(f, e, o)) BY <2>5, <2>6, <2>8
  <2>13. Field(Stream(f, s.e, s.o), Tip(f, e, o), count) = v % Pow2[count] BY <2>5, <2>6, <2>8
  <2> QED BY <2>4, <2>9, <2>10, <2>11, <2>12, <2>13 DEF s
<1>8. n < ByteBits \/ n >= ByteBits BY <1>1
<1> HIDE DEF n, s, k, byte, x, z
<1> QED BY <1>6, <1>7, <1>8, Zenon

-----------------------------------------------------------------------------

LEMMA BitsAre ==
    /\ ByteBits \in Nat \ {0} /\ WindowBits \in Nat \ {0} /\ LookaheadBits \in Nat \ {0}
    /\ LookaheadBits <= ByteBits /\ LowBits \in Nat \ {0} /\ LowBits <= ByteBits
    /\ LowBits <= WindowBits /\ LookaheadBits < WindowBits
    /\ WindowBits > ByteBits => WindowBits - ByteBits \in Nat /\ WindowBits - ByteBits <= ByteBits
                                /\ LowBits = ByteBits
    /\ ~(WindowBits > ByteBits) => LowBits = WindowBits
    /\ Window \in Nat /\ Window >= 1 /\ Lookahead \in Nat /\ Lookahead >= 1
<1>1. ByteBits \in Nat \ {0} /\ WindowBits \in Nat \ {0} /\ LookaheadBits \in 1 .. WindowBits - 1
      /\ LookaheadBits <= ByteBits /\ WindowBits <= 2 * ByteBits
  BY BitsAssumption
<1>2. Window \in Nat /\ Window >= 1 /\ Lookahead \in Nat /\ Lookahead >= 1
  BY <1>1, Pow2Type DEF Window, Lookahead
<1> QED BY <1>1, <1>2 DEF LowBits

LEMMA LowType ==
    ASSUME NEW P \in Pos
    PROVE  Low(P) \in Pos /\ UpTo(P, Low(P))
<1>1. CASE WindowBits > ByteBits BY <1>1, BitsAre, AfterType DEF Low
<1>2. CASE ~(WindowBits > ByteBits)
  <2>1. P.b \in Int /\ P.c \in Int BY DEF Pos
  <2> QED BY <1>2, <2>1 DEF Low, UpTo
<1> QED BY <1>1, <1>2

LEMMA IndexEndType ==
    ASSUME NEW P \in Pos
    PROVE  IndexEnd(P) \in Pos /\ UpTo(P, IndexEnd(P)) /\ UpTo(Low(P), IndexEnd(P))
<1>1. Low(P) \in Pos /\ UpTo(P, Low(P)) BY LowType
<1>2. IndexEnd(P) \in Pos /\ UpTo(Low(P), IndexEnd(P)) BY <1>1, BitsAre, AfterType DEF IndexEnd
<1> QED BY <1>1, <1>2, UpToTransitive

LEMMA IndexedAgrees ==
    ASSUME NEW Y \in Seq(Byte), NEW Z \in Seq(Byte), NEW P \in Pos, NEW Q \in Pos,
           UpTo(IndexEnd(P), Q), Agree(Y, Z, Q), NEW x, Indexed(Y, P, x)
    PROVE  Indexed(Z, P, x)
<1>1. Low(P) \in Pos /\ IndexEnd(P) \in Pos /\ UpTo(Low(P), IndexEnd(P)) BY LowType, IndexEndType
<1>2. Field(Y, Low(P), LowBits) = Field(Z, Low(P), LowBits)
  BY <1>1, BitsAre, FieldAgrees DEF IndexEnd
<1>3. CASE WindowBits > ByteBits
  <2>1. After(P, WindowBits - ByteBits) = Low(P) BY <1>3 DEF Low
  <2>2. UpTo(Low(P), Q) BY <1>1, UpToTransitive
  <2>3. Field(Y, P, WindowBits - ByteBits) = Field(Z, P, WindowBits - ByteBits)
    BY <1>3, <2>1, <2>2, BitsAre, FieldAgrees
  <2> QED BY <1>2, <2>3 DEF Indexed
<1> QED BY <1>2, <1>3 DEF Indexed

\* Where the parts of a token lie.
LEMMA TokenPlaces ==
    ASSUME NEW P \in Pos
    PROVE  /\ After(P, 1) \in Pos /\ UpTo(P, After(P, 1))
           /\ After(After(P, 1), ByteBits) \in Pos /\ UpTo(After(P, 1), After(After(P, 1), ByteBits))
           /\ UpTo(P, After(After(P, 1), ByteBits))
           /\ Low(After(P, 1)) \in Pos /\ UpTo(After(P, 1), Low(After(P, 1)))
           /\ IndexEnd(After(P, 1)) \in Pos /\ UpTo(Low(After(P, 1)), IndexEnd(After(P, 1)))
           /\ UpTo(After(P, 1), IndexEnd(After(P, 1)))
           /\ UpTo(P, IndexEnd(After(P, 1)))
           /\ After(IndexEnd(After(P, 1)), LookaheadBits) \in Pos
           /\ UpTo(IndexEnd(After(P, 1)), After(IndexEnd(After(P, 1)), LookaheadBits))
           /\ UpTo(After(P, 1), After(IndexEnd(After(P, 1)), LookaheadBits))
           /\ UpTo(P, After(IndexEnd(After(P, 1)), LookaheadBits))
<1> DEFINE A == After(P, 1)
           L == After(A, ByteBits)
           M == Low(A)
           I == IndexEnd(A)
           E == After(I, LookaheadBits)
<1>0. ByteBits >= 1 /\ ByteBits \in Nat /\ LookaheadBits \in Nat /\ LookaheadBits <= ByteBits BY BitsAre
<1>1. A \in Pos /\ UpTo(P, A) BY <1>0, AfterType
<1> HIDE DEF A
<1>2. L \in Pos /\ UpTo(A, L) BY <1>0, <1>1, AfterType
<1>3. M \in Pos /\ UpTo(A, M) BY <1>1, LowType
<1>4. I \in Pos /\ UpTo(A, I) /\ UpTo(M, I) BY <1>1, IndexEndType
<1> HIDE DEF L, M, I
<1>5. E \in Pos /\ UpTo(I, E) BY <1>0, <1>4, AfterType
<1> HIDE DEF E
<1>6. UpTo(P, L) /\ UpTo(P, I) BY <1>1, <1>2, <1>4, UpToTransitive
<1>7. UpTo(A, E) BY <1>1, <1>4, <1>5, UpToTransitive
<1>8. UpTo(P, E) BY <1>1, <1>5, <1>7, UpToTransitive
<1> QED BY <1>1, <1>2, <1>3, <1>4, <1>5, <1>6, <1>7, <1>8 DEF A, L, M, I, E

LEMMA TokenType ==
    ASSUME NEW Y, NEW src, NEW t \in Mark, NEW u, Token(Y, src, t, u)
    PROVE  u \in Mark /\ UpTo(t.at, u.at) /\ t.from <= u.from
<1>1. t.at \in Pos /\ t.from \in Nat BY DEF Mark
<1>2. CASE Literal(Y, src, t, u)
  <2>1. u = [at |-> After(After(t.at, 1), ByteBits), from |-> t.from + 1] BY <1>2 DEF Literal
  <2> QED BY <1>1, <2>1, TokenPlaces DEF Mark
<1>3. ASSUME NEW dist \in 1 .. Window, NEW len \in 1 .. Lookahead, Refers(Y, src, t, u, dist, len)
      PROVE  u \in Mark /\ UpTo(t.at, u.at) /\ t.from <= u.from
  <2>1. u = [at |-> After(IndexEnd(After(t.at, 1)), LookaheadBits), from |-> t.from + len]
    BY <1>3 DEF Refers
  <2>2. t.from + len \in Nat /\ t.from <= t.from + len BY <1>1, BitsAre
  <2> QED BY <1>1, <2>1, <2>2, TokenPlaces DEF Mark
<1> QED BY <1>2, <1>3 DEF Token

LEMMA TokenAgrees ==
    ASSUME NEW Y \in Seq(Byte), NEW Z \in Seq(Byte), NEW src, NEW t \in Mark, NEW u, NEW Q \in Pos,
           Token(Y, src, t, u), UpTo(u.at, Q), Agree(Y, Z, Q)
    PROVE  Token(Z, src, t, u)
<1> DEFINE A == After(t.at, 1)
<1>1. t.at \in Pos BY DEF Mark
<1>2. A \in Pos BY <1>1, TokenPlaces
<1>0. 1 <= ByteBits /\ ByteBits \in Nat /\ LookaheadBits \in Nat /\ LookaheadBits <= ByteBits BY BitsAre
<1>3. CASE Literal(Y, src, t, u)
  <2>1. u.at = After(A, ByteBits) BY <1>3 DEF Literal
  <2>2. UpTo(A, Q) BY <1>1, <1>2, <2>1, TokenPlaces, UpToTransitive
  <2>3. Field(Y, t.at, 1) = Field(Z, t.at, 1) BY <1>0, <1>1, <2>2, FieldAgrees
  <2> HIDE DEF A
  <2>4. Field(Y, A, ByteBits) = Field(Z, A, ByteBits) BY <1>0, <1>2, <2>1, FieldAgrees
  <2> QED BY <1>3, <2>3, <2>4 DEF Literal, Token, A
<1>4. ASSUME NEW dist \in 1 .. Window, NEW len \in 1 .. Lookahead, Refers(Y, src, t, u, dist, len)
      PROVE  Token(Z, src, t, u)
  <2> DEFINE I == IndexEnd(A)
  <2>1. u.at = After(I, LookaheadBits) BY <1>4 DEF Refers
  <2>2. /\ I \in Pos /\ u.at \in Pos /\ UpTo(A, u.at) /\ UpTo(I, u.at)
    BY <1>1, <2>1, TokenPlaces
  <2>3. UpTo(A, Q) BY <1>2, <2>2, UpToTransitive
  <2>4. Field(Y, t.at, 1) = Field(Z, t.at, 1) BY <1>0, <1>1, <2>3, FieldAgrees
  <2> HIDE DEF A
  <2>5. UpTo(I, Q) BY <2>2, UpToTransitive
  <2>6. Indexed(Z, A, dist - 1)
    <3>1. Indexed(Y, A, dist - 1) BY <1>4 DEF Refers, A
    <3> QED BY <1>2, <2>5, <3>1, IndexedAgrees
  <2> HIDE DEF I
  <2>7. Field(Y, I, LookaheadBits) = Field(Z, I, LookaheadBits) BY <1>0, <2>1, <2>2, FieldAgrees
  <2>8. Refers(Z, src, t, u, dist, len) BY <1>4, <2>4, <2>6, <2>7 DEF Refers, A, I
  <2> QED BY <2>8 DEF Token
<1> QED BY <1>3, <1>4 DEF Token

LEMMA AgreeUpTo ==
    ASSUME NEW Y \in Seq(Byte), NEW Z \in Seq(Byte), NEW P \in Pos, NEW Q \in Pos,
           UpTo(P, Q), Agree(Y, Z, Q)
    PROVE  Agree(Y, Z, P)
<1>1. ByteBits \in Nat \ {0} BY ByteIs
<1>2. P.c \in Nat /\ P.b \in 0 .. ByteBits - 1 /\ Q.c \in Nat /\ Q.b \in 0 .. ByteBits - 1 BY DEF Pos
<1>3. /\ Q.c <= Len(Y) /\ Q.c <= Len(Z) /\ Len(Y) \in Nat /\ Len(Z) \in Nat
      /\ \A i \in 1 .. Q.c - 1 : Y[i] = Z[i]
      /\ At(Y, Q.c) \div Pow2[Q.b] = At(Z, Q.c) \div Pow2[Q.b]
  BY DEF Agree
<1>4. CASE P.c < Q.c
  <2>1. P.c <= Len(Y) /\ P.c <= Len(Z) BY <1>2, <1>3, <1>4
  <2>2. \A i \in 1 .. P.c - 1 : Y[i] = Z[i] BY <1>2, <1>3, <1>4
  <2>3. At(Y, P.c) = At(Z, P.c)
    <3>1. CASE P.c = 0 BY <3>1 DEF At
    <3>2. CASE P.c # 0
      <4>1. P.c \in 1 .. Q.c - 1 BY <1>2, <1>4, <3>2
      <4> QED BY <1>3, <3>2, <4>1 DEF At
    <3> QED BY <3>1, <3>2
  <2> QED BY <2>1, <2>2, <2>3 DEF Agree
<1>5. CASE P.c = Q.c /\ Q.b <= P.b
  <2> DEFINE y == At(Y, P.c)
             z == At(Z, P.c)
             k == P.b - Q.b
             p == P.b
             q == Q.b
  <2>1. k \in Nat /\ p = q + k /\ p \in Nat /\ q \in Nat BY <1>2, <1>5
  <2>2. y \in Nat /\ z \in Nat BY <1>2, <1>3, <1>5, AtType
  <2>3. y \div Pow2[q] = z \div Pow2[q] BY <1>3, <1>5
  <2> HIDE DEF y, z, k, p, q
  <2>4. y \div Pow2[p] = (y \div Pow2[q]) \div Pow2[k] BY <2>1, <2>2, DivPow
  <2>5. z \div Pow2[p] = (z \div Pow2[q]) \div Pow2[k] BY <2>1, <2>2, DivPow
  <2>6. At(Y, P.c) \div Pow2[P.b] = At(Z, P.c) \div Pow2[P.b] BY <2>3, <2>4, <2>5 DEF y, z, p
  <2> QED BY <1>3, <1>5, <2>6 DEF Agree
<1> QED BY <1>4, <1>5 DEF UpTo

LEMMA MarksAre ==
    ASSUME NEW T \in Seq(Mark), NEW i \in 1 .. Len(T)
    PROVE  T[i] \in Mark /\ T[i].at \in Pos /\ T[i].from \in Nat
<1>1. T[i] \in Mark OBVIOUS
<1> QED BY <1>1 DEF Mark

LEMMA LastMark ==
    ASSUME NEW T, NEW Y, NEW src, Tokens(T, Y, src)
    PROVE  /\ T \in Seq(Mark) /\ Len(T) \in Nat /\ Len(T) >= 1 /\ Len(T) \in 1 .. Len(T)
           /\ T[Len(T)] \in Mark /\ T[Len(T)].at \in Pos /\ T[Len(T)].from \in Nat
<1>1. T \in Seq(Mark) /\ Len(T) >= 1 BY DEF Tokens
<1>2. Len(T) \in Nat /\ Len(T) \in 1 .. Len(T) BY <1>1
<1> QED BY <1>1, <1>2, MarksAre

LEMMA TokensAgree ==
    ASSUME NEW Y \in Seq(Byte), NEW Z \in Seq(Byte), NEW src, NEW T, Tokens(T, Y, src),
           Agree(Y, Z, T[Len(T)].at)
    PROVE  Tokens(T, Z, src)
<1> DEFINE last == T[Len(T)]
<1>1. T \in Seq(Mark) /\ Len(T) >= 1 /\ Len(T) \in Nat /\ last \in Mark /\ last.at \in Pos
  BY LastMark
<1>2. ASSUME NEW i \in 1 .. Len(T) - 1
      PROVE  Token(Z, src, T[i], T[i + 1])
  <2>1. i \in 1 .. Len(T) /\ i + 1 \in 1 .. Len(T) BY <1>1
  <2>2. T[i] \in Mark /\ Token(Y, src, T[i], T[i + 1]) /\ UpTo(T[i + 1].at, last.at) BY <1>1, <2>1 DEF Tokens
  <2> QED BY <1>1, <2>2, TokenAgrees
<1>3. last.at.c <= Len(Z) BY DEF Agree
<1> QED BY <1>2, <1>3 DEF Tokens

\* A token more is written.
LEMMA TokensAppend ==
    ASSUME NEW Y \in Seq(Byte), NEW Z \in Seq(Byte), NEW src, Len(src) \in Nat, NEW T, Tokens(T, Y, src),
           Agree(Y, Z, T[Len(T)].at), NEW u, Token(Z, src, T[Len(T)], u), u.at.c <= Len(Z),
           u.from <= Len(src)
    PROVE  /\ Tokens(Append(T, u), Z, src)
           /\ Append(T, u)[Len(Append(T, u))] = u
<1> DEFINE last == T[Len(T)]
           U == Append(T, u)
           n == Len(T)
<1>1. T \in Seq(Mark) /\ n >= 1 /\ n \in Nat /\ last \in Mark /\ last.at \in Pos
  BY LastMark
<1>2. u \in Mark /\ UpTo(last.at, u.at) /\ u.at \in Pos BY <1>1, TokenType DEF Mark
<1>3. U \in Seq(Mark) /\ Len(U) = n + 1 /\ U[n + 1] = u /\ \A i \in 1 .. n : U[i] = T[i]
  BY <1>1, <1>2
<1>4. ASSUME NEW i \in 1 .. Len(U) - 1
      PROVE  Token(Z, src, U[i], U[i + 1])
  <2>1. i \in 1 .. n BY <1>1, <1>3
  <2>2. CASE i = n
    <3>1. U[i] = last /\ U[i + 1] = u BY <1>3, <2>1, <2>2
    <3> QED BY <3>1
  <2>3. CASE i # n
    <3>1. i \in 1 .. n - 1 /\ i + 1 \in 1 .. n BY <1>1, <2>1, <2>3
    <3>2. U[i] = T[i] /\ U[i + 1] = T[i + 1] BY <1>3, <2>1, <3>1
    <3>3. Token(Z, src, T[i], T[i + 1]) BY <3>1, TokensAgree DEF Tokens
    <3> QED BY <3>2, <3>3
  <2> QED BY <2>2, <2>3
<1>5. ASSUME NEW i \in 1 .. Len(U)
      PROVE  UpTo(U[i].at, u.at)
  <2>1. CASE i = n + 1
    <3>1. u.at.c \in Int /\ u.at.b \in Int BY <1>2 DEF Pos
    <3> QED BY <2>1, <3>1, <1>3 DEF UpTo
  <2>2. CASE i # n + 1
    <3>1. i \in 1 .. n BY <1>1, <1>3, <2>2
    <3>2. U[i] = T[i] /\ T[i] \in Mark /\ T[i].at \in Pos /\ UpTo(T[i].at, last.at)
      BY <1>1, <1>3, <3>1, MarksAre DEF Tokens
    <3> QED BY <1>1, <1>2, <3>2, UpToTransitive
  <2> QED BY <2>1, <2>2
<1>6. U[1] = T[1] BY <1>1, <1>3
<1>7. U[Len(U)] = u BY <1>3
<1> HIDE DEF U, n, last
<1>8. Tokens(U, Z, src)
  BY <1>1, <1>3, <1>4, <1>5, <1>6, <1>7 DEF Tokens, n
<1> QED BY <1>7, <1>8 DEF U

\* The source is read on.
LEMMA TokensGrow ==
    ASSUME NEW Y, NEW src \in Seq(Byte), NEW more \in Seq(Byte), NEW T, Tokens(T, Y, src)
    PROVE  Tokens(T, Y, src \o more)
<1> DEFINE grown == src \o more
<1>1. grown \in Seq(Byte) /\ Len(grown) >= Len(src) /\ Len(src) \in Nat /\ Len(grown) \in Nat
      /\ \A i \in 1 .. Len(src) : grown[i] = src[i]
  OBVIOUS
<1> HIDE DEF grown
<1>2. ASSUME NEW i \in Int, i <= Len(src) PROVE Nth(grown, i) = Nth(src, i)
  BY <1>1, <1>2 DEF Nth
<1>3. ASSUME NEW i \in 1 .. Len(T) - 1 PROVE Token(Y, grown, T[i], T[i + 1])
  <2> DEFINE t == T[i]
             u == T[i + 1]
  <2>1. t \in Mark /\ t.from \in Nat
    <3>1. Len(T) \in Nat /\ T \in Seq(Mark) BY DEF Tokens
    <3>2. i \in 1 .. Len(T) BY <3>1
    <3> QED BY <3>1, <3>2, MarksAre
  <2>2. Token(Y, src, t, u) BY DEF Tokens
  <2> HIDE DEF t, u
  <2>3. CASE Literal(Y, src, t, u)
    <3>1. Nth(grown, t.from + 1) = Nth(src, t.from + 1) /\ t.from + 1 <= Len(grown)
      BY <1>1, <1>2, <2>1, <2>3 DEF Literal
    <3>2. Literal(Y, grown, t, u) BY <2>3, <3>1 DEF Literal
    <3> QED BY <3>2 DEF Token, t, u
  <2>4. ASSUME NEW dist \in 1 .. Window, NEW len \in 1 .. Lookahead, Refers(Y, src, t, u, dist, len)
        PROVE  Token(Y, grown, t, u)
    <3>0. Window \in Nat /\ Lookahead \in Nat BY BitsAre
    <3>1. Repeats(src, t.from, dist, len) BY <2>4 DEF Refers
    <3>2. ASSUME NEW j \in 1 .. len PROVE Nth(grown, t.from + j) = Nth(grown, t.from + j - dist)
      <4>1. t.from + j \in Int /\ t.from + j - dist \in Int /\ t.from + j <= Len(src)
            /\ t.from + j - dist <= Len(src)
        BY <1>1, <2>1, <3>0, <3>1 DEF Repeats
      <4>2. Nth(grown, t.from + j) = Nth(src, t.from + j) BY <1>2, <4>1
      <4>3. Nth(grown, t.from + j - dist) = Nth(src, t.from + j - dist) BY <1>2, <4>1
      <4> QED BY <3>1, <4>2, <4>3 DEF Repeats
    <3>3. Repeats(grown, t.from, dist, len) BY <1>1, <2>1, <3>0, <3>1, <3>2 DEF Repeats
    <3> QED BY <2>4, <3>3 DEF Refers, Token
  <2> QED BY <2>2, <2>3, <2>4 DEF Token, t, u
<1>4. T[Len(T)].from \in Nat BY LastMark
<1>5. T[Len(T)].from <= Len(grown)
  <2>1. T[Len(T)].from <= Len(src) BY DEF Tokens
  <2> QED BY <1>1, <1>4, <2>1
<1>6. Tokens(T, Y, grown) BY <1>3, <1>5 DEF Tokens
<1> QED BY <1>6 DEF grown

\* The encoder writes what is above the lowest bits of the index, then those.
LEMMA IndexWritten ==
    ASSUME NEW Y \in Seq(Byte), NEW P \in Pos, NEW x \in Nat, x < Window, WindowBits > ByteBits,
           After(After(P, ByteBits), WindowBits - ByteBits).c <= Len(Y),
           Field(Y, P, ByteBits) = (x \div Pow2[WindowBits - ByteBits]) % Pow2[ByteBits],
           Field(Y, After(P, ByteBits), WindowBits - ByteBits) = x % Pow2[WindowBits - ByteBits]
    PROVE  Indexed(Y, P, x) /\ IndexEnd(P) = After(After(P, ByteBits), WindowBits - ByteBits)
<1> DEFINE h == WindowBits - ByteBits
           r == ByteBits - h
           M == After(P, h)
           N == After(P, ByteBits)
<1>1. h \in Nat /\ r \in Nat /\ h + r = ByteBits /\ r + h = ByteBits /\ ByteBits \in Nat /\ ByteBits >= 1
      /\ h <= ByteBits /\ r <= ByteBits
  BY BitsAre
<1>2. ByteBits + h = WindowBits /\ WindowBits \in Nat BY <1>1, BitsAre
<1>3. Low(P) = M /\ LowBits = ByteBits BY BitsAre DEF Low
<1> HIDE DEF h, r
<1>5. After(M, r) = N
  <2>1. After(After(P, h), r) = After(P, h + r) BY <1>1, AfterAfter
  <2> QED BY <1>1, <2>1
<1>4. M \in Pos /\ N \in Pos /\ UpTo(M, N)
  <2>1. M \in Pos /\ N \in Pos BY <1>1, AfterType
  <2> QED BY <1>1, <1>5, <2>1, AfterType
<1> DEFINE E == After(N, h)
<1>6. E = After(M, ByteBits) BY <1>1, <1>4, <1>5, AfterAfter
<1>7. E \in Pos /\ UpTo(N, E) /\ E.c <= Len(Y) BY <1>1, <1>4, AfterType DEF h
<1>8. N.c <= Len(Y)
  <2>1. N.c \in Nat /\ E.c \in Nat /\ Len(Y) \in Nat BY <1>4, <1>7 DEF Pos
  <2> QED BY <1>7, <2>1 DEF UpTo
<1> DEFINE hi == Field(Y, P, h)
           mid == Field(Y, M, r)
           lo == Field(Y, N, h)
           q == x \div Pow2[h]
<1>9. Field(Y, P, ByteBits) = hi * Pow2[r] + mid
  <2>1. h + r <= ByteBits /\ After(P, h + r).c <= Len(Y) BY <1>1, <1>8
  <2>2. Field(Y, P, h + r) = Field(Y, P, h) * Pow2[r] + Field(Y, After(P, h), r) BY <1>1, <2>1, FieldSplit
  <2> QED BY <1>1, <2>2
<1>10. Field(Y, M, ByteBits) = mid * Pow2[h] + lo
  <2> HIDE DEF M
  <2>1. r + h <= ByteBits /\ After(M, r + h).c <= Len(Y) BY <1>1, <1>6, <1>7
  <2>2. Field(Y, M, r + h) = Field(Y, M, r) * Pow2[h] + Field(Y, After(M, r), h) BY <1>1, <1>4, <2>1, FieldSplit
  <2> QED BY <1>1, <1>5, <2>2
<1>11. /\ Pow2[h] \in Nat /\ Pow2[h] >= 1 /\ Pow2[r] \in Nat /\ Pow2[r] >= 1
       /\ Pow2[ByteBits] \in Nat /\ Pow2[ByteBits] >= 1
  BY <1>1, Pow2Type
<1>12. q \in Nat /\ x % Pow2[h] \in Nat BY <1>11, DivRest
<1>13. q < Pow2[ByteBits]
  <2>1. Window = Pow2[ByteBits] * Pow2[h] BY <1>1, <1>2, Pow2Sum DEF Window
  <2>2. x = q * Pow2[h] + (x % Pow2[h]) BY <1>11, DivRest
  <2> DEFINE a == Pow2[h]
             b == Pow2[ByteBits]
             m == x % a
  <2>3. a \in Nat /\ a >= 1 /\ b \in Nat /\ m \in Nat /\ x = q * a + m /\ x < b * a BY <1>11, <1>12, <2>1, <2>2
  <2> HIDE DEF a, b, m, q
  <2>4. SUFFICES ASSUME q >= b PROVE FALSE BY <2>3, <1>12 DEF b
  <2>5. q * a >= b * a BY <2>3, <2>4, <1>12
  <2>6. q * a \in Nat /\ b * a \in Nat BY <2>3, <1>12
  <2> QED BY <2>3, <2>5, <2>6
<1>14. Field(Y, P, ByteBits) = q BY <1>11, <1>12, <1>13, DivSmall DEF h
<1>15. lo = x % Pow2[h] BY DEF h
<1>16. M.c <= Len(Y) /\ hi \in Nat /\ mid \in Nat /\ mid < Pow2[r]
  <2>1. M.c <= Len(Y)
    <3>1. N.c \in Nat /\ M.c \in Nat /\ Len(Y) \in Nat BY <1>4 DEF Pos
    <3> QED BY <1>4, <1>8, <3>1 DEF UpTo
  <2> QED BY <2>1, <1>1, <1>4, <1>5, <1>8, FieldBound
<1>17. hi = q \div Pow2[r] /\ mid = q % Pow2[r]
  <2> HIDE DEF hi, mid, q
  <2> QED BY <1>9, <1>11, <1>12, <1>14, <1>16, DivIs
<1>18. x \div Pow2[ByteBits] = q \div Pow2[r] /\ x % Pow2[ByteBits] = (q % Pow2[r]) * Pow2[h] + (x % Pow2[h])
  <2>1. /\ x \div Pow2[h + r] = (x \div Pow2[h]) \div Pow2[r]
        /\ x % Pow2[h + r] = ((x \div Pow2[h]) % Pow2[r]) * Pow2[h] + (x % Pow2[h])
    <3>1. h + r \in Nat BY <1>1
    <3> DEFINE k == h + r
    <3>2. k \in Nat /\ k = h + r BY <3>1
    <3> HIDE DEF k
    <3>3. x \div Pow2[k] = (x \div Pow2[h]) \div Pow2[r] BY <1>1, <3>2, DivPow
    <3>4. x % Pow2[k] = ((x \div Pow2[h]) % Pow2[r]) * Pow2[h] + (x % Pow2[h]) BY <1>1, <3>2, DivPow
    <3> QED BY <3>3, <3>4 DEF k
  <2>2. h + r = ByteBits BY <1>1
  <2> QED BY <2>1, <2>2
<1>19. Field(Y, P, h) = x \div Pow2[ByteBits] BY <1>17, <1>18
<1>20. Field(Y, M, ByteBits) = x % Pow2[ByteBits] BY <1>10, <1>15, <1>17, <1>18
<1>21. Indexed(Y, P, x) BY <1>3, <1>19, <1>20 DEF Indexed, h
<1>22. IndexEnd(P) = E BY <1>3, <1>6 DEF IndexEnd
<1> QED BY <1>21, <1>22 DEF h
LEMMA IndexWrittenAtOnce ==
    ASSUME NEW Y, NEW P, NEW x, ~(WindowBits > ByteBits), Field(Y, P, WindowBits) = x % Pow2[WindowBits]
    PROVE  Indexed(Y, P, x) /\ IndexEnd(P) = After(P, WindowBits)
BY BitsAre DEF Indexed, IndexEnd, Low

-----------------------------------------------------------------------------

\* A step function is iterated from s.
LEMMA IterationExists ==
    ASSUME NEW S, NEW s \in S, NEW n \in Nat, NEW g \in [S \X (1 .. n) -> S]
    PROVE  \E f : Iterates(f, S, s, n, g)
<1> DEFINE Upto(k) == {f \in [0 .. k -> S] : f[0] = s /\ \A i \in 1 .. k : f[i] = g[<<f[i - 1], i>>]}
           Bad == {k \in Nat : k <= n /\ Upto(k) = {}}
<1>1. SUFFICES ASSUME Bad # {} PROVE FALSE
  <2>1. Bad = {} BY <1>1
  <2>2. n \in Nat /\ n <= n OBVIOUS
  <2>3. Upto(n) # {}
    <3> HIDE DEF Upto
    <3> QED BY <2>1, <2>2
  <2> QED BY <2>3 DEF Iterates
<1>2. PICK k \in Bad : \A y \in Bad : k <= y
  BY <1>1, LeastElement
<1>3. CASE k = 0
  <2> DEFINE f == [i \in 0 .. 0 |-> s]
  <2>1. f \in Upto(0) OBVIOUS
  <2> QED BY <2>1, <1>2, <1>3
<1>4. CASE k # 0
  <2>0. k \in Nat /\ k <= n
    <3> HIDE DEF Upto
    <3> QED BY <1>2
  <2>1. k - 1 \in Nat /\ k - 1 <= n /\ k - 1 \notin Bad
    <3> HIDE DEF Bad
    <3> QED BY <1>2, <1>4, <2>0
  <2>2. PICK f : f \in Upto(k - 1) BY <2>1
  <2>3. f \in [0 .. k - 1 -> S] /\ f[0] = s /\ \A i \in 1 .. k - 1 : f[i] = g[<<f[i - 1], i>>]
    BY <2>2
  <2> DEFINE h == [i \in 0 .. k |-> IF i = k THEN g[<<f[k - 1], k>>] ELSE f[i]]
  <2>4. ASSUME NEW i \in 0 .. k PROVE h[i] \in S
    <3>1. CASE i = k
      <4>1. f[k - 1] \in S /\ k \in 1 .. n BY <2>1, <2>3, <1>2, <1>4
      <4> QED BY <3>1, <4>1
    <3>2. CASE i # k
      <4>1. i \in 0 .. k - 1 BY <3>2, <2>1
      <4> QED BY <3>2, <4>1, <2>3
    <3> QED BY <3>1, <3>2
  <2>5. h[0] = s BY <2>3, <1>4
  <2>6. ASSUME NEW i \in 1 .. k PROVE h[i] = g[<<h[i - 1], i>>]
    <3>1. i - 1 \in 0 .. k /\ i - 1 # k /\ i \in 0 .. k BY <2>1
    <3>2. CASE i = k BY <3>1, <3>2
    <3>3. CASE i # k
      <4>1. i \in 1 .. k - 1 BY <3>3, <2>1
      <4> QED BY <3>1, <3>3, <4>1, <2>3
    <3> QED BY <3>2, <3>3
  <2>7. h \in Upto(k) BY <2>4, <2>5, <2>6
  <2> QED BY <2>7, <1>2
<1> QED BY <1>3, <1>4

LEMMA CommonPrefixIs ==
    ASSUME NEW buf, NEW a, NEW b, NEW n \in Nat
    PROVE  /\ CommonPrefix(buf, a, b, n) \in 0 .. n
           /\ \A i \in 0 .. CommonPrefix(buf, a, b, n) - 1 : buf[a + i] = buf[b + i]
<1> DEFINE S == {k \in 0 .. n : k = n \/ buf[a + k] # buf[b + k]}
<1>1. n \in S OBVIOUS
<1>2. S \subseteq Nat OBVIOUS
<1>3. PICK k \in S : \A y \in S : k <= y
  <2> HIDE DEF S
  <2> QED BY <1>1, <1>2, LeastElement
<1>4. ASSUME NEW i \in 0 .. k - 1 PROVE buf[a + i] = buf[b + i]
  <2>1. i \in 0 .. n /\ i # n /\ ~(k <= i) BY <1>3
  <2> QED BY <1>3, <2>1
<1>5. \E j \in 0 .. n : /\ \A i \in 0 .. j - 1 : buf[a + i] = buf[b + i]
                        /\ j = n \/ buf[a + j] # buf[b + j]
  BY <1>3, <1>4
<1> QED BY <1>5, Zenon DEF CommonPrefix

LEMMA LongestMatchIs ==
    ASSUME NEW buf, NEW start \in Int, NEW pattern \in Int, start <= pattern, NEW maxlen \in Nat
    PROVE  Matches(LongestMatch(buf, pattern, maxlen, start), buf, pattern, maxlen, start)
<1> DEFINE m == LongestMatch(buf, pattern, maxlen, start)
           S == [at : Int, len : Nat]
           n == pattern - start
           B(p, best) == Better(buf, pattern, maxlen, p - 1, best)
           g == [q \in S \X (1 .. n) |-> B(start + q[2], q[1])]
<1>1. ASSUME NEW p \in Int, NEW best \in S PROVE B(p, best) \in S
  <2>1. CommonPrefix(buf, p - 1, pattern, maxlen) \in Nat BY CommonPrefixIs
  <2> QED BY <2>1 DEF Better
<1> HIDE DEF B
<1>2. n \in Nat /\ g \in [S \X (1 .. n) -> S] /\ NoMatch \in S
  <2>1. n \in Nat OBVIOUS
  <2>2. NoMatch \in S BY DEF NoMatch
  <2>3. ASSUME NEW q \in S \X (1 .. n) PROVE B(start + q[2], q[1]) \in S
    <3>1. q[1] \in S /\ start + q[2] \in Int BY <2>1
    <3> QED BY <3>1, <1>1
  <2> HIDE DEF S, n
  <2> QED BY <2>1, <2>2, <2>3
<1>3. PICK h \in [0 .. n -> S] : h[0] = NoMatch /\ \A i \in 1 .. n : h[i] = g[<<h[i - 1], i>>]
  <2> HIDE DEF S, g, n
  <2>1. \E h : Iterates(h, S, NoMatch, n, g) BY <1>2, IterationExists
  <2> QED BY <2>1 DEF Iterates
<1> DEFINE E(f) == [p \in start .. pattern |-> IF p = start THEN NoMatch ELSE B(p, f[p - 1])]
           f0 == [p \in start .. pattern |-> h[p - start]]
<1>4. f0 = E(f0)
  <2> SUFFICES ASSUME NEW p \in start .. pattern
               PROVE  f0[p] = IF p = start THEN NoMatch ELSE B(p, f0[p - 1])
    OBVIOUS
  <2>1. CASE p = start BY <1>3, <2>1
  <2>2. CASE p # start
    <3>1. p - start \in 1 .. n /\ (p - start) - 1 \in 0 .. n /\ p - 1 \in start .. pattern BY <2>2
    <3>2. h[(p - start) - 1] \in S BY <1>3, <3>1
    <3>3. h[p - start] = B(start + (p - start), h[(p - start) - 1])
      <4>1. <<h[(p - start) - 1], p - start>> \in S \X (1 .. n) BY <3>1, <3>2
      <4>2. h[p - start] = g[<<h[(p - start) - 1], p - start>>] BY <1>3, <3>1
      <4> HIDE DEF S, n
      <4> QED BY <4>1, <4>2
    <3>4. start + (p - start) = p /\ (p - start) - 1 = (p - 1) - start OBVIOUS
    <3> QED BY <2>2, <3>1, <3>3, <3>4
  <2> QED BY <2>1, <2>2
<1> HIDE DEF f0
<1>5. \E f : f = E(f) BY <1>4, Zenon
<1>6. PICK f : f = E(f) /\ m = f[pattern]
  <2> DEFINE longest == CHOOSE f : f = E(f)
  <2>1. longest = E(longest) BY <1>5, Zenon
  <2>2. m = longest[pattern] BY Zenon DEF LongestMatch, B, Better
  <2> QED BY <2>1, <2>2, Zenon
<1> HIDE DEF m
<1> DEFINE Good(v) == \/ v = NoMatch
                      \/ /\ v.at \in start .. pattern - 1 /\ v.len \in 0 .. maxlen
                         /\ \A i \in 0 .. v.len - 1 : buf[v.at + i] = buf[pattern + i]
           Bad == {k \in 0 .. n : ~Good(f[start + k])}
<1>7. ASSUME NEW p \in start + 1 .. pattern, NEW best, Good(best) PROVE Good(B(p, best))
  <2> DEFINE c == CommonPrefix(buf, p - 1, pattern, maxlen)
  <2>1. c \in 0 .. maxlen /\ \A i \in 0 .. c - 1 : buf[(p - 1) + i] = buf[pattern + i] BY CommonPrefixIs
  <2>2. B(p, best) = IF c < 2 \/ c <= best.len THEN best ELSE [at |-> p - 1, len |-> c] BY DEF B, Better
  <2> HIDE DEF c
  <2>3. CASE B(p, best) = best BY <2>3, <1>7
  <2>4. CASE B(p, best) = [at |-> p - 1, len |-> c]
    <3> DEFINE v == B(p, best)
    <3>1. v.at = p - 1 /\ v.len = c BY <2>4
    <3>2. p - 1 \in start .. pattern - 1 OBVIOUS
    <3> HIDE DEF v
    <3>3. Good(v) BY <2>1, <3>1, <3>2
    <3> QED BY <3>3 DEF v
  <2> QED BY <2>2, <2>3, <2>4
<1>8. Bad = {}
  <2> SUFFICES ASSUME Bad # {} PROVE FALSE OBVIOUS
  <2>1. Bad \subseteq Nat OBVIOUS
  <2>2. PICK k \in Bad : \A y \in Bad : k <= y
    <3> HIDE DEF Bad
    <3> QED BY <2>1, LeastElement
  <2>3. k \in 0 .. n /\ ~Good(f[start + k]) BY <2>2
  <2>4. CASE k = 0
    <3>1. start \in start .. pattern /\ start + 0 = start OBVIOUS
    <3>2. f[start] = NoMatch BY <1>6, <3>1
    <3> QED BY <2>3, <2>4, <3>1, <3>2
  <2>5. CASE k # 0
    <3>1. k - 1 \in 0 .. n /\ k - 1 \notin Bad
      <4>1. k \in Nat /\ k - 1 \in 0 .. n BY <2>3, <2>5
      <4> HIDE DEF Bad
      <4> QED BY <4>1, <2>2
    <3>2. Good(f[start + (k - 1)]) BY <3>1
    <3> DEFINE p == start + k
    <3>3. p \in start + 1 .. pattern /\ p \in start .. pattern /\ p # start /\ p - 1 = start + (k - 1)
      BY <2>3, <2>5
    <3> HIDE DEF Good, p
    <3>4. f[p] = B(p, f[p - 1]) BY <1>6, <3>3
    <3>5. Good(f[p]) BY <1>7, <3>2, <3>3, <3>4
    <3> QED BY <2>3, <3>5 DEF p
  <2> QED BY <2>4, <2>5
<1>9. n \in 0 .. n /\ start + n = pattern OBVIOUS
<1>10. Good(f[pattern]) BY <1>8, <1>9
<1>11. Good(m) BY <1>6, <1>10
<1> QED BY <1>11 DEF Matches, m

LEMMA MatchIs ==
    ASSUME NEW e, e.match_scan_index \in Nat, e.input_size \in Nat, e.match_scan_index <= e.input_size
    PROVE  \/ Match(e).len = 0
           \/ /\ Match(e).len \in 1 .. Lookahead /\ Match(e).at \in 1 .. Window
              /\ e.match_scan_index + Match(e).len <= e.input_size
              /\ \A i \in 0 .. Match(e).len - 1 :
                    LET here == Window + e.match_scan_index
                    IN  e.buffer[(here - Match(e).at) + i] = e.buffer[here + i]
<1> DEFINE here == Window + e.match_scan_index
           left == e.input_size - e.match_scan_index
           maxlen == IF left < Lookahead THEN left ELSE Lookahead
           found == LongestMatch(e.buffer, here, maxlen, here - Window)
           m == IF maxlen <= BreakEven THEN NoMatch ELSE found
<1>1. Match(e) = IF m.len > BreakEven THEN [at |-> here - m.at, len |-> m.len] ELSE NoMatch BY DEF Match
<1>2. Window \in Nat /\ Lookahead \in Nat /\ Window >= 1 /\ Lookahead >= 1 BY BitsAre
<1>3. BreakEven \in Nat
  <2>1. ByteBits \in Nat /\ ByteBits >= 1 /\ 1 + WindowBits + LookaheadBits \in Nat BY BitsAre
  <2> QED BY <2>1, DivRest DEF BreakEven
<1>4. here \in Int /\ here - Window \in Int /\ here - Window <= here /\ maxlen \in Nat /\ maxlen <= Lookahead
      /\ maxlen <= left
  BY <1>2
<1> HIDE DEF here, left, maxlen
<1>5. \/ found = NoMatch
      \/ /\ found.at \in here - Window .. here - 1 /\ found.len \in 0 .. maxlen
         /\ \A i \in 0 .. found.len - 1 : e.buffer[found.at + i] = e.buffer[here + i]
  <2>1. Matches(found, e.buffer, here, maxlen, here - Window) BY <1>4, LongestMatchIs
  <2> HIDE DEF found
  <2> QED BY <2>1 DEF Matches
<1> HIDE DEF found
<1>6. CASE m.len > BreakEven
  <2>1. NoMatch.len = 0 BY DEF NoMatch
  <2>2. m = found /\ found # NoMatch BY <1>3, <1>6, <2>1
  <2>3. Match(e).at = here - found.at /\ Match(e).len = found.len BY <1>1, <1>6, <2>2
  <2>4. found.len > BreakEven /\ found.len \in 0 .. maxlen /\ found.at \in here - Window .. here - 1
        /\ \A i \in 0 .. found.len - 1 : e.buffer[found.at + i] = e.buffer[here + i]
    BY <1>5, <1>6, <2>2
  <2> HIDE DEF m
  <2>5. found.len \in 1 .. Lookahead /\ here - found.at \in 1 .. Window /\ found.len <= left
        /\ here - (here - found.at) = found.at
    <3> DEFINE l == found.len
               a == found.at
    <3>1. l \in 0 .. maxlen /\ l > BreakEven /\ a \in here - Window .. here - 1 BY <2>4
    <3>2. here \in Int /\ left \in Int BY <1>4, <2>4 DEF left, here
    <3> HIDE DEF l, a
    <3>3. l \in 1 .. Lookahead /\ l <= left BY <1>2, <1>3, <1>4, <3>1, <3>2
    <3>4. here - a \in 1 .. Window /\ here - (here - a) = a BY <1>2, <3>1, <3>2
    <3> QED BY <3>3, <3>4 DEF l, a
  <2>6. e.match_scan_index + found.len <= e.input_size BY <2>4, <2>5 DEF left
  <2> QED BY <2>3, <2>4, <2>5, <2>6 DEF here
<1>7. CASE ~(m.len > BreakEven)
  BY <1>1, <1>7 DEF NoMatch
<1> QED BY <1>6, <1>7

-----------------------------------------------------------------------------
(* What the encoder has written.                                           *)

EncoderFields == {"buffer", "input_size", "match_scan_index", "state", "finishing", "match_pos",
                  "match_length", "outgoing", "count", "current_byte", "bit_index"}
LEMMA EncoderIs ==
    ASSUME NEW e \in Encoder
    PROVE  /\ e.buffer \in [0 .. 2 * Window - 1 -> Byte] /\ e.input_size \in 0 .. Window
           /\ e.match_scan_index \in 0 .. Window /\ e.state \in EncoderStates /\ e.finishing \in BOOLEAN
           /\ e.match_pos \in 0 .. Window /\ e.match_length \in 0 .. Lookahead /\ e.outgoing \in Nat
           /\ e.count \in 0 .. WindowBits /\ e.current_byte \in Byte /\ e.bit_index \in 0 .. ByteBits - 1
           /\ HasBits(e) /\ DOMAIN e = EncoderFields
<1>1. HasBits(e) BY DEF Encoder, HasBits
<1>2. DOMAIN e = EncoderFields BY DEF Encoder, EncoderFields
<1> QED BY <1>1, <1>2 DEF Encoder

LEMMA PushBitsIs ==
    ASSUME NEW f \in Seq(Byte), NEW e \in Encoder, NEW o \in Seq(Byte),
           NEW count \in 1 .. ByteBits, NEW v \in Nat, NEW s, s = PushBits(e, o, count, v)
    PROVE  Pushed(s, f, e, o, count, v)
<1>1. HasBits(e) BY EncoderIs
<1>2. /\ s.o \in Seq(Byte) /\ Len(s.o) \in {Len(o), Len(o) + 1}
      /\ \E cb \in Byte, bi \in 0 .. ByteBits - 1 :
            s = [e |-> [e EXCEPT !.current_byte = cb, !.bit_index = bi], o |-> s.o]
      /\ Tip(f, s.e, s.o) = After(Tip(f, e, o), count)
      /\ Agree(Stream(f, e, o), Stream(f, s.e, s.o), Tip(f, e, o))
      /\ Field(Stream(f, s.e, s.o), Tip(f, e, o), count) = v % Pow2[count]
  <2>1. Wrote(PushBits(e, o, count, v), f, e, o, count, v) BY <1>1, PushBitsWrites
  <2>2. Wrote(s, f, e, o, count, v) BY <2>1
  <2> QED BY <2>2, Zenon DEF Wrote
<1>3. PICK cb \in Byte, bi \in 0 .. ByteBits - 1 :
            s = [e |-> [e EXCEPT !.current_byte = cb, !.bit_index = bi], o |-> s.o]
  BY <1>2
<1>4. s.e = [e EXCEPT !.current_byte = cb, !.bit_index = bi] BY <1>3
<1>5. s.e \in Encoder /\ SameButBits(s.e, e) BY <1>4 DEF Encoder, SameButBits
<1>6. s = [e |-> s.e, o |-> s.o] BY <1>3
<1> QED BY <1>2, <1>5, <1>6 DEF Pushed

LEMMA StreamType ==
    ASSUME NEW f \in Seq(Byte), NEW e \in Encoder, NEW o \in Seq(Byte)
    PROVE  /\ Stream(f, e, o) \in Seq(Byte) /\ Len(Stream(f, e, o)) = Len(f \o o) + 1
           /\ f \o o \in Seq(Byte) /\ Tip(f, e, o) \in Pos
           /\ Tip(f, e, o).c <= Len(Stream(f, e, o))
<1>1. f \o o \in Seq(Byte) /\ Len(f \o o) \in Nat OBVIOUS
<1>2. e.current_byte \in Nat /\ e.bit_index \in 0 .. ByteBits - 1 BY EncoderIs, ByteIs
<1> DEFINE z == f \o o
           k == e.bit_index
           byte == e.current_byte
<1> HIDE DEF z, k, byte
<1>3. Flushed(z, byte, k) \in Seq(Byte) /\ Len(Flushed(z, byte, k)) = Len(z) + 1 /\ Ends(z, k) \in Pos
  BY <1>1, <1>2, FlushedIs, EndsType DEF z, k, byte
<1>4. Ends(z, k).c <= Len(z) + 1 BY <1>1 DEF Ends, z
<1> QED BY <1>1, <1>3, <1>4 DEF Stream, Tip, z, k, byte

\* What the parts that hold the tokens need of the encoder.
LEMMA StreamSame ==
    ASSUME NEW f, NEW e, NEW o, NEW d, d.current_byte = e.current_byte, d.bit_index = e.bit_index
    PROVE  Stream(f, d, o) = Stream(f, e, o) /\ Tip(f, d, o) = Tip(f, e, o)
BY DEF Stream, Tip

-----------------------------------------------------------------------------
(* The steps of the encoder: each keeps what is coded, and codes more.     *)

LEMMA UpToSelf == ASSUME NEW P \in Pos PROVE UpTo(P, P)
<1>1. P.b \in Int BY DEF Pos
<1> QED BY <1>1 DEF UpTo

LEMMA CodedIs ==
    ASSUME NEW e, NEW o, NEW f, NEW src, NEW base, NEW T, Coded(e, o, f, src, base, T),
           e.state # "done"
    PROVE  /\ e \in Encoder /\ o \in Seq(Byte) /\ f \in Seq(Byte) /\ src \in Seq(Byte)
           /\ Buffered(e, src, base) /\ base \in Nat
           /\ Tokens(T, Stream(f, e, o), src)
           /\ Progress(e, Stream(f, e, o), src, base, Tip(f, e, o), T[Len(T)])
           /\ T[Len(T)] \in Mark /\ T[Len(T)].at \in Pos /\ T[Len(T)].from \in Nat
           /\ Tip(f, e, o) \in Pos /\ Stream(f, e, o) \in Seq(Byte)
           /\ Tip(f, e, o).c <= Len(Stream(f, e, o))
<1>1. /\ e \in Encoder /\ o \in Seq(Byte) /\ f \in Seq(Byte) /\ src \in Seq(Byte)
      /\ Buffered(e, src, base) /\ base \in Nat
      /\ Tokens(T, Stream(f, e, o), src)
      /\ Progress(e, Stream(f, e, o), src, base, Tip(f, e, o), T[Len(T)])
  BY DEF Coded, Buffered
<1> QED BY <1>1, LastMark, StreamType

\* Nothing is written.
LEMMA SilentStep ==
    ASSUME NEW e, NEW o, NEW f, NEW src, NEW base, NEW T, Coded(e, o, f, src, base, T),
           e.state # "done",
           NEW d \in Encoder, d.current_byte = e.current_byte, d.bit_index = e.bit_index,
           d.state # "done", d.finishing = e.finishing,
           NEW b \in Nat, Buffered(d, src, b), b + d.input_size = base + e.input_size,
           Progress(d, Stream(f, e, o), src, b, Tip(f, e, o), T[Len(T)])
    PROVE  Advances(Stays(d, o), e, f, src, base)
<1>1. Stream(f, d, o) = Stream(f, e, o) /\ Tip(f, d, o) = Tip(f, e, o) BY StreamSame
<1>2. Coded(d, o, f, src, b, T) BY <1>1, CodedIs DEF Coded
<1>3. Stays(d, o).e = d /\ Stays(d, o).o = o BY DEF Stays
<1> QED BY <1>2, <1>3 DEF Advances

LEMMA FilledStep ==
    ASSUME NEW e, NEW o, NEW f, NEW src, NEW base, NEW T, Coded(e, o, f, src, base, T),
           e.state = "filled"
    PROVE  Advances(Stays([e EXCEPT !.state = "search"], o), e, f, src, base)
<1> DEFINE d == [e EXCEPT !.state = "search"]
<1>1. e \in Encoder BY CodedIs
<1>2. d \in Encoder /\ d.state = "search" /\ SameButBits([d EXCEPT !.state = e.state], e)
      /\ d.current_byte = e.current_byte /\ d.bit_index = e.bit_index
  BY <1>1 DEF Encoder, EncoderStates, SameButBits
<1>3. d.buffer = e.buffer /\ d.input_size = e.input_size /\ d.match_scan_index = e.match_scan_index
      /\ d.finishing = e.finishing
  BY <1>1 DEF Encoder
<1>4. AtToken(e, base, Tip(f, e, o), T[Len(T)])
  BY CodedIs DEF Progress, AtTag, AtLiteral, AtIndex, AtLength
<1> HIDE DEF d
<1>5. AtToken(d, base, Tip(f, e, o), T[Len(T)]) BY <1>2, <1>3, <1>4 DEF AtToken, Between
<1>6. Buffered(d, src, base) BY <1>3, CodedIs DEF Buffered
<1>7. base \in Nat /\ Progress(d, Stream(f, e, o), src, base, Tip(f, e, o), T[Len(T)]) BY <1>5, CodedIs DEF Progress
<1>8. Advances(Stays(d, o), e, f, src, base) BY <1>2, <1>3, <1>6, <1>7, SilentStep
<1> QED BY <1>8 DEF d

LEMMA SearchStep ==
    ASSUME NEW e, NEW o, NEW f, NEW src, NEW base, NEW T, Coded(e, o, f, src, base, T),
           e.state = "search"
    PROVE  Advances(Stays(StepSearch(e), o), e, f, src, base)
<1> DEFINE m == Match(e)
           msi == e.match_scan_index
           over == IF e.finishing THEN e.match_scan_index >= e.input_size
                   ELSE e.match_scan_index > e.input_size - Lookahead
           t == T[Len(T)]
           tip == Tip(f, e, o)
           Y == Stream(f, e, o)
<1>1. /\ e \in Encoder /\ src \in Seq(Byte) /\ Buffered(e, src, base) /\ base \in Nat
      /\ t.from \in Nat
  BY CodedIs
<1>2. AtToken(e, base, tip, t)
  BY CodedIs DEF Progress, AtTag, AtLiteral, AtIndex, AtLength
<1>3. /\ msi \in Nat /\ e.input_size \in Nat /\ msi <= e.input_size /\ e.input_size <= Window
      /\ Window \in Nat /\ Lookahead \in Nat /\ Lookahead >= 1 /\ Len(src) \in Nat
      /\ base + e.input_size <= Len(src)
  BY <1>1, EncoderIs, BitsAre DEF Buffered
<1> DEFINE ends == [e EXCEPT !.state = IF e.finishing THEN "flush_bits" ELSE "save_backlog"]
           lit == [e EXCEPT !.match_scan_index = @ + 1, !.match_length = 0, !.state = "yield_tag_bit"]
           ref == [e EXCEPT !.match_pos = m.at, !.match_length = m.len, !.state = "yield_tag_bit"]
<1>4. StepSearch(e) = IF over THEN ends ELSE IF m.len = 0 THEN lit ELSE ref
  BY DEF StepSearch
<1>5. CASE over
  <2>1. /\ ends \in Encoder /\ ends.state = IF e.finishing THEN "flush_bits" ELSE "save_backlog"
        /\ ends.current_byte = e.current_byte /\ ends.bit_index = e.bit_index
        /\ ends.buffer = e.buffer /\ ends.input_size = e.input_size /\ ends.match_scan_index = msi
        /\ ends.finishing = e.finishing
    BY <1>1 DEF Encoder, EncoderStates
  <2> HIDE DEF ends
  <2>2. AtToken(ends, base, tip, t) BY <1>2, <1>3, <1>5, <2>1 DEF AtToken, Between
  <2>3. Buffered(ends, src, base) BY <1>1, <2>1 DEF Buffered
  <2>4. Progress(ends, Y, src, base, tip, t) /\ ends.state # "done" BY <2>1, <2>2 DEF Progress
  <2>5. Advances(Stays(ends, o), e, f, src, base)
    BY <1>1, <2>1, <2>3, <2>4, SilentStep
  <2> QED BY <1>4, <1>5, <2>5
<1>6. CASE ~over /\ m.len = 0
  <2>1. msi + 1 <= e.input_size /\ msi + 1 \in 0 .. Window BY <1>3, <1>6
  <2>2. /\ lit \in Encoder /\ lit.state = "yield_tag_bit"
        /\ lit.current_byte = e.current_byte /\ lit.bit_index = e.bit_index
        /\ lit.buffer = e.buffer /\ lit.input_size = e.input_size /\ lit.match_scan_index = msi + 1
        /\ lit.finishing = e.finishing /\ lit.match_length = 0
    <3> DEFINE k == msi + 1
    <3>1. lit = [e EXCEPT !.match_scan_index = k, !.match_length = 0, !.state = "yield_tag_bit"] BY <1>1 DEF Encoder
    <3>2. k \in 0 .. Window /\ 0 \in 0 .. Lookahead BY <1>3, <2>1
    <3> HIDE DEF k, lit
    <3>3. lit.match_scan_index = k BY <1>1, <3>1 DEF Encoder
    <3> QED BY <1>1, <3>1, <3>2, <3>3 DEF Encoder, EncoderStates, k
  <2> HIDE DEF lit
  <2>3. AtTag(lit, src, base, tip, t) BY <1>1, <1>2, <1>3, <2>2 DEF AtToken, AtTag
  <2>4. Buffered(lit, src, base) BY <1>1, <2>1, <2>2 DEF Buffered
  <2>5. Progress(lit, Y, src, base, tip, t) /\ lit.state # "done" BY <2>2, <2>3 DEF Progress
  <2>6. Advances(Stays(lit, o), e, f, src, base)
    BY <1>1, <2>2, <2>4, <2>5, SilentStep
  <2> QED BY <1>4, <1>6, <2>6
<1>7. CASE ~over /\ m.len # 0
  <2>1. /\ m.len \in 1 .. Lookahead /\ m.at \in 1 .. Window /\ msi + m.len <= e.input_size
        /\ \A i \in 0 .. m.len - 1 :
              e.buffer[((Window + msi) - m.at) + i] = e.buffer[(Window + msi) + i]
    BY <1>3, <1>7, MatchIs
  <2> DEFINE dist == m.at
             len == m.len
  <2> HIDE DEF m
  <2>2. /\ ref \in Encoder /\ ref.state = "yield_tag_bit"
        /\ ref.current_byte = e.current_byte /\ ref.bit_index = e.bit_index
        /\ ref.buffer = e.buffer /\ ref.input_size = e.input_size /\ ref.match_scan_index = msi
        /\ ref.finishing = e.finishing /\ ref.match_length = len /\ ref.match_pos = dist
    <3>1. ref = [e EXCEPT !.match_pos = dist, !.match_length = len, !.state = "yield_tag_bit"] OBVIOUS
    <3>2. dist \in 0 .. Window /\ len \in 0 .. Lookahead BY <1>3, <2>1
    <3> HIDE DEF dist, len, ref
    <3> QED BY <1>1, <3>1, <3>2 DEF Encoder, EncoderStates
  <2> HIDE DEF ref, dist, len
  <2>3. ASSUME NEW i \in 1 .. len
        PROVE  Nth(src, (base + msi) + i) = Nth(src, ((base + msi) + i) - dist)
    <3> DEFINE a == ((Window + msi) - dist) + (i - 1)
               b == (Window + msi) + (i - 1)
    <3>1. len \in 1 .. Lookahead /\ dist \in 1 .. Window /\ msi + len <= e.input_size BY <2>1 DEF len, dist
    <3>2. i - 1 \in 0 .. len - 1 /\ a \in 0 .. Window + e.input_size - 1 /\ b \in 0 .. Window + e.input_size - 1
      BY <1>3, <3>1
    <3>3. e.buffer[a] = e.buffer[b] BY <2>1, <3>2 DEF len, dist
    <3>4. (base - Window) + a + 1 = ((base + msi) + i) - dist /\ (base - Window) + b + 1 = (base + msi) + i
      BY <1>1, <1>3, <3>1
    <3> HIDE DEF a, b
    <3>5. e.buffer[a] = Nth(src, (base - Window) + a + 1) /\ e.buffer[b] = Nth(src, (base - Window) + b + 1)
      BY <1>1, <3>2 DEF Buffered
    <3> QED BY <3>3, <3>4, <3>5
  <2>4. Repeats(src, base + msi, dist, len)
    BY <1>1, <1>3, <2>1, <2>3 DEF Repeats, len, dist
  <2>5. len # 0 /\ msi + len <= e.input_size BY <2>1 DEF len
  <2>6. AtTag(ref, src, base, tip, t) BY <1>2, <2>2, <2>4, <2>5 DEF AtToken, AtTag, Found
  <2>7. Buffered(ref, src, base) BY <1>1, <2>2 DEF Buffered
  <2>8. Progress(ref, Y, src, base, tip, t) /\ ref.state # "done" BY <2>2, <2>6 DEF Progress
  <2>9. Advances(Stays(ref, o), e, f, src, base)
    BY <1>1, <2>2, <2>7, <2>8, SilentStep
  <2> QED BY <1>4, <1>7, <2>9 DEF ref
<1> QED BY <1>5, <1>6, <1>7

LEMMA SaveBacklogStep ==
    ASSUME NEW e, NEW o, NEW f, NEW src, NEW base, NEW T, Coded(e, o, f, src, base, T),
           e.state = "save_backlog"
    PROVE  Advances(Stays(SaveBacklog(e), o), e, f, src, base)
<1> DEFINE msi == e.match_scan_index
           d == SaveBacklog(e)
           size == e.input_size - msi
           t == T[Len(T)]
           tip == Tip(f, e, o)
           Y == Stream(f, e, o)
<1>1. /\ e \in Encoder /\ src \in Seq(Byte) /\ Buffered(e, src, base) /\ base \in Nat
      /\ t.from \in Nat
  BY CodedIs
<1>2. AtToken(e, base, tip, t)
  BY CodedIs DEF Progress, AtTag, AtLiteral, AtIndex, AtLength
<1>3. /\ msi \in Nat /\ e.input_size \in Nat /\ msi <= e.input_size /\ e.input_size <= Window
      /\ Window \in Nat /\ Len(src) \in Nat /\ base + e.input_size <= Len(src)
      /\ e.buffer \in [0 .. 2 * Window - 1 -> Byte]
  BY <1>1, EncoderIs, BitsAre DEF Buffered
<1> DEFINE moved == [i \in DOMAIN e.buffer |-> IF i + msi \in DOMAIN e.buffer THEN e.buffer[i + msi] ELSE e.buffer[i]]
<1>4. d = [e EXCEPT !.buffer = moved, !.match_scan_index = 0, !.input_size = size, !.state = "not_full"]
  BY <1>1 DEF SaveBacklog, Encoder
<1>5. moved \in [0 .. 2 * Window - 1 -> Byte] /\ size \in 0 .. Window /\ 0 \in 0 .. Window BY <1>3
<1>6. /\ d \in Encoder /\ d.state = "not_full" /\ d.buffer = moved /\ d.input_size = size
      /\ d.match_scan_index = 0 /\ d.finishing = e.finishing
      /\ d.current_byte = e.current_byte /\ d.bit_index = e.bit_index
  <2> HIDE DEF moved, size, d
  <2> QED BY <1>1, <1>4, <1>5 DEF Encoder, EncoderStates
<1>7. ASSUME NEW i \in 0 .. Window + size - 1
      PROVE  moved[i] = Nth(src, ((base + msi) - Window) + i + 1)
  <2>1. i \in 0 .. 2 * Window - 1 /\ i + msi \in 0 .. Window + e.input_size - 1
        /\ i + msi \in 0 .. 2 * Window - 1
    BY <1>3
  <2>2. moved[i] = e.buffer[i + msi] BY <1>3, <2>1
  <2>3. e.buffer[i + msi] = Nth(src, (base - Window) + (i + msi) + 1) BY <1>1, <2>1 DEF Buffered
  <2>4. (base - Window) + (i + msi) + 1 = ((base + msi) - Window) + i + 1 BY <1>1, <1>3
  <2> QED BY <2>2, <2>3, <2>4
<1>8. base + msi \in Nat /\ (base + msi) + size = base + e.input_size BY <1>1, <1>3
<1> HIDE DEF moved, d, size
<1>9. Buffered(d, src, base + msi)
  <2>1. d.match_scan_index <= d.input_size BY <1>5, <1>6
  <2>2. (base + msi) + d.input_size <= Len(src) BY <1>3, <1>6, <1>8
  <2> QED BY <1>6, <1>7, <1>8, <2>1, <2>2 DEF Buffered
<1>10. AtToken(d, base + msi, tip, t) BY <1>2, <1>6, <1>8 DEF AtToken, Between
<1>11. Progress(d, Y, src, base + msi, tip, t) /\ d.state # "done" BY <1>6, <1>10 DEF Progress
<1>12. (base + msi) + d.input_size = base + e.input_size BY <1>6, <1>8
<1>13. Advances(Stays(d, o), e, f, src, base)
  BY <1>6, <1>8, <1>9, <1>11, <1>12, SilentStep
<1> QED BY <1>13 DEF d

LEMMA SilentStepWith ==
    ASSUME NEW e, NEW o, NEW f, NEW src, NEW base, NEW T, Coded(e, o, f, src, base, T),
           e.state # "done",
           NEW d \in Encoder, d.current_byte = e.current_byte, d.bit_index = e.bit_index,
           d.state # "done", d.finishing = e.finishing, d.input_size = e.input_size,
           Buffered(d, src, base), NEW U, Tokens(U, Stream(f, e, o), src),
           Progress(d, Stream(f, e, o), src, base, Tip(f, e, o), U[Len(U)])
    PROVE  Advances(Stays(d, o), e, f, src, base)
<1>1. Stream(f, d, o) = Stream(f, e, o) /\ Tip(f, d, o) = Tip(f, e, o) BY StreamSame
<1>2. Coded(d, o, f, src, base, U) /\ base \in Nat BY <1>1, CodedIs DEF Coded
<1>3. Stays(d, o).e = d /\ Stays(d, o).o = o BY DEF Stays
<1> QED BY <1>2, <1>3 DEF Advances

\* g is d but for its state.
LEMMA GoesIs ==
    ASSUME NEW s, s = [e |-> s.e, o |-> s.o], s.e \in Encoder, NEW state \in EncoderStates
    PROVE  /\ Goes(s, state) = [e |-> Goes(s, state).e, o |-> s.o]
           /\ Goes(s, state).e \in Encoder /\ Goes(s, state).e.state = state
           /\ Goes(s, state).e.buffer = s.e.buffer /\ Goes(s, state).e.input_size = s.e.input_size
           /\ Goes(s, state).e.match_scan_index = s.e.match_scan_index
           /\ Goes(s, state).e.finishing = s.e.finishing /\ Goes(s, state).e.match_pos = s.e.match_pos
           /\ Goes(s, state).e.match_length = s.e.match_length
           /\ Goes(s, state).e.outgoing = s.e.outgoing /\ Goes(s, state).e.count = s.e.count
           /\ Goes(s, state).e.current_byte = s.e.current_byte
           /\ Goes(s, state).e.bit_index = s.e.bit_index
<1> DEFINE d == [s.e EXCEPT !.state = state]
<1>1. Goes(s, state) = [e |-> d, o |-> s.o]
  BY DEF Goes
<1>2. /\ d \in Encoder /\ d.state = state /\ d.buffer = s.e.buffer /\ d.input_size = s.e.input_size
      /\ d.match_scan_index = s.e.match_scan_index
      /\ d.finishing = s.e.finishing /\ d.match_pos = s.e.match_pos /\ d.match_length = s.e.match_length
      /\ d.outgoing = s.e.outgoing /\ d.count = s.e.count
      /\ d.current_byte = s.e.current_byte /\ d.bit_index = s.e.bit_index
  BY DEF Encoder
<1> HIDE DEF d
<1>3. Goes(s, state).e = d BY <1>1
<1> QED BY <1>1, <1>2, <1>3

\* Bits are pushed by d, and g is what goes on.
LEMMA PushedStep ==
    ASSUME NEW e, NEW o, NEW f, NEW src, NEW base, NEW T, Coded(e, o, f, src, base, T),
           e.state # "done",
           NEW s, s.o \in Seq(Byte), NEW g \in Encoder, s = [e |-> g, o |-> s.o],
           g.state # "done", g.finishing = e.finishing, g.input_size = e.input_size,
           g.buffer = e.buffer, g.match_scan_index <= g.input_size,
           NEW U, Tokens(U, Stream(f, g, s.o), src),
           Progress(g, Stream(f, g, s.o), src, base, Tip(f, g, s.o), U[Len(U)])
    PROVE  Advances(s, e, f, src, base)
<1>1. Buffered(g, src, base) BY CodedIs DEF Buffered
<1>2. Coded(g, s.o, f, src, base, U) /\ base \in Nat BY <1>1, CodedIs DEF Coded
<1>3. s.e = g OBVIOUS
<1> QED BY <1>2, <1>3 DEF Advances

LEMMA PushedKeeps ==
    ASSUME NEW f \in Seq(Byte), NEW e \in Encoder, NEW o \in Seq(Byte), NEW src,
           NEW count \in 1 .. ByteBits, NEW v, NEW s, Pushed(s, f, e, o, count, v),
           NEW T, Tokens(T, Stream(f, e, o), src), UpTo(T[Len(T)].at, Tip(f, e, o))
    PROVE  /\ Tokens(T, Stream(f, s.e, s.o), src)
           /\ Agree(Stream(f, e, o), Stream(f, s.e, s.o), T[Len(T)].at)
           /\ Stream(f, s.e, s.o) \in Seq(Byte) /\ Tip(f, s.e, s.o) \in Pos
           /\ Tip(f, s.e, s.o).c <= Len(Stream(f, s.e, s.o))
<1> DEFINE Y == Stream(f, e, o)
           Z == Stream(f, s.e, s.o)
           tip == Tip(f, e, o)
           last == T[Len(T)].at
<1>1. s.e \in Encoder /\ s.o \in Seq(Byte) BY DEF Pushed
<1>2. Y \in Seq(Byte) /\ tip \in Pos BY StreamType
<1>3. Z \in Seq(Byte) /\ Tip(f, s.e, s.o) \in Pos /\ Tip(f, s.e, s.o).c <= Len(Z) BY <1>1, StreamType
<1>4. Agree(Y, Z, tip) BY DEF Pushed
<1>5. last \in Pos BY LastMark
<1> HIDE DEF Y, Z, tip, last
<1>6. Agree(Y, Z, last) BY <1>2, <1>3, <1>4, <1>5, AgreeUpTo DEF last, tip
<1>7. Tokens(T, Z, src) BY <1>2, <1>3, <1>6, TokensAgree DEF Y, last
<1> QED BY <1>3, <1>6, <1>7 DEF Y, Z, last

LEMMA PushedField ==
    ASSUME NEW f \in Seq(Byte), NEW e \in Encoder, NEW o \in Seq(Byte),
           NEW count \in 1 .. ByteBits, NEW v, NEW s, Pushed(s, f, e, o, count, v),
           NEW P \in Pos, NEW n \in Nat, n <= ByteBits, UpTo(After(P, n), Tip(f, e, o))
    PROVE  Field(Stream(f, s.e, s.o), P, n) = Field(Stream(f, e, o), P, n)
<1> DEFINE Y == Stream(f, e, o)
           Z == Stream(f, s.e, s.o)
           tip == Tip(f, e, o)
<1>1. s.e \in Encoder /\ s.o \in Seq(Byte) BY DEF Pushed
<1>2. Y \in Seq(Byte) /\ tip \in Pos BY StreamType
<1>3. Z \in Seq(Byte) BY <1>1, StreamType
<1>4. Agree(Y, Z, tip) BY DEF Pushed
<1> HIDE DEF Y, Z
<1>5. Field(Y, P, n) = Field(Z, P, n) BY <1>2, <1>3, <1>4, FieldAgrees
<1> QED BY <1>5 DEF Y, Z

LEMMA PushedIndexed ==
    ASSUME NEW f \in Seq(Byte), NEW e \in Encoder, NEW o \in Seq(Byte),
           NEW count \in 1 .. ByteBits, NEW v, NEW s, Pushed(s, f, e, o, count, v),
           NEW P \in Pos, NEW x, UpTo(IndexEnd(P), Tip(f, e, o)), Indexed(Stream(f, e, o), P, x)
    PROVE  Indexed(Stream(f, s.e, s.o), P, x)
<1> DEFINE Y == Stream(f, e, o)
           Z == Stream(f, s.e, s.o)
           tip == Tip(f, e, o)
<1>1. s.e \in Encoder /\ s.o \in Seq(Byte) BY DEF Pushed
<1>2. Y \in Seq(Byte) /\ tip \in Pos BY StreamType
<1>3. Z \in Seq(Byte) BY <1>1, StreamType
<1>4. Agree(Y, Z, tip) BY DEF Pushed
<1> HIDE DEF Y, Z
<1>5. Indexed(Z, P, x) BY <1>2, <1>3, <1>4, IndexedAgrees DEF Y
<1> QED BY <1>5 DEF Z

LEMMA OneBit == Pow2[1] = 2 /\ 1 % Pow2[1] = 1 /\ 0 % Pow2[1] = 0
<1>1. Pow2[0 + 1] = 2 * Pow2[0] BY Pow2Next
<1>2. Pow2[1] = 2 BY <1>1, Pow2Zero
<1> QED BY <1>2

LEMMA TagStep ==
    ASSUME NEW e, NEW o, NEW f, NEW src, NEW base, NEW T, Coded(e, o, f, src, base, T),
           e.state = "yield_tag_bit"
    PROVE  Advances(YieldTagBit(e, o), e, f, src, base)
<1> DEFINE t == T[Len(T)]
           tip == Tip(f, e, o)
           Y == Stream(f, e, o)
<1>1. /\ e \in Encoder /\ o \in Seq(Byte) /\ f \in Seq(Byte) /\ src \in Seq(Byte) /\ Buffered(e, src, base)
      /\ Tokens(T, Y, src) /\ t.from \in Nat /\ t.at \in Pos /\ tip \in Pos /\ base \in Nat
  BY CodedIs
<1>2. AtTag(e, src, base, tip, t)
  BY CodedIs DEF Progress, AtToken, Between, AtLiteral, AtIndex, AtLength
<1>3. tip = t.at /\ UpTo(t.at, tip) BY <1>1, <1>2, UpToSelf DEF AtTag
<1>4. 1 \in 1 .. ByteBits /\ WindowBits \in Nat \ {0} /\ Window \in Nat BY BitsAre
<1>5. e.match_scan_index <= e.input_size BY <1>1 DEF Buffered
<1>6. CASE e.match_length = 0
  <2> DEFINE p == PushBits(e, o, 1, 1)
             s == Goes(p, "yield_literal")
             Z == Stream(f, p.e, p.o)
  <2>1. Pushed(p, f, e, o, 1, 1) BY <1>1, <1>4, PushBitsIs
  <2> HIDE DEF p
  <2>2. Tokens(T, Z, src) BY <1>1, <1>3, <1>4, <2>1, PushedKeeps
  <2>3. Field(Z, t.at, 1) = 1 /\ Tip(f, p.e, p.o) = After(t.at, 1) BY <1>3, <2>1, OneBit DEF Pushed
  <2>4. p = [e |-> p.e, o |-> p.o] /\ p.e \in Encoder /\ p.o \in Seq(Byte) /\ SameButBits(p.e, e)
    BY <2>1 DEF Pushed
  <2>5. "yield_literal" \in EncoderStates BY DEF EncoderStates
  <2> DEFINE g == s.e
  <2>6. /\ s = [e |-> g, o |-> p.o] /\ g \in Encoder /\ g.state = "yield_literal"
        /\ g.buffer = e.buffer /\ g.input_size = e.input_size /\ g.match_scan_index = e.match_scan_index
        /\ g.finishing = e.finishing
        /\ g.current_byte = p.e.current_byte /\ g.bit_index = p.e.bit_index
    BY <2>4, <2>5, GoesIs DEF SameButBits
  <2> HIDE DEF g, s
  <2>7. s.o = p.o BY <2>6
  <2>8. Stream(f, g, p.o) = Z /\ Tip(f, g, p.o) = Tip(f, p.e, p.o) BY <2>6, StreamSame
  <2>9. AtLiteral(g, Z, base, Tip(f, g, p.o), t)
    BY <1>2, <1>6, <2>3, <2>6, <2>8 DEF AtLiteral, AtTag
  <2>10. Progress(g, Stream(f, g, s.o), src, base, Tip(f, g, s.o), t) BY <2>7, <2>8, <2>9 DEF Progress
  <2>11. Advances(s, e, f, src, base)
    <3>1. s.o \in Seq(Byte) /\ s = [e |-> g, o |-> s.o] BY <2>4, <2>6, <2>7
    <3>2. Tokens(T, Stream(f, g, s.o), src) BY <2>2, <2>7, <2>8
    <3>3. g.state # "done" /\ e.state # "done" /\ g.match_scan_index <= g.input_size BY <1>5, <2>6
    <3> QED BY <3>1, <3>2, <3>3, <2>6, <2>10, PushedStep
  <2>12. YieldTagBit(e, o) = s BY <1>6 DEF YieldTagBit, s, p
  <2> QED BY <2>11, <2>12
<1>7. CASE e.match_length # 0
  <2> DEFINE d == [e EXCEPT !.outgoing = e.match_pos - 1, !.count = WindowBits]
             p == PushBits(d, o, 1, 0)
             s == Goes(p, "yield_br_index")
             Z == Stream(f, p.e, p.o)
  <2>0. Found(e, src, base) /\ t.from = base + e.match_scan_index /\ e.match_pos \in 1 .. Window
    BY <1>2, <1>7 DEF AtTag, Found, Repeats
  <2>1. e.match_pos - 1 \in Nat /\ WindowBits \in 0 .. WindowBits BY <1>4, <2>0
  <2>2. /\ d \in Encoder /\ d.buffer = e.buffer /\ d.input_size = e.input_size
        /\ d.match_scan_index = e.match_scan_index /\ d.finishing = e.finishing
        /\ d.match_pos = e.match_pos /\ d.match_length = e.match_length
        /\ d.outgoing = e.match_pos - 1 /\ d.count = WindowBits
        /\ d.current_byte = e.current_byte /\ d.bit_index = e.bit_index
    <3> DEFINE x == e.match_pos - 1
    <3>1. x \in Nat BY <2>1
    <3> HIDE DEF x
    <3> QED BY <1>1, <2>1, <3>1 DEF Encoder
  <2> HIDE DEF d
  <2>3. Stream(f, d, o) = Y /\ Tip(f, d, o) = tip BY <2>2, StreamSame
  <2>4. Pushed(p, f, d, o, 1, 0) BY <1>1, <1>4, <2>2, PushBitsIs
  <2> HIDE DEF p
  <2>5. Tokens(T, Z, src) BY <1>1, <1>3, <1>4, <2>2, <2>3, <2>4, PushedKeeps
  <2>6. Field(Z, t.at, 1) = 0 /\ Tip(f, p.e, p.o) = After(t.at, 1) BY <1>3, <2>3, <2>4, OneBit DEF Pushed
  <2>7. p = [e |-> p.e, o |-> p.o] /\ p.e \in Encoder /\ p.o \in Seq(Byte) /\ SameButBits(p.e, d)
    BY <2>4 DEF Pushed
  <2>8. "yield_br_index" \in EncoderStates BY DEF EncoderStates
  <2> DEFINE g == s.e
  <2>9. /\ s = [e |-> g, o |-> p.o] /\ g \in Encoder /\ g.state = "yield_br_index"
        /\ g.buffer = e.buffer /\ g.input_size = e.input_size /\ g.match_scan_index = e.match_scan_index
        /\ g.finishing = e.finishing /\ g.match_pos = e.match_pos /\ g.match_length = e.match_length
        /\ g.outgoing = e.match_pos - 1 /\ g.count = WindowBits
        /\ g.current_byte = p.e.current_byte /\ g.bit_index = p.e.bit_index
    BY <2>2, <2>7, <2>8, GoesIs DEF SameButBits
  <2> HIDE DEF g, s
  <2>10. s.o = p.o BY <2>9
  <2>11. Stream(f, g, p.o) = Z /\ Tip(f, g, p.o) = Tip(f, p.e, p.o) BY <2>9, StreamSame
  <2>12. Referring(g, Z, src, base, t) BY <2>0, <2>6, <2>9 DEF Referring, Found
  <2>13. AtIndex(g, Z, src, base, Tip(f, g, p.o), t) BY <2>6, <2>9, <2>11, <2>12 DEF AtIndex
  <2>14. Progress(g, Stream(f, g, s.o), src, base, Tip(f, g, s.o), t) BY <2>10, <2>11, <2>13 DEF Progress
  <2>15. Advances(s, e, f, src, base)
    <3>1. s.o \in Seq(Byte) /\ s = [e |-> g, o |-> s.o] BY <2>7, <2>9, <2>10
    <3>2. Tokens(T, Stream(f, g, s.o), src) BY <2>5, <2>10, <2>11
    <3>3. g.state # "done" /\ e.state # "done" /\ g.match_scan_index <= g.input_size BY <1>5, <2>9
    <3> QED BY <3>1, <3>2, <3>3, <2>9, <2>14, PushedStep
  <2>16. YieldTagBit(e, o) = s BY <1>7 DEF YieldTagBit, s, p, d
  <2> QED BY <2>15, <2>16
<1> QED BY <1>6, <1>7

LEMMA LiteralStep ==
    ASSUME NEW e, NEW o, NEW f, NEW src, NEW base, NEW T, Coded(e, o, f, src, base, T),
           e.state = "yield_literal"
    PROVE  Advances(YieldLiteral(e, o), e, f, src, base)
<1> DEFINE t == T[Len(T)]
           tip == Tip(f, e, o)
           Y == Stream(f, e, o)
           A == After(t.at, 1)
           byte == e.buffer[Window + e.match_scan_index - 1]
           p == PushBits(e, o, ByteBits, byte)
           s == Goes(p, "search")
           Z == Stream(f, p.e, p.o)
           E == After(A, ByteBits)
           u == [at |-> E, from |-> t.from + 1]
<1>1. /\ e \in Encoder /\ o \in Seq(Byte) /\ f \in Seq(Byte) /\ src \in Seq(Byte) /\ Buffered(e, src, base)
      /\ Tokens(T, Y, src) /\ t.from \in Nat /\ t.at \in Pos /\ tip \in Pos /\ base \in Nat /\ t \in Mark
  BY CodedIs
<1>2. AtLiteral(e, Y, base, tip, t)
  BY CodedIs DEF Progress, AtToken, Between, AtTag, AtIndex, AtLength
<1>3. ByteBits \in 1 .. ByteBits /\ ByteBits \in Nat /\ 1 <= ByteBits /\ Window \in Nat BY BitsAre
<1>4. /\ A \in Pos /\ E \in Pos /\ UpTo(t.at, A) /\ UpTo(A, E) /\ tip = A BY <1>1, <1>2, TokenPlaces DEF AtLiteral
<1>5. byte \in Byte /\ byte = Nth(src, t.from + 1) /\ t.from + 1 <= Len(src)
  <2> DEFINE i == Window + e.match_scan_index - 1
  <2>1. /\ e.match_scan_index \in Nat /\ e.match_scan_index >= 1 /\ e.match_scan_index <= e.input_size
        /\ e.input_size \in Nat /\ e.input_size <= Window /\ base + e.input_size <= Len(src)
        /\ Len(src) \in Nat /\ e.buffer \in [0 .. 2 * Window - 1 -> Byte]
    BY <1>1, <1>2, EncoderIs DEF Buffered, AtLiteral
  <2>2. i \in 0 .. Window + e.input_size - 1 /\ i \in 0 .. 2 * Window - 1 BY <1>3, <2>1
  <2>3. t.from + 1 = base + e.match_scan_index BY <1>2 DEF AtLiteral
  <2>4. (base - Window) + i + 1 = t.from + 1 BY <1>1, <1>3, <2>1, <2>3
  <2> HIDE DEF i
  <2>5. e.buffer[i] = Nth(src, (base - Window) + i + 1) BY <1>1, <2>2 DEF Buffered
  <2>6. e.buffer[i] \in Byte BY <2>1, <2>2
  <2> QED BY <1>1, <2>1, <2>3, <2>4, <2>5, <2>6 DEF i
<1> HIDE DEF byte
<1>6. byte \in Nat /\ byte < Pow2[ByteBits] /\ Pow2[ByteBits] \in Nat BY <1>3, <1>5, ByteIs, Pow2Type
<1>7. Pushed(p, f, e, o, ByteBits, byte) BY <1>1, <1>3, <1>6, PushBitsIs
<1> HIDE DEF p
<1>8. UpTo(t.at, tip) BY <1>4
<1>9. /\ Agree(Y, Z, t.at) /\ Z \in Seq(Byte) /\ Tip(f, p.e, p.o).c <= Len(Z)
  BY <1>1, <1>3, <1>7, <1>8, PushedKeeps
<1>10. Field(Z, t.at, 1) = 1
  <2>1. UpTo(After(t.at, 1), tip) BY <1>4, UpToSelf
  <2>2. Field(Z, t.at, 1) = Field(Y, t.at, 1) BY <1>1, <1>3, <1>7, <2>1, PushedField
  <2> QED BY <1>2, <2>2 DEF AtLiteral
<1>11. Field(Z, A, ByteBits) = byte /\ Tip(f, p.e, p.o) = E
  <2>1. byte % Pow2[ByteBits] = byte BY <1>6, DivSmall
  <2> QED BY <1>4, <1>7, <2>1 DEF Pushed
<1>12. Token(Z, src, t, u) BY <1>5, <1>10, <1>11 DEF Token, Literal
<1>13. Tokens(Append(T, u), Z, src) /\ Append(T, u)[Len(Append(T, u))] = u
  <2>1. u.at.c <= Len(Z) /\ u.from <= Len(src) /\ Len(src) \in Nat BY <1>1, <1>5, <1>9, <1>11
  <2>2. Y \in Seq(Byte) BY <1>1, StreamType
  <2> HIDE DEF u, Y, Z
  <2> QED BY <1>1, <1>9, <1>12, <2>1, <2>2, TokensAppend
<1>14. p = [e |-> p.e, o |-> p.o] /\ p.e \in Encoder /\ p.o \in Seq(Byte) /\ SameButBits(p.e, e)
  BY <1>7 DEF Pushed
<1>15. "search" \in EncoderStates BY DEF EncoderStates
<1> DEFINE g == s.e
<1>16. /\ s = [e |-> g, o |-> p.o] /\ g \in Encoder /\ g.state = "search"
       /\ g.buffer = e.buffer /\ g.input_size = e.input_size /\ g.match_scan_index = e.match_scan_index
       /\ g.finishing = e.finishing
       /\ g.current_byte = p.e.current_byte /\ g.bit_index = p.e.bit_index
  BY <1>14, <1>15, GoesIs DEF SameButBits
<1> HIDE DEF g, s
<1>17. s.o = p.o BY <1>16
<1>18. Stream(f, g, p.o) = Z /\ Tip(f, g, p.o) = Tip(f, p.e, p.o) BY <1>16, StreamSame
<1> DEFINE U == Append(T, u)
<1>19. AtToken(g, base, Tip(f, g, p.o), U[Len(U)])
  <2>1. U[Len(U)].at = E /\ U[Len(U)].from = t.from + 1 BY <1>13
  <2> HIDE DEF U
  <2> QED BY <1>2, <1>11, <1>16, <1>18, <2>1 DEF AtToken, Between, AtLiteral
<1> HIDE DEF U
<1>20. Progress(g, Stream(f, g, s.o), src, base, Tip(f, g, s.o), U[Len(U)]) BY <1>17, <1>18, <1>19 DEF Progress
<1>21. Advances(s, e, f, src, base)
  <2>1. s.o \in Seq(Byte) /\ s = [e |-> g, o |-> s.o] BY <1>14, <1>16, <1>17
  <2>2. Tokens(U, Stream(f, g, s.o), src) BY <1>13, <1>17, <1>18 DEF U
  <2>3. g.state # "done" /\ e.state # "done" /\ g.match_scan_index <= g.input_size BY <1>1, <1>16 DEF Buffered
  <2> QED BY <1>16, <1>20, <2>1, <2>2, <2>3, PushedStep
<1>22. YieldLiteral(e, o) = s BY DEF YieldLiteral, s, p, byte
<1> QED BY <1>21, <1>22

LEMMA PushOutgoingIs ==
    ASSUME NEW f \in Seq(Byte), NEW e \in Encoder, NEW o \in Seq(Byte), e.count # 0,
           e.count <= 2 * ByteBits, NEW s, s = PushOutgoing(e, o)
    PROVE  /\ e.count > ByteBits =>
                OutgoingOf(s, f, e, o, ByteBits, e.count - ByteBits, e.outgoing \div Pow2[e.count - ByteBits])
           /\ ~(e.count > ByteBits) => OutgoingOf(s, f, e, o, e.count, 0, e.outgoing)
<1>1. e.count \in 0 .. WindowBits /\ e.outgoing \in Nat /\ ByteBits \in Nat /\ ByteBits >= 1 /\ WindowBits \in Nat
  BY EncoderIs, BitsAre
<1>2. CASE e.count > ByteBits
  <2> DEFINE left == e.count - ByteBits
             v == e.outgoing \div Pow2[left]
             d == [e EXCEPT !.count = left]
  <2>1. left \in 0 .. WindowBits /\ left \in Nat BY <1>1, <1>2
  <2>2. v \in Nat
    <3>1. Pow2[left] \in Nat /\ Pow2[left] >= 1 BY <2>1, Pow2Type
    <3> HIDE DEF left
    <3> QED BY <1>1, <3>1, DivRest
  <2> HIDE DEF left, v
  <2>3. /\ d \in Encoder /\ d.buffer = e.buffer /\ d.input_size = e.input_size
        /\ d.match_scan_index = e.match_scan_index
        /\ d.state = e.state /\ d.finishing = e.finishing /\ d.match_pos = e.match_pos
        /\ d.match_length = e.match_length /\ d.outgoing = e.outgoing /\ d.count = left
        /\ d.current_byte = e.current_byte /\ d.bit_index = e.bit_index
    BY <2>1 DEF Encoder
  <2> HIDE DEF d
  <2>4. s = PushBits(d, o, ByteBits, v) BY <1>2 DEF PushOutgoing, d, v, left
  <2>5. Pushed(s, f, d, o, ByteBits, v) BY <1>1, <2>2, <2>3, <2>4, PushBitsIs
  <2>6. OutgoingOf(s, f, e, o, ByteBits, left, v) BY <2>3, <2>5 DEF OutgoingOf
  <2> QED BY <1>2, <2>6 DEF left, v
<1>3. CASE ~(e.count > ByteBits)
  <2> DEFINE d == [e EXCEPT !.count = 0]
  <2>1. 0 \in 0 .. WindowBits /\ e.count \in 1 .. ByteBits BY <1>1, <1>3
  <2>2. /\ d \in Encoder /\ d.buffer = e.buffer /\ d.input_size = e.input_size
        /\ d.match_scan_index = e.match_scan_index
        /\ d.state = e.state /\ d.finishing = e.finishing /\ d.match_pos = e.match_pos
        /\ d.match_length = e.match_length /\ d.outgoing = e.outgoing /\ d.count = 0
        /\ d.current_byte = e.current_byte /\ d.bit_index = e.bit_index
    BY <2>1 DEF Encoder
  <2> HIDE DEF d
  <2>3. s = PushBits(d, o, e.count, e.outgoing) BY <1>3 DEF PushOutgoing, d
  <2>4. Pushed(s, f, d, o, e.count, e.outgoing) BY <1>1, <2>1, <2>2, <2>3, PushBitsIs
  <2>5. OutgoingOf(s, f, e, o, e.count, 0, e.outgoing) BY <2>2, <2>4 DEF OutgoingOf
  <2> QED BY <1>3, <2>5
<1> QED BY <1>2, <1>3

LEMMA OutgoingKeeps ==
    ASSUME NEW f \in Seq(Byte), NEW e \in Encoder, NEW o \in Seq(Byte), NEW src,
           NEW n \in 1 .. ByteBits, NEW left, NEW v, NEW s, OutgoingOf(s, f, e, o, n, left, v),
           NEW T, Tokens(T, Stream(f, e, o), src), UpTo(T[Len(T)].at, Tip(f, e, o))
    PROVE  /\ s = [e |-> s.e, o |-> s.o] /\ s.e \in Encoder /\ s.o \in Seq(Byte)
           /\ s.e.buffer = e.buffer /\ s.e.input_size = e.input_size
           /\ s.e.match_scan_index = e.match_scan_index
           /\ s.e.state = e.state /\ s.e.finishing = e.finishing /\ s.e.match_pos = e.match_pos
           /\ s.e.match_length = e.match_length /\ s.e.outgoing = e.outgoing /\ s.e.count = left
           /\ Tokens(T, Stream(f, s.e, s.o), src)
           /\ Stream(f, s.e, s.o) \in Seq(Byte)
           /\ Tip(f, s.e, s.o) \in Pos /\ Tip(f, s.e, s.o).c <= Len(Stream(f, s.e, s.o))
           /\ Tip(f, s.e, s.o) = After(Tip(f, e, o), n)
           /\ Field(Stream(f, s.e, s.o), Tip(f, e, o), n) = v % Pow2[n]
<1>1. PICK d \in Encoder :
        /\ d.buffer = e.buffer /\ d.input_size = e.input_size /\ d.match_scan_index = e.match_scan_index
        /\ d.state = e.state /\ d.finishing = e.finishing /\ d.match_pos = e.match_pos
        /\ d.match_length = e.match_length /\ d.outgoing = e.outgoing /\ d.count = left
        /\ d.current_byte = e.current_byte /\ d.bit_index = e.bit_index
        /\ Pushed(s, f, d, o, n, v)
  BY DEF OutgoingOf
<1>2. Stream(f, d, o) = Stream(f, e, o) /\ Tip(f, d, o) = Tip(f, e, o) BY <1>1, StreamSame
<1>3. s = [e |-> s.e, o |-> s.o] /\ s.e \in Encoder /\ s.o \in Seq(Byte) /\ SameButBits(s.e, d)
  BY <1>1 DEF Pushed
<1>4. /\ s.e.buffer = e.buffer /\ s.e.input_size = e.input_size
      /\ s.e.match_scan_index = e.match_scan_index
      /\ s.e.state = e.state /\ s.e.finishing = e.finishing /\ s.e.match_pos = e.match_pos
      /\ s.e.match_length = e.match_length /\ s.e.outgoing = e.outgoing /\ s.e.count = left
  BY <1>1, <1>3 DEF SameButBits
<1>5. /\ Tokens(T, Stream(f, s.e, s.o), src) /\ Stream(f, s.e, s.o) \in Seq(Byte)
      /\ Tip(f, s.e, s.o) \in Pos /\ Tip(f, s.e, s.o).c <= Len(Stream(f, s.e, s.o))
  BY <1>1, <1>2, PushedKeeps
<1>6. /\ Tip(f, s.e, s.o) = After(Tip(f, e, o), n)
      /\ Field(Stream(f, s.e, s.o), Tip(f, e, o), n) = v % Pow2[n]
  BY <1>1, <1>2 DEF Pushed
<1> QED BY <1>3, <1>4, <1>5, <1>6

LEMMA OutgoingField ==
    ASSUME NEW f \in Seq(Byte), NEW e \in Encoder, NEW o \in Seq(Byte),
           NEW n \in 1 .. ByteBits, NEW left, NEW v, NEW s, OutgoingOf(s, f, e, o, n, left, v),
           NEW P \in Pos, NEW k \in Nat, k <= ByteBits, UpTo(After(P, k), Tip(f, e, o))
    PROVE  Field(Stream(f, s.e, s.o), P, k) = Field(Stream(f, e, o), P, k)
<1>1. PICK d \in Encoder :
        /\ d.current_byte = e.current_byte /\ d.bit_index = e.bit_index
        /\ Pushed(s, f, d, o, n, v)
  BY DEF OutgoingOf
<1>2. Stream(f, d, o) = Stream(f, e, o) /\ Tip(f, d, o) = Tip(f, e, o) BY <1>1, StreamSame
<1> QED BY <1>1, <1>2, PushedField

LEMMA OutgoingIndexed ==
    ASSUME NEW f \in Seq(Byte), NEW e \in Encoder, NEW o \in Seq(Byte),
           NEW n \in 1 .. ByteBits, NEW left, NEW v, NEW s, OutgoingOf(s, f, e, o, n, left, v),
           NEW P \in Pos, NEW x, UpTo(IndexEnd(P), Tip(f, e, o)), Indexed(Stream(f, e, o), P, x)
    PROVE  Indexed(Stream(f, s.e, s.o), P, x)
<1>1. PICK d \in Encoder :
        /\ d.current_byte = e.current_byte /\ d.bit_index = e.bit_index
        /\ Pushed(s, f, d, o, n, v)
  BY DEF OutgoingOf
<1>2. Stream(f, d, o) = Stream(f, e, o) /\ Tip(f, d, o) = Tip(f, e, o) BY <1>1, StreamSame
<1> QED BY <1>1, <1>2, PushedIndexed

LEMMA IndexStep ==
    ASSUME NEW e, NEW o, NEW f, NEW src, NEW base, NEW T, Coded(e, o, f, src, base, T),
           e.state = "yield_br_index"
    PROVE  Advances(YieldBrIndex(e, o), e, f, src, base)
<1> DEFINE t == T[Len(T)]
           tip == Tip(f, e, o)
           Y == Stream(f, e, o)
           A == After(t.at, 1)
           s == YieldBrIndex(e, o)
           Z == Stream(f, s.e, s.o)
           I == IndexEnd(A)
           x == e.outgoing
           h == WindowBits - ByteBits
<1>1. /\ e \in Encoder /\ o \in Seq(Byte) /\ f \in Seq(Byte) /\ src \in Seq(Byte) /\ Buffered(e, src, base)
      /\ Tokens(T, Y, src) /\ t.from \in Nat /\ t.at \in Pos /\ tip \in Pos /\ base \in Nat /\ t \in Mark
  BY CodedIs
<1>2. AtIndex(e, Y, src, base, tip, t)
  BY CodedIs DEF Progress, AtToken, Between, AtTag, AtLiteral, AtLength
<1>3. Referring(e, Y, src, base, t) /\ x = e.match_pos - 1 BY <1>2 DEF AtIndex
<1>4. /\ ByteBits \in Nat /\ 1 <= ByteBits /\ Window \in Nat /\ WindowBits \in Nat /\ WindowBits >= 1
      /\ WindowBits <= 2 * ByteBits
  BY BitsAre, BitsAssumption
<1>5. A \in Pos /\ UpTo(t.at, A) BY <1>1, TokenPlaces
<1>6. x \in Nat /\ x < Window
  <2>1. e.match_pos \in 1 .. Window BY <1>3 DEF Referring, Found, Repeats
  <2> QED BY <1>3, <1>4, <2>1
<1>7. e.match_scan_index <= e.input_size BY <1>1 DEF Buffered
\* What holds of s when bits have been pushed.
<1>8. ASSUME NEW n \in 1 .. ByteBits, NEW left, NEW v, OutgoingOf(s, f, e, o, n, left, v),
             UpTo(A, tip), UpTo(t.at, tip),
             Referring(s.e, Z, src, base, t) /\ s.e.state = "yield_br_index" /\ s.e.outgoing = s.e.match_pos - 1
                => AtIndex(s.e, Z, src, base, Tip(f, s.e, s.o), t)
      PROVE  Advances(s, e, f, src, base)
  <2> HIDE DEF s
  <2>1. /\ s = [e |-> s.e, o |-> s.o] /\ s.e \in Encoder /\ s.o \in Seq(Byte)
        /\ s.e.buffer = e.buffer /\ s.e.input_size = e.input_size
        /\ s.e.match_scan_index = e.match_scan_index
        /\ s.e.state = e.state /\ s.e.finishing = e.finishing /\ s.e.match_pos = e.match_pos
        /\ s.e.match_length = e.match_length /\ s.e.outgoing = e.outgoing /\ s.e.count = left
        /\ Tokens(T, Z, src)
    BY <1>1, <1>8, OutgoingKeeps
  <2>2. Field(Z, t.at, 1) = Field(Y, t.at, 1)
    <3>1. 1 \in Nat /\ 1 <= ByteBits BY <1>4
    <3>2. UpTo(After(t.at, 1), tip) BY <1>8
    <3> QED BY <1>1, <1>8, <3>1, <3>2, OutgoingField
  <2>3. Referring(s.e, Z, src, base, t) BY <1>3, <2>1, <2>2 DEF Referring, Found
  <2> HIDE DEF Z
  <2>4. AtIndex(s.e, Z, src, base, Tip(f, s.e, s.o), t) BY <1>3, <1>8, <2>1, <2>3
  <2>5. Progress(s.e, Z, src, base, Tip(f, s.e, s.o), t) BY <2>4 DEF Progress
  <2>6. e.state # "done" /\ s.e.state # "done" /\ s.e.match_scan_index <= s.e.input_size BY <1>7, <2>1
  <2> QED BY <2>1, <2>5, <2>6, PushedStep DEF Z
<1>9. CASE WindowBits > ByteBits /\ e.count = WindowBits /\ tip = A
  <2>1. s = PushOutgoing(e, o) /\ e.count # 0 /\ e.count > ByteBits /\ e.count <= 2 * ByteBits
    BY <1>4, <1>9 DEF YieldBrIndex
  <2>2. OutgoingOf(s, f, e, o, ByteBits, h, x \div Pow2[h])
    <3> HIDE DEF s
    <3>1. OutgoingOf(s, f, e, o, ByteBits, e.count - ByteBits, e.outgoing \div Pow2[e.count - ByteBits])
      BY <1>1, <2>1, PushOutgoingIs
    <3> QED BY <1>9, <3>1
  <2>3. UpTo(t.at, tip) /\ UpTo(A, tip) /\ ByteBits \in 1 .. ByteBits BY <1>4, <1>5, <1>9, UpToSelf
  <2> HIDE DEF s
  <2>4. /\ Tip(f, s.e, s.o) = After(A, ByteBits) /\ s.e.count = h /\ s.e.outgoing = x
        /\ Field(Z, A, ByteBits) = (x \div Pow2[h]) % Pow2[ByteBits]
    BY <1>1, <1>9, <2>2, <2>3, OutgoingKeeps
  <2> HIDE DEF Z
  <2>5. ASSUME Referring(s.e, Z, src, base, t) /\ s.e.state = "yield_br_index" /\ s.e.outgoing = s.e.match_pos - 1
        PROVE  AtIndex(s.e, Z, src, base, Tip(f, s.e, s.o), t)
    BY <1>9, <2>4, <2>5 DEF AtIndex
  <2> QED BY <1>8, <2>2, <2>3, <2>5 DEF Z, s
<1>10. CASE ~(WindowBits > ByteBits) /\ e.count = WindowBits /\ tip = A
  <2>1. s = PushOutgoing(e, o) /\ e.count # 0 /\ ~(e.count > ByteBits) /\ e.count <= 2 * ByteBits
    BY <1>4, <1>10 DEF YieldBrIndex
  <2>2. OutgoingOf(s, f, e, o, WindowBits, 0, x)
    <3> HIDE DEF s
    <3>1. OutgoingOf(s, f, e, o, e.count, 0, e.outgoing) BY <1>1, <2>1, PushOutgoingIs
    <3> QED BY <1>10, <3>1
  <2>3. UpTo(t.at, tip) /\ UpTo(A, tip) /\ WindowBits \in 1 .. ByteBits BY <1>4, <1>5, <1>10, UpToSelf
  <2> HIDE DEF s
  <2>4. /\ Tip(f, s.e, s.o) = After(A, WindowBits) /\ s.e.count = 0 /\ s.e.outgoing = x
        /\ Field(Z, A, WindowBits) = x % Pow2[WindowBits]
    BY <1>1, <1>10, <2>2, <2>3, OutgoingKeeps
  <2> HIDE DEF Z
  <2>5. Indexed(Z, A, x) /\ I = After(A, WindowBits) BY <1>10, <2>4, IndexWrittenAtOnce
  <2>6. ASSUME Referring(s.e, Z, src, base, t) /\ s.e.state = "yield_br_index" /\ s.e.outgoing = s.e.match_pos - 1
        PROVE  AtIndex(s.e, Z, src, base, Tip(f, s.e, s.o), t)
    BY <2>4, <2>5, <2>6 DEF AtIndex
  <2> QED BY <1>8, <2>2, <2>3, <2>6 DEF Z, s
<1>11. CASE /\ WindowBits > ByteBits /\ e.count = h /\ tip = After(A, ByteBits)
            /\ Field(Y, A, ByteBits) = (x \div Pow2[h]) % Pow2[ByteBits]
  <2>0. h \in 1 .. ByteBits BY <1>4, <1>11
  <2>1. s = PushOutgoing(e, o) /\ e.count # 0 /\ ~(e.count > ByteBits) /\ e.count <= 2 * ByteBits
    BY <1>4, <1>11, <2>0 DEF YieldBrIndex
  <2>2. OutgoingOf(s, f, e, o, h, 0, x)
    <3> HIDE DEF s
    <3>1. OutgoingOf(s, f, e, o, e.count, 0, e.outgoing) BY <1>1, <2>1, PushOutgoingIs
    <3> QED BY <1>11, <3>1
  <2>3. UpTo(t.at, tip) /\ UpTo(A, tip) /\ UpTo(After(A, ByteBits), tip)
    BY <1>1, <1>11, TokenPlaces, UpToSelf
  <2> HIDE DEF s, h
  <2>4. /\ Tip(f, s.e, s.o) = After(After(A, ByteBits), h) /\ s.e.count = 0 /\ s.e.outgoing = x
        /\ Field(Z, After(A, ByteBits), h) = x % Pow2[h] /\ Z \in Seq(Byte)
        /\ Tip(f, s.e, s.o).c <= Len(Z)
    BY <1>1, <1>11, <2>0, <2>2, <2>3, OutgoingKeeps
  <2>5. Field(Z, A, ByteBits) = (x \div Pow2[h]) % Pow2[ByteBits]
    <3>2. Field(Z, A, ByteBits) = Field(Y, A, ByteBits)
      BY <1>1, <1>4, <1>5, <2>0, <2>2, <2>3, OutgoingField
    <3> QED BY <1>11, <3>2
  <2> HIDE DEF Z
  <2>6. Indexed(Z, A, x) /\ I = After(After(A, ByteBits), h)
    <3>1. After(After(A, ByteBits), h).c <= Len(Z) BY <2>4
    <3> HIDE DEF A, x
    <3> QED BY <1>5, <1>6, <1>11, <2>4, <2>5, <3>1, IndexWritten DEF h
  <2>7. ASSUME Referring(s.e, Z, src, base, t) /\ s.e.state = "yield_br_index" /\ s.e.outgoing = s.e.match_pos - 1
        PROVE  AtIndex(s.e, Z, src, base, Tip(f, s.e, s.o), t)
    BY <2>4, <2>6, <2>7 DEF AtIndex
  <2> QED BY <1>8, <2>0, <2>2, <2>3, <2>7 DEF Z, s
<1>12. CASE e.count = 0 /\ tip = I /\ Indexed(Y, A, x)
  <2> DEFINE y == e.match_length - 1
             d == [e EXCEPT !.outgoing = y, !.count = LookaheadBits, !.state = "yield_br_length"]
  <2>1. s = Stays(d, o) BY <1>12 DEF YieldBrIndex
  <2>2. y \in Nat /\ LookaheadBits \in 0 .. WindowBits
    <3>1. e.match_length \in 1 .. Lookahead BY <1>3 DEF Referring, Found, Repeats
    <3> QED BY <3>1, BitsAre
  <2> HIDE DEF y
  <2>3. /\ d \in Encoder /\ d.buffer = e.buffer /\ d.input_size = e.input_size
        /\ d.match_scan_index = e.match_scan_index
        /\ d.state = "yield_br_length" /\ d.finishing = e.finishing /\ d.match_pos = e.match_pos
        /\ d.match_length = e.match_length /\ d.outgoing = y /\ d.count = LookaheadBits
        /\ d.current_byte = e.current_byte /\ d.bit_index = e.bit_index
    BY <1>1, <2>2 DEF Encoder, EncoderStates
  <2> HIDE DEF d, s
  <2>4. Referring(d, Y, src, base, t) BY <1>3, <2>3 DEF Referring, Found
  <2>5. AtLength(d, Y, src, base, tip, t) BY <1>3, <1>12, <2>3, <2>4 DEF AtLength, y
  <2>6. Buffered(d, src, base) BY <1>1, <2>3 DEF Buffered
  <2>7. Progress(d, Y, src, base, tip, t) BY <2>5 DEF Progress
  <2>8. e.state # "done" /\ d.state # "done" BY <2>3
  <2>9. /\ d.current_byte = e.current_byte /\ d.bit_index = e.bit_index /\ d.finishing = e.finishing
        /\ d.input_size = e.input_size /\ d \in Encoder
    BY <2>3
  <2>10. Tokens(T, Stream(f, e, o), src) /\ Progress(d, Stream(f, e, o), src, base, Tip(f, e, o), T[Len(T)])
    BY <1>1, <2>7
  <2>11. Advances(Stays(d, o), e, f, src, base)
    <3> HIDE DEF t, tip, Y, A, I, x, h
    <3> QED BY <2>6, <2>8, <2>9, <2>10, SilentStepWith
  <2> QED BY <2>1, <2>11 DEF s
<1> QED BY <1>2, <1>9, <1>10, <1>11, <1>12 DEF AtIndex

LEMMA LengthStep ==
    ASSUME NEW e, NEW o, NEW f, NEW src, NEW base, NEW T, Coded(e, o, f, src, base, T),
           e.state = "yield_br_length"
    PROVE  Advances(YieldBrLength(e, o), e, f, src, base)
<1> DEFINE t == T[Len(T)]
           tip == Tip(f, e, o)
           Y == Stream(f, e, o)
           A == After(t.at, 1)
           s == YieldBrLength(e, o)
           Z == Stream(f, s.e, s.o)
           I == IndexEnd(A)
           E == After(I, LookaheadBits)
           x == e.outgoing
           dist == e.match_pos
           len == e.match_length
<1>1. /\ e \in Encoder /\ o \in Seq(Byte) /\ f \in Seq(Byte) /\ src \in Seq(Byte) /\ Buffered(e, src, base)
      /\ Tokens(T, Y, src) /\ t.from \in Nat /\ t.at \in Pos /\ tip \in Pos /\ base \in Nat /\ t \in Mark
      /\ Y \in Seq(Byte) /\ tip.c <= Len(Y)
  BY CodedIs
<1>2. AtLength(e, Y, src, base, tip, t)
  BY CodedIs DEF Progress, AtToken, Between, AtTag, AtLiteral, AtIndex
<1>3. Referring(e, Y, src, base, t) /\ x = len - 1 /\ Indexed(Y, A, dist - 1) BY <1>2 DEF AtLength
<1>4. /\ ByteBits \in Nat /\ 1 <= ByteBits /\ Window \in Nat /\ Lookahead \in Nat
      /\ LookaheadBits \in Nat /\ LookaheadBits \in 1 .. ByteBits
  BY BitsAre
<1>5. A \in Pos /\ I \in Pos /\ E \in Pos /\ UpTo(t.at, A) /\ UpTo(A, I) /\ UpTo(t.at, I) /\ UpTo(A, E)
      /\ UpTo(t.at, E)
  BY <1>1, TokenPlaces
<1>6. len \in 1 .. Lookahead /\ dist \in 1 .. Window /\ Repeats(src, t.from, dist, len)
      /\ t.from = base + e.match_scan_index /\ e.match_scan_index + len <= e.input_size
  BY <1>3 DEF Referring, Found, Repeats
<1>7. e.match_scan_index <= e.input_size BY <1>1 DEF Buffered
<1>8. CASE e.count = LookaheadBits /\ tip = I
  <2>1. s = PushOutgoing(e, o) /\ e.count # 0 /\ ~(e.count > ByteBits) /\ e.count <= 2 * ByteBits
    BY <1>4, <1>8 DEF YieldBrLength
  <2>2. OutgoingOf(s, f, e, o, LookaheadBits, 0, x)
    <3> HIDE DEF s
    <3>1. OutgoingOf(s, f, e, o, e.count, 0, e.outgoing) BY <1>1, <2>1, PushOutgoingIs
    <3> QED BY <1>8, <3>1
  <2>3. UpTo(t.at, tip) /\ UpTo(A, tip) /\ UpTo(I, tip) BY <1>5, <1>8, UpToSelf
  <2> HIDE DEF s
  <2>4. /\ s = [e |-> s.e, o |-> s.o] /\ s.e \in Encoder /\ s.o \in Seq(Byte)
        /\ s.e.buffer = e.buffer /\ s.e.input_size = e.input_size
        /\ s.e.match_scan_index = e.match_scan_index
        /\ s.e.state = e.state /\ s.e.finishing = e.finishing /\ s.e.match_pos = e.match_pos
        /\ s.e.match_length = e.match_length /\ s.e.outgoing = e.outgoing /\ s.e.count = 0
        /\ Tokens(T, Z, src)
        /\ Tip(f, s.e, s.o) = After(tip, LookaheadBits)
        /\ Field(Z, tip, LookaheadBits) = x % Pow2[LookaheadBits]
    BY <1>1, <1>4, <2>2, <2>3, OutgoingKeeps
  <2>5. x % Pow2[LookaheadBits] = x
    <3>1. x \in Nat /\ x < Lookahead BY <1>3, <1>4, <1>6
    <3> HIDE DEF x
    <3> QED BY <1>4, <3>1, DivSmall DEF Lookahead
  <2>6. Field(Z, t.at, 1) = Field(Y, t.at, 1)
    <3>1. 1 \in Nat /\ UpTo(After(t.at, 1), tip) BY <2>3
    <3>2. Field(Stream(f, s.e, s.o), t.at, 1) = Field(Stream(f, e, o), t.at, 1)
      <4> HIDE DEF t, x
      <4> QED BY <1>1, <1>4, <2>2, <3>1, OutgoingField
    <3> QED BY <3>2
  <2>7. Indexed(Z, A, dist - 1)
    <3>1. UpTo(IndexEnd(A), tip) BY <2>3
    <3> QED BY <1>1, <1>3, <1>4, <1>5, <2>2, <3>1, OutgoingIndexed
  <2> HIDE DEF Z
  <2>8. Referring(s.e, Z, src, base, t) BY <1>3, <2>4, <2>6 DEF Referring, Found
  <2>9. AtLength(s.e, Z, src, base, Tip(f, s.e, s.o), t) BY <1>2, <1>8, <2>4, <2>5, <2>7, <2>8 DEF AtLength
  <2>10. Progress(s.e, Z, src, base, Tip(f, s.e, s.o), t) BY <2>9 DEF Progress
  <2>11. e.state # "done" /\ s.e.state # "done" /\ s.e.match_scan_index <= s.e.input_size BY <1>7, <2>4
  <2>12. Advances(s, e, f, src, base) BY <2>4, <2>10, <2>11, PushedStep DEF Z
  <2> QED BY <2>12 DEF s
<1>9. CASE e.count = 0 /\ tip = E /\ Field(Y, I, LookaheadBits) = x
  <2> DEFINE to == e.match_scan_index + len
             d == [e EXCEPT !.match_scan_index = to, !.match_length = 0, !.state = "search"]
             u == [at |-> E, from |-> t.from + len]
             U == Append(T, u)
  <2>1. s = Stays(d, o) BY <1>9 DEF YieldBrLength
  <2>2. /\ to \in Nat /\ to <= e.input_size /\ to \in 0 .. Window /\ 0 \in 0 .. Lookahead
        /\ e.input_size \in Nat /\ base + e.input_size <= Len(src) /\ Len(src) \in Nat
        /\ e.match_scan_index \in Nat
    <3> DEFINE msi == e.match_scan_index
               size == e.input_size
    <3>1. msi \in 0 .. Window /\ size \in 0 .. Window BY <1>1, EncoderIs
    <3>2. base + size <= Len(src) /\ Len(src) \in Nat BY <1>1 DEF Buffered
    <3>3. to = msi + len /\ msi + len <= size /\ len \in 1 .. Lookahead BY <1>6
    <3>4. Window \in Nat /\ Lookahead \in Nat BY <1>4
    <3> HIDE DEF msi, size, len, to
    <3>5. to \in Nat /\ to <= size /\ to \in 0 .. Window /\ 0 \in 0 .. Lookahead /\ size \in Nat /\ msi \in Nat
      BY <3>1, <3>3, <3>4
    <3> QED BY <3>2, <3>5 DEF msi, size
  <2>3. t.from + len = base + to /\ t.from + len <= Len(src)
    <3> DEFINE msi == e.match_scan_index
               n == t.from
    <3>1. n = base + msi /\ msi \in Nat /\ to = msi + len /\ base \in Nat /\ len \in Nat /\ to \in Nat
          /\ to <= e.input_size /\ base + e.input_size <= Len(src) /\ Len(src) \in Nat /\ e.input_size \in Nat
      BY <1>1, <1>4, <1>6, <2>2
    <3> HIDE DEF n, msi, len, to
    <3> QED BY <3>1 DEF n
  <2> HIDE DEF to
  <2>4. /\ d \in Encoder /\ d.buffer = e.buffer /\ d.input_size = e.input_size
        /\ d.match_scan_index = to
        /\ d.state = "search" /\ d.finishing = e.finishing
        /\ d.current_byte = e.current_byte /\ d.bit_index = e.bit_index
    BY <1>1, <2>2 DEF Encoder, EncoderStates
  <2> HIDE DEF d, s
  <2>5. Field(Y, t.at, 1) = 0 BY <1>3 DEF Referring
  <2>6. Refers(Y, src, t, u, dist, len) BY <1>3, <1>6, <1>9, <2>5 DEF Refers
  <2>7. Token(Y, src, t, u) BY <1>6, <2>6 DEF Token
  <2>8. Tokens(U, Y, src) /\ U[Len(U)] = u
    <3>1. Agree(Y, Y, t.at)
      <4>1. t.at.c <= Len(Y) BY <1>1 DEF Tokens
      <4> QED BY <4>1 DEF Agree
    <3>2. u.at.c <= Len(Y) /\ u.from <= Len(src) BY <1>1, <1>9, <2>3
    <3> HIDE DEF u
    <3> QED BY <1>1, <2>2, <2>7, <3>1, <3>2, TokensAppend
  <2>9. AtToken(d, base, tip, U[Len(U)])
    <3>1. U[Len(U)].at = E /\ U[Len(U)].from = base + to BY <2>3, <2>8
    <3> HIDE DEF U, E
    <3> QED BY <1>9, <2>4, <3>1 DEF AtToken, Between
  <2>10. Buffered(d, src, base) BY <1>1, <2>2, <2>4 DEF Buffered
  <2> HIDE DEF U
  <2>11. Tokens(U, Stream(f, e, o), src) /\ Progress(d, Stream(f, e, o), src, base, Tip(f, e, o), U[Len(U)])
    BY <2>8, <2>9 DEF Progress
  <2>12. e.state # "done" /\ d.state # "done" BY <2>4
  <2>13. Advances(Stays(d, o), e, f, src, base)
    <3> HIDE DEF t, tip, Y, A, I, E, x
    <3> QED BY <2>4, <2>10, <2>11, <2>12, SilentStepWith
  <2> QED BY <2>1, <2>13 DEF s
<1> QED BY <1>2, <1>8, <1>9 DEF AtLength

\* The bits that are left are written, and bits of 0 that fill their byte.
LEMMA FlushStep ==
    ASSUME NEW e, NEW o, NEW f, NEW src, NEW base, NEW T, Coded(e, o, f, src, base, T),
           e.state = "flush_bits"
    PROVE  Advances(FlushBits(e, o), e, f, src, base)
<1> DEFINE t == T[Len(T)]
           tip == Tip(f, e, o)
           Y == Stream(f, e, o)
           z == f \o o
           byte == e.current_byte
           k == e.bit_index
           d == [e EXCEPT !.state = "done"]
           more == (byte * Pow2[ByteBits - k]) % Pow2[ByteBits]
           p == IF k = 0 THEN o ELSE Append(o, more)
           Z == f \o p
<1>1. /\ e \in Encoder /\ o \in Seq(Byte) /\ f \in Seq(Byte) /\ src \in Seq(Byte) /\ Buffered(e, src, base)
      /\ Tokens(T, Y, src) /\ t.from \in Nat /\ t.at \in Pos /\ tip \in Pos /\ base \in Nat
      /\ Y \in Seq(Byte) /\ tip.c <= Len(Y)
  BY CodedIs
<1>2. tip = t.at /\ t.from = base + e.input_size
  BY CodedIs DEF Progress, AtToken, AtTag, AtLiteral, AtIndex, AtLength
<1>3. FlushBits(e, o) = [e |-> d, o |-> p] BY DEF FlushBits, Stays
<1>4. /\ d \in Encoder /\ d.buffer = e.buffer /\ d.input_size = e.input_size
      /\ d.match_scan_index = e.match_scan_index /\ d.state = "done" /\ d.finishing = e.finishing
  BY <1>1 DEF Encoder, EncoderStates
<1>5. ByteBits \in Nat /\ byte \in Nat /\ k \in 0 .. ByteBits - 1 /\ z \in Seq(Byte) /\ Len(z) \in Nat
  <2>1. byte \in Byte /\ k \in 0 .. ByteBits - 1 BY <1>1, EncoderIs
  <2> QED BY <1>1, <2>1, ByteIs
<1>6. Y = Flushed(z, byte, k) /\ tip = Ends(z, k) BY DEF Stream, Tip
<1>7. /\ Len(Y) = Len(z) + 1 /\ \A i \in 1 .. Len(z) : Y[i] = z[i]
      /\ Y[Len(z) + 1] = (byte % Pow2[k]) * Pow2[ByteBits - k]
  <2> HIDE DEF z, byte, k, Y
  <2> QED BY <1>5, <1>6, FlushedIs
<1> HIDE DEF d
<1>8. p \in Seq(Byte) /\ Complete(T, Z, src)
  <2>1. CASE k = 0
    <3>1. p = o /\ Z = z /\ tip = [c |-> Len(z), b |-> 0] BY <1>6, <2>1 DEF Ends
    <3> HIDE DEF z, Y, p, Z
    <3>2. At(Y, Len(z)) = At(z, Len(z))
      <4>1. CASE Len(z) = 0 BY <4>1 DEF At
      <4>2. CASE Len(z) # 0
        <5>1. Len(z) \in 1 .. Len(z) BY <1>5, <4>2
        <5> QED BY <1>7, <4>2, <5>1 DEF At
      <4> QED BY <4>1, <4>2
    <3>3. Agree(Y, z, t.at)
      <4>1. Len(z) <= Len(Y) /\ Len(z) <= Len(z) BY <1>5, <1>7
      <4>2. \A i \in 1 .. Len(z) - 1 : Y[i] = z[i] BY <1>5, <1>7
      <4>3. t.at.c = Len(z) /\ t.at.b = 0 BY <1>2, <3>1
      <4> QED BY <3>2, <4>1, <4>2, <4>3 DEF Agree
    <3>4. Tokens(T, z, src) BY <1>1, <1>5, <3>3, TokensAgree
    <3>5. At(z, Len(z)) % Pow2[0] = 0
      <4> DEFINE a == At(z, Len(z))
      <4>1. a \in Nat BY <1>5, AtType
      <4> HIDE DEF a
      <4>2. a % 1 = 0 BY <4>1
      <4> QED BY <4>2, Pow2Zero DEF a
    <3>6. Len(z) = t.at.c /\ t.at.b = 0 BY <1>2, <3>1
    <3> QED BY <1>1, <3>1, <3>4, <3>5, <3>6 DEF Complete
  <2>2. CASE k # 0
    <3>1. p = Append(o, more) /\ tip = [c |-> Len(z) + 1, b |-> ByteBits - k] BY <1>6, <2>2 DEF Ends
    <3>2. more \in Byte
      <4> DEFINE a == byte * Pow2[ByteBits - k]
      <4>1. Pow2[ByteBits - k] \in Nat /\ Pow2[ByteBits] \in Nat /\ Pow2[ByteBits] >= 1 BY <1>5, Pow2Type
      <4>2. a \in Nat
        <5> HIDE DEF byte
        <5> QED BY <1>5, <4>1
      <4> HIDE DEF a
      <4>3. a % Pow2[ByteBits] \in Nat /\ a % Pow2[ByteBits] < Pow2[ByteBits] BY <4>1, <4>2, DivRest
      <4> QED BY <4>3, ByteIs DEF a
    <3>3. Z = Y /\ p \in Seq(Byte)
      <4>1. Y = Append(z, more) BY <1>6 DEF Flushed
      <4> HIDE DEF more
      <4>2. f \o Append(o, more) = Append(f \o o, more) BY <1>1, <3>2
      <4> QED BY <1>1, <3>1, <3>2, <4>1, <4>2
    <3>4. Tokens(T, Z, src) /\ Len(Z) = t.at.c
      <4>1. Tokens(T, Z, src) BY <1>1, <3>3
      <4>2. t.at.c = Len(z) + 1 BY <1>2, <3>1
      <4> QED BY <1>7, <3>3, <4>1, <4>2
    <3>5. At(Z, Len(Z)) % Pow2[t.at.b] = 0
      <4>1. Len(Y) # 0 BY <1>5, <1>7
      <4>2. At(Z, Len(Z)) = (byte % Pow2[k]) * Pow2[ByteBits - k] BY <1>7, <3>3, <4>1 DEF At
      <4>3. t.at.b = ByteBits - k BY <1>2, <3>1
      <4> DEFINE a == Pow2[ByteBits - k]
                 q == byte % Pow2[k]
      <4>4. a \in Nat /\ a >= 1 /\ Pow2[k] \in Nat /\ Pow2[k] >= 1 BY <1>5, Pow2Type
      <4>5. q \in Nat
        <5> HIDE DEF byte, k
        <5> QED BY <1>5, <4>4, DivRest
      <4> HIDE DEF a, q
      <4>6. (q * a + 0) % a = 0
        <5>1. 0 \in Nat /\ 0 < a BY <4>4
        <5> QED BY <4>4, <4>5, <5>1, DivSum
      <4>7. q * a + 0 = q * a BY <4>4, <4>5
      <4> QED BY <4>2, <4>3, <4>6, <4>7 DEF a, q
    <3> QED BY <3>3, <3>4, <3>5 DEF Complete
  <2> QED BY <2>1, <2>2
<1> HIDE DEF p, Z
<1>9. Buffered(d, src, base) BY <1>1, <1>4 DEF Buffered
<1>10. Coded(d, p, f, src, base, T) BY <1>1, <1>2, <1>4, <1>8, <1>9 DEF Coded, Z
<1> DEFINE s == FlushBits(e, o)
<1>11. s.e = d /\ s.o = p BY <1>3
<1> HIDE DEF s
<1>12. Advances(s, e, f, src, base) BY <1>1, <1>4, <1>10, <1>11 DEF Advances
<1> QED BY <1>12 DEF s

LEMMA EncoderStepCodes ==
    ASSUME NEW e, NEW o, NEW f, NEW src, NEW base, NEW T, Coded(e, o, f, src, base, T)
    PROVE  Advances(EncoderStep(e, o), e, f, src, base)
<1>1. CASE EncoderStep(e, o) = Stays(e, o)
  <2>1. Stays(e, o).e = e /\ Stays(e, o).o = o BY DEF Stays
  <2>2. base \in Nat BY DEF Coded, Buffered
  <2> QED BY <1>1, <2>1, <2>2 DEF Advances
<1>2. CASE e.state = "filled" /\ EncoderStep(e, o) = Stays([e EXCEPT !.state = "search"], o)
  BY <1>2, FilledStep
<1>3. CASE e.state = "search" /\ EncoderStep(e, o) = Stays(StepSearch(e), o)
  BY <1>3, SearchStep
<1>4. CASE e.state = "save_backlog" /\ EncoderStep(e, o) = Stays(SaveBacklog(e), o)
  BY <1>4, SaveBacklogStep
<1>5. CASE e.state = "flush_bits" /\ EncoderStep(e, o) = FlushBits(e, o) BY <1>5, FlushStep
<1>6. CASE e.state = "yield_tag_bit" /\ EncoderStep(e, o) = YieldTagBit(e, o) BY <1>6, TagStep
<1>7. CASE e.state = "yield_literal" /\ EncoderStep(e, o) = YieldLiteral(e, o) BY <1>7, LiteralStep
<1>8. CASE e.state = "yield_br_index" /\ EncoderStep(e, o) = YieldBrIndex(e, o) BY <1>8, IndexStep
<1>9. CASE e.state = "yield_br_length" /\ EncoderStep(e, o) = YieldBrLength(e, o) BY <1>9, LengthStep
<1>10. \/ EncoderStep(e, o) = Stays(e, o)
       \/ e.state = "filled" /\ EncoderStep(e, o) = Stays([e EXCEPT !.state = "search"], o)
       \/ e.state = "search" /\ EncoderStep(e, o) = Stays(StepSearch(e), o)
       \/ e.state = "save_backlog" /\ EncoderStep(e, o) = Stays(SaveBacklog(e), o)
       \/ e.state = "flush_bits" /\ EncoderStep(e, o) = FlushBits(e, o)
       \/ e.state = "yield_tag_bit" /\ EncoderStep(e, o) = YieldTagBit(e, o)
       \/ e.state = "yield_literal" /\ EncoderStep(e, o) = YieldLiteral(e, o)
       \/ e.state = "yield_br_index" /\ EncoderStep(e, o) = YieldBrIndex(e, o)
       \/ e.state = "yield_br_length" /\ EncoderStep(e, o) = YieldBrLength(e, o)
  BY DEF EncoderStep
<1> QED BY <1>1, <1>2, <1>3, <1>4, <1>5, <1>6, <1>7, <1>8, <1>9, <1>10

-----------------------------------------------------------------------------
(* compressStep() around the encoder.                                      *)

LEMMA NotFullIs ==
    ASSUME NEW e, NEW o, NEW f, NEW src, NEW base, NEW T, Coded(e, o, f, src, base, T),
           e.state = "not_full"
    PROVE  AtToken(e, base, Tip(f, e, o), T[Len(T)])
BY CodedIs DEF Progress, AtTag, AtLiteral, AtIndex, AtLength

\* The source is read on.
LEMMA GrownCoded ==
    ASSUME NEW e, NEW o, NEW f, NEW src, NEW base, NEW T, Coded(e, o, f, src, base, T),
           e.state = "not_full", NEW more \in Seq(Byte)
    PROVE  Coded(e, o, f, src \o more, base, T)
<1> DEFINE grown == src \o more
<1>1. /\ e \in Encoder /\ o \in Seq(Byte) /\ f \in Seq(Byte) /\ src \in Seq(Byte)
      /\ Buffered(e, src, base) /\ base \in Nat /\ Tokens(T, Stream(f, e, o), src)
  BY CodedIs
<1>2. Tokens(T, Stream(f, e, o), grown) BY <1>1, TokensGrow
<1>3. AtToken(e, base, Tip(f, e, o), T[Len(T)]) BY NotFullIs
<1>4. Progress(e, Stream(f, e, o), grown, base, Tip(f, e, o), T[Len(T)]) BY <1>3 DEF Progress
<1>5. grown \in Seq(Byte) /\ Len(grown) >= Len(src) /\ Len(src) \in Nat /\ Len(grown) \in Nat
      /\ \A i \in 1 .. Len(src) : grown[i] = src[i]
  BY <1>1
<1> HIDE DEF grown
<1>6. e.input_size \in Nat /\ e.input_size <= Window /\ Window \in Nat /\ base + e.input_size <= Len(src)
  BY <1>1, EncoderIs, BitsAre DEF Buffered
<1>7. ASSUME NEW i \in 0 .. Window + e.input_size - 1
      PROVE  e.buffer[i] = Nth(grown, (base - Window) + i + 1)
  <2> DEFINE j == (base - Window) + i + 1
  <2>1. j \in Int /\ j <= Len(src) BY <1>1, <1>5, <1>6
  <2>2. e.buffer[i] = Nth(src, j) BY <1>1 DEF Buffered
  <2> HIDE DEF j
  <2>3. Nth(src, j) = Nth(grown, j) BY <1>5, <2>1 DEF Nth
  <2> QED BY <2>2, <2>3 DEF j
<1>8. base + e.input_size <= Len(grown) BY <1>1, <1>5, <1>6
<1>9. Buffered(e, grown, base) BY <1>1, <1>7, <1>8 DEF Buffered
<1> QED BY <1>1, <1>2, <1>4, <1>5, <1>9 DEF Coded, grown

LEMMA SunkPlaces ==
    ASSUME NEW w \in Nat, NEW base \in Nat, NEW size \in Nat, NEW n \in Nat, NEW len \in Nat, NEW all \in Nat,
           all = (base + size) + len, n <= len, n <= w - size, size <= w
    PROVE  SunkAt(w, base, size, n, len, all)
BY DEF SunkAt

LEMMA SunkCoded ==
    ASSUME NEW e, NEW o, NEW f, NEW src, NEW base, NEW T, Coded(e, o, f, src, base, T),
           e.state = "not_full", NEW left, Left(left, src, base + e.input_size),
           NEW s, s = Sink(e, left)
    PROVE  /\ Coded(s.e, o, f, src, base, T) /\ s.e.finishing = e.finishing
           /\ Left(SubSeq(left, s.sunk + 1, Len(left)), src, base + s.e.input_size)
<1> DEFINE room == Window - e.input_size
           n == IF room < Len(left) THEN room ELSE Len(left)
           at == Window + e.input_size
           size == e.input_size + n
           buf == [i \in DOMAIN e.buffer |-> IF i \in at .. at + n - 1 THEN left[i - at + 1] ELSE e.buffer[i]]
           state == IF n = room THEN "filled" ELSE e.state
           d == [e EXCEPT !.buffer = buf, !.input_size = size, !.state = state]
           t == T[Len(T)]
           tip == Tip(f, e, o)
           Y == Stream(f, e, o)
<1>1. /\ e \in Encoder /\ o \in Seq(Byte) /\ f \in Seq(Byte) /\ src \in Seq(Byte)
      /\ Buffered(e, src, base) /\ base \in Nat /\ Tokens(T, Y, src)
  BY CodedIs
<1>2. AtToken(e, base, tip, t) BY NotFullIs
<1>3. /\ e.input_size \in Nat /\ e.input_size <= Window /\ Window \in Nat /\ base + e.input_size <= Len(src)
      /\ e.buffer \in [0 .. 2 * Window - 1 -> Byte] /\ e.match_scan_index \in Nat
      /\ e.match_scan_index <= e.input_size /\ Len(src) \in Nat
  BY <1>1, EncoderIs, BitsAre DEF Buffered
<1>4. left \in Seq(Byte) /\ Len(left) \in Nat /\ Len(src) = (base + e.input_size) + Len(left)
      /\ \A i \in 1 .. Len(left) : left[i] = src[(base + e.input_size) + i] /\ left[i] \in Byte
  BY DEF Left
<1>5. n \in Nat /\ n <= Len(left) /\ n <= room /\ size \in 0 .. Window /\ size \in Nat
      /\ at = Window + e.input_size /\ at \in Nat /\ size = e.input_size + n /\ at + n <= 2 * Window
  BY <1>3, <1>4
<1> DEFINE is == e.input_size
<1>18. /\ is \in Nat /\ is <= Window /\ n <= Window - is /\ Len(src) = (base + is) + Len(left)
       /\ size = is + n /\ at = Window + is /\ n \in Nat /\ n <= Len(left)
  BY <1>3, <1>4, <1>5
<1>6. s = [e |-> d, sunk |-> n]
  BY <1>1 DEF Sink, Encoder
<1> HIDE DEF n, size, at, is
<1>19. SunkAt(Window, base, is, n, Len(left), Len(src))
  BY <1>1, <1>3, <1>4, <1>18, SunkPlaces
<1>7. buf \in [0 .. 2 * Window - 1 -> Byte]
  <2>1. ASSUME NEW i \in 0 .. 2 * Window - 1
        PROVE  (IF i \in at .. at + n - 1 THEN left[i - at + 1] ELSE e.buffer[i]) \in Byte
    <3>1. CASE i \in at .. at + n - 1
      <4>1. i - at + 1 \in 1 .. Len(left) BY <1>4, <1>5, <3>1
      <4> QED BY <1>4, <3>1, <4>1
    <3>2. CASE i \notin at .. at + n - 1 BY <1>3, <3>2
    <3> QED BY <3>1, <3>2
  <2> QED BY <1>3, <2>1
<1>8. state \in EncoderStates /\ state \in {"filled", "not_full"} BY DEF EncoderStates
<1> HIDE DEF buf, state
<1>9. /\ d \in Encoder /\ d.buffer = buf /\ d.input_size = size /\ d.state = state
      /\ d.match_scan_index = e.match_scan_index /\ d.finishing = e.finishing
      /\ d.current_byte = e.current_byte /\ d.bit_index = e.bit_index
  BY <1>1, <1>5, <1>7, <1>8 DEF Encoder
<1> HIDE DEF d
<1>10. ASSUME NEW i \in 0 .. Window + size - 1
       PROVE  buf[i] = Nth(src, (base - Window) + i + 1)
  <2>1. i \in 0 .. 2 * Window - 1 /\ i \in Nat BY <1>3, <1>5
  <2>2. buf[i] = IF i \in at .. at + n - 1 THEN left[i - at + 1] ELSE e.buffer[i] BY <1>3, <2>1 DEF buf
  <2>3. CASE i \in at .. at + n - 1
    <3> DEFINE j == i - at + 1
               k == (base + is) + j
    <3>1. j \in 1 .. Len(left) /\ k \in 1 .. Len(src) /\ (base - Window) + i + 1 = k
      BY <1>18, <1>19, <2>3 DEF SunkAt
    <3>2. left[j] = src[k] BY <1>4, <3>1 DEF is
    <3> HIDE DEF k
    <3>3. Nth(src, k) = src[k] BY <3>1 DEF Nth
    <3> QED BY <2>2, <2>3, <3>1, <3>2, <3>3
  <2>4. CASE i \notin at .. at + n - 1
    <3>1. i \in 0 .. Window + is - 1 BY <1>18, <1>19, <2>4 DEF SunkAt
    <3> QED BY <1>1, <2>2, <2>4, <3>1 DEF Buffered, is
  <2> QED BY <2>3, <2>4
<1>11. base + size <= Len(src) /\ e.match_scan_index <= size
  <2>1. base + size <= Len(src) BY <1>18, <1>19 DEF SunkAt
  <2>2. e.match_scan_index <= is /\ e.match_scan_index \in Nat BY <1>3 DEF is
  <2> QED BY <1>18, <2>1, <2>2
<1>12. Buffered(d, src, base) BY <1>1, <1>9, <1>10, <1>11 DEF Buffered
<1>13. Stream(f, d, o) = Y /\ Tip(f, d, o) = tip BY <1>9, StreamSame
<1>14. AtToken(d, base, tip, t) BY <1>2, <1>8, <1>9 DEF AtToken, Between
<1>15. Coded(d, o, f, src, base, T)
  <2>1. Progress(d, Y, src, base, tip, t) /\ d.state # "done" BY <1>8, <1>9, <1>14 DEF Progress
  <2> QED BY <1>1, <1>9, <1>12, <1>13, <2>1 DEF Coded
<1> DEFINE rest == SubSeq(left, n + 1, Len(left))
<1>16. Left(rest, src, base + size)
  <2>1. n + 1 \in 1 .. Len(left) + 1 BY <1>4, <1>5
  <2>2. rest \in Seq(Byte) /\ Len(rest) = Len(left) - n
        /\ \A i \in 1 .. Len(left) - n : rest[i] = left[n + i]
    BY <1>4, <1>5
  <2> HIDE DEF rest
  <2>3. Len(src) = (base + size) + Len(rest) BY <1>18, <1>19, <2>2 DEF SunkAt
  <2>4. ASSUME NEW i \in 1 .. Len(rest) PROVE rest[i] = src[(base + size) + i]
    <3>1. n + i \in 1 .. Len(left) /\ i \in 1 .. Len(left) - n BY <1>4, <1>5, <2>2
    <3>2. rest[i] = left[n + i] /\ left[n + i] = src[(base + is) + (n + i)]
      BY <1>4, <2>2, <3>1 DEF is
    <3>3. (base + is) + (n + i) = (base + size) + i BY <1>18, <1>19, <3>1 DEF SunkAt
    <3> QED BY <3>2, <3>3
  <2> QED BY <2>2, <2>3, <2>4 DEF Left
<1>17. s.e = d /\ s.sunk = n BY <1>6
<1> QED BY <1>9, <1>15, <1>16, <1>17

LEMMA FinishedIs ==
    ASSUME NEW e \in Encoder
    PROVE  LET d == [e EXCEPT !.finishing = TRUE, !.state = IF @ = "not_full" THEN "filled" ELSE @]
           IN  d \in Encoder /\ FinishOf(d, e)
<1> DEFINE state == IF e.state = "not_full" THEN "filled" ELSE e.state
           d == [e EXCEPT !.finishing = TRUE, !.state = state]
<1>1. state \in EncoderStates BY DEF Encoder, EncoderStates
<1>2. [e EXCEPT !.finishing = TRUE, !.state = IF @ = "not_full" THEN "filled" ELSE @] = d
  BY DEF Encoder
<1> HIDE DEF state
<1>3. d \in Encoder /\ d.state = state
  BY <1>1 DEF Encoder
<1>4. /\ d.buffer = e.buffer /\ d.input_size = e.input_size /\ d.match_scan_index = e.match_scan_index
      /\ d.match_pos = e.match_pos /\ d.match_length = e.match_length /\ d.outgoing = e.outgoing
      /\ d.count = e.count /\ d.current_byte = e.current_byte /\ d.bit_index = e.bit_index
  BY <1>1 DEF Encoder
<1> HIDE DEF d
<1>5. d \in Encoder /\ FinishOf(d, e) BY <1>3, <1>4 DEF FinishOf, state
<1> QED BY <1>2, <1>5

LEMMA FinishedCoded ==
    ASSUME NEW e, NEW o, NEW f, NEW src, NEW base, NEW T, Coded(e, o, f, src, base, T),
           NEW d \in Encoder, FinishOf(d, e)
    PROVE  Coded(d, o, f, src, base, T) /\ d.input_size = e.input_size
<1>1. e \in Encoder /\ Buffered(e, src, base) BY DEF Coded
<1> DEFINE state == IF e.state = "not_full" THEN "filled" ELSE e.state
<1>4. state = e.state \/ (e.state = "not_full" /\ state = "filled") OBVIOUS
<1>5. /\ d \in Encoder /\ d.buffer = e.buffer /\ d.input_size = e.input_size /\ d.state = state
      /\ d.match_scan_index = e.match_scan_index /\ d.match_pos = e.match_pos
      /\ d.match_length = e.match_length /\ d.outgoing = e.outgoing /\ d.count = e.count
      /\ d.current_byte = e.current_byte /\ d.bit_index = e.bit_index
  BY DEF FinishOf
<1> HIDE DEF state
<1>6. Buffered(d, src, base) BY <1>1, <1>5 DEF Buffered
<1>11. d.current_byte = e.current_byte /\ d.bit_index = e.bit_index BY <1>5
<1>7. Stream(f, d, o) = Stream(f, e, o) /\ Tip(f, d, o) = Tip(f, e, o) BY <1>11 DEF Stream, Tip
<1>8. CASE e.state = "not_full"
  <2>1. AtToken(e, base, Tip(f, e, o), T[Len(T)]) BY <1>8, NotFullIs
  <2>2. state = "filled" BY <1>8 DEF state
  <2>3. AtToken(d, base, Tip(f, e, o), T[Len(T)]) BY <1>5, <2>1, <2>2 DEF AtToken, Between
  <2>4. Progress(d, Stream(f, d, o), src, base, Tip(f, d, o), T[Len(T)]) BY <1>7, <2>3 DEF Progress
  <2> QED BY <1>5, <1>6, <1>7, <1>8, <2>2, <2>4 DEF Coded
<1>9. CASE e.state = "done" BY <1>4, <1>5, <1>6, <1>9 DEF Coded
<1>10. CASE e.state # "not_full" /\ e.state # "done"
  <2>1. d.state = e.state BY <1>4, <1>5, <1>10
  <2>2. Found(e, src, base) => Found(d, src, base) BY <1>5 DEF Found
  <2> DEFINE Y == Stream(f, e, o)
             tip == Tip(f, e, o)
             t == T[Len(T)]
  <2>3. Referring(e, Y, src, base, t) => Referring(d, Y, src, base, t) BY <1>5, <2>2 DEF Referring
  <2>4. Progress(e, Y, src, base, tip, t) BY <1>10, CodedIs
  <2> HIDE DEF Y, tip, t
  <2>5. CASE AtToken(e, base, tip, t)
    <3>1. AtToken(d, base, tip, t) BY <1>5, <2>1, <2>5 DEF AtToken
    <3> QED BY <1>5, <1>6, <1>7, <1>10, <2>1, <3>1 DEF Coded, Progress, Y, tip, t
  <2>6. CASE AtTag(e, src, base, tip, t)
    <3>1. AtTag(d, src, base, tip, t) BY <1>5, <2>1, <2>2, <2>6 DEF AtTag
    <3> QED BY <1>5, <1>6, <1>7, <1>10, <2>1, <3>1 DEF Coded, Progress, Y, tip, t
  <2>7. CASE AtLiteral(e, Y, base, tip, t)
    <3>1. AtLiteral(d, Y, base, tip, t) BY <1>5, <2>1, <2>7 DEF AtLiteral
    <3> QED BY <1>5, <1>6, <1>7, <1>10, <2>1, <3>1 DEF Coded, Progress, Y, tip, t
  <2>8. CASE AtIndex(e, Y, src, base, tip, t)
    <3>1. AtIndex(d, Y, src, base, tip, t) BY <1>5, <2>1, <2>3, <2>8 DEF AtIndex
    <3> QED BY <1>5, <1>6, <1>7, <1>10, <2>1, <3>1 DEF Coded, Progress, Y, tip, t
  <2>9. CASE AtLength(e, Y, src, base, tip, t)
    <3>1. AtLength(d, Y, src, base, tip, t) BY <1>5, <2>1, <2>3, <2>9 DEF AtLength
    <3> QED BY <1>5, <1>6, <1>7, <1>10, <2>1, <3>1 DEF Coded, Progress, Y, tip, t
  <2> QED BY <2>4, <2>5, <2>6, <2>7, <2>8, <2>9 DEF Progress
<1> QED BY <1>8, <1>9, <1>10

LEMMA PolledCoded ==
    ASSUME NEW e, NEW o, NEW f, NEW src, NEW base, NEW T, Coded(e, o, f, src, base, T)
    PROVE  Coded(e, <<>>, f \o o, src, base, T)
<1>1. o \in Seq(Byte) /\ f \in Seq(Byte) /\ f \o o \in Seq(Byte) BY DEF Coded
<1>2. (f \o o) \o <<>> = f \o o BY <1>1
<1>3. Stream(f \o o, e, <<>>) = Stream(f, e, o) /\ Tip(f \o o, e, <<>>) = Tip(f, e, o)
  BY <1>2 DEF Stream, Tip
<1> QED BY <1>1, <1>2, <1>3 DEF Coded

-----------------------------------------------------------------------------
(* The decoder: it reads the tokens of the stream Y.                       *)

LEMMA DrawsIs ==
    ASSUME NEW Y \in Seq(Byte), NEW d, NEW c, Draws(d, Y, c)
    PROVE  /\ d \in DecoderRecord /\ c \in Nat /\ Cursor(d, c) \in Pos
           /\ Cursor(d, c).c = c /\ Cursor(d, c).b = d.bit_index
           /\ d.input \in Seq(Byte) /\ Len(d.input) \in Nat /\ c + Len(d.input) <= Len(Y)
           /\ d.input_index \in Nat /\ d.state \in DecoderStates /\ d.bit_index \in 0 .. ByteBits - 1
           /\ d.current_byte = At(Y, c) /\ d.current_byte \in Nat
           /\ d.output_count \in Nat /\ d.output_index \in Nat /\ d.head_index \in 0 .. Window - 1
           /\ d.window \in [0 .. Window - 1 -> Byte]
<1>1. d \in DecoderRecord /\ c \in Nat /\ c + Len(d.input) <= Len(Y) /\ d.current_byte = At(Y, c)
  BY DEF Draws
<1>2. /\ d.input \in Seq(Byte) /\ d.input_index \in Nat /\ d.state \in DecoderStates
      /\ d.bit_index \in 0 .. ByteBits - 1 /\ d.current_byte \in Byte
      /\ d.output_count \in Nat /\ d.output_index \in Nat /\ d.head_index \in 0 .. Window - 1
      /\ d.window \in [0 .. Window - 1 -> Byte]
  BY <1>1 DEF DecoderRecord
<1>3. Len(d.input) \in Nat BY <1>2
<1>4. Cursor(d, c) \in Pos /\ Cursor(d, c).c = c /\ Cursor(d, c).b = d.bit_index
  BY <1>1, <1>2 DEF Cursor, Pos
<1>5. d.current_byte \in Nat BY <1>2, ByteIs
<1> QED BY <1>1, <1>2, <1>3, <1>4, <1>5

LEMMA GetBitsIs ==
    ASSUME NEW Y \in Seq(Byte), NEW d, NEW c, Draws(d, Y, c), NEW count \in 1 .. ByteBits,
           NEW g, g = GetBits(d, count)
    PROVE  \/ g.bits = NoBits /\ Lacks(d, count)
           \/ g.bits # NoBits /\ \E e \in Nat : Took(g, d, Y, c, count, e)
<1> DEFINE P == Cursor(d, c)
           b == d.bit_index
           byte == d.current_byte
           left == d.input
<1>1. /\ d \in DecoderRecord /\ c \in Nat /\ P \in Pos /\ P.c = c /\ P.b = b
      /\ left \in Seq(Byte) /\ Len(left) \in Nat /\ c + Len(left) <= Len(Y)
      /\ d.input_index \in Nat /\ b \in 0 .. ByteBits - 1 /\ byte = At(Y, c) /\ byte \in Nat
  BY DrawsIs
<1>2. \A i \in 1 .. Len(left) : left[i] = Y[c + i] BY DEF Draws
<1>3. ByteBits \in Nat \ {0} /\ count \in Nat /\ count <= ByteBits BY ByteIs
<1> DEFINE h == IF count < d.bit_index THEN count ELSE d.bit_index
           l == count - h
           first == (d.current_byte \div Pow2[d.bit_index - h]) % Pow2[h]
<1>7. GetBits(d, count) =
        IF l = 0 THEN [d |-> [d EXCEPT !.bit_index = @ - h], bits |-> first]
        ELSE IF d.input = <<>> THEN [d |-> d, bits |-> NoBits]
        ELSE [d |-> [d EXCEPT !.input = Tail(@), !.input_index = IF Len(d.input) = 1 THEN 0 ELSE @ + 1,
                              !.current_byte = Head(d.input), !.bit_index = ByteBits - l],
              bits |-> first * Pow2[l] + (Head(d.input) \div Pow2[ByteBits - l])]
  BY Zenon DEF GetBits
<1>8. h = IF count <= b THEN count ELSE b BY <1>1, <1>3
<1>9. l = count - h /\ first = (byte \div Pow2[b - h]) % Pow2[h] OBVIOUS
<1> HIDE DEF h, l, first
<1>4. CASE count <= b
  <2> DEFINE bits == (byte \div Pow2[b - count]) % Pow2[count]
             rest == b - count
             e == [d EXCEPT !.bit_index = rest]
  <2>1. count - count = 0 /\ rest \in 0 .. ByteBits - 1 BY <1>1, <1>3, <1>4
  <2>2. GetBits(d, count) = [d |-> [d EXCEPT !.bit_index = @ - count], bits |-> bits]
    <3>1. h = count /\ l = 0 BY <1>4, <1>8, <1>9, <2>1
    <3> HIDE DEF bits
    <3>2. first = bits BY <1>9, <3>1 DEF bits
    <3> QED BY <1>7, <3>1, <3>2
  <2>3. [d EXCEPT !.bit_index = @ - count] = e BY <1>1 DEF DecoderRecord
  <2>4. g.d = e /\ g.bits = bits BY <2>2, <2>3
  <2> HIDE DEF rest, bits
  <2>5. /\ e \in DecoderRecord /\ e.bit_index = rest /\ e.input = left /\ e.current_byte = byte
        /\ e.input_index = d.input_index /\ SameButInput(e, d)
    BY <1>1, <2>1 DEF DecoderRecord, SameButInput
  <2> HIDE DEF e
  <2>6. Draws(e, Y, c) BY <1>1, <1>2, <2>5 DEF Draws
  <2>7. bits = Field(Y, P, count) BY <1>1, <1>4 DEF Field, bits
  <2>8. After(P, count) = Cursor(e, c) BY <1>1, <1>4, <2>5 DEF After, Cursor, rest
  <2>9. bits \in Nat
    <3>1. After(P, count).c = c BY <1>1, <1>3, <1>4, AfterType
    <3>2. c <= Len(Y) BY <1>1
    <3> QED BY <1>1, <1>3, <2>7, <3>1, <3>2, FieldBound
  <2>10. e.input_index + Len(e.input) <= d.input_index + Len(d.input) BY <1>1, <2>5
  <2>11. bits # NoBits BY <2>9 DEF NoBits
  <2>12. c + Len(e.input) = c + Len(d.input) BY <2>5
  <2> QED BY <1>1, <2>4, <2>5, <2>6, <2>7, <2>8, <2>9, <2>10, <2>11, <2>12 DEF Took
<1>5. CASE ~(count <= b) /\ left = <<>>
  <2>1. count - b # 0 /\ b < count BY <1>1, <1>3, <1>5
  <2>2. GetBits(d, count) = [d |-> d, bits |-> NoBits]
    <3>1. h = b BY <1>5, <1>8
    <3>2. l # 0 BY <1>9, <2>1, <3>1
    <3> QED BY <1>5, <1>7, <3>2
  <2> QED BY <1>5, <2>1, <2>2 DEF Lacks
<1>6. CASE ~(count <= b) /\ left # <<>>
  <2> DEFINE low == count - b
             next == Head(left)
             index == IF Len(left) = 1 THEN 0 ELSE d.input_index + 1
             rest == ByteBits - low
             bits == ((byte \div Pow2[b - b]) % Pow2[b]) * Pow2[low] + (next \div Pow2[ByteBits - low])
             tail == Tail(left)
             e == [d EXCEPT !.input = tail, !.input_index = index, !.current_byte = next, !.bit_index = rest]
  <2>1. low # 0 /\ low \in Nat /\ rest \in 0 .. ByteBits - 1 BY <1>1, <1>3, <1>6
  <2>2. GetBits(d, count) = [d |-> [d EXCEPT !.input = Tail(@), !.input_index = IF Len(left) = 1 THEN 0 ELSE @ + 1,
                                             !.current_byte = next, !.bit_index = ByteBits - low],
                             bits |-> bits]
    <3>1. h = b BY <1>6, <1>8
    <3>2. l = low /\ l # 0 BY <1>9, <2>1, <3>1
    <3>3. first = (byte \div Pow2[b - b]) % Pow2[b] BY <1>9, <3>1
    <3> HIDE DEF low
    <3> QED BY <1>6, <1>7, <3>2, <3>3
  <2>3. [d EXCEPT !.input = Tail(@), !.input_index = IF Len(left) = 1 THEN 0 ELSE @ + 1,
                  !.current_byte = next, !.bit_index = ByteBits - low] = e
    BY <1>1 DEF DecoderRecord
  <2>4. g.d = e /\ g.bits = bits BY <2>2, <2>3
  <2>5. /\ Len(left) >= 1 /\ next = Y[c + 1] /\ next \in Byte /\ tail \in Seq(Byte)
        /\ Len(tail) = Len(left) - 1 /\ \A i \in 1 .. Len(tail) : tail[i] = left[i + 1]
    <3>1. Len(left) >= 1 /\ next = left[1] /\ tail \in Seq(Byte) /\ Len(tail) = Len(left) - 1
          /\ \A i \in 1 .. Len(tail) : tail[i] = left[i + 1]
      BY <1>1, <1>6
    <3>2. 1 \in 1 .. Len(left) /\ left[1] \in Byte BY <1>1, <3>1
    <3> QED BY <1>2, <3>1, <3>2
  <2>6. index \in Nat /\ index + (Len(left) - 1) <= d.input_index + Len(left) BY <1>1, <2>5
  <2> HIDE DEF rest, bits, low, next, index, tail
  <2>7. /\ e \in DecoderRecord /\ e.bit_index = rest /\ e.input = tail /\ e.current_byte = next
        /\ e.input_index = index /\ SameButInput(e, d)
    BY <1>1, <2>1, <2>5, <2>6 DEF DecoderRecord, SameButInput
  <2> HIDE DEF e
  <2>8. c + 1 \in Nat /\ c + 1 # 0 /\ c + 1 <= Len(Y) /\ (c + 1) + Len(tail) = c + Len(left)
        /\ (c + 1) + Len(tail) <= Len(Y)
    <3>1. Len(Y) \in Nat /\ c \in Nat /\ Len(left) \in Nat /\ c + Len(left) <= Len(Y) BY <1>1
    <3>2. Len(left) >= 1 /\ Len(tail) = Len(left) - 1 BY <2>5
    <3> HIDE DEF left
    <3> QED BY <3>1, <3>2
  <2>9. At(Y, c + 1) = next BY <2>5, <2>8 DEF At
  <2>10. ASSUME NEW i \in 1 .. Len(tail) PROVE tail[i] = Y[(c + 1) + i]
    <3>1. i + 1 \in 1 .. Len(left) /\ c + (i + 1) = (c + 1) + i BY <1>1, <2>5
    <3> QED BY <1>2, <2>5, <3>1
  <2>11. Draws(e, Y, c + 1) BY <2>7, <2>8, <2>9, <2>10 DEF Draws
  <2>12. bits = Field(Y, P, count)
    <3>1. b - b = 0 BY <1>1
    <3>2. byte \div Pow2[b - b] = byte
      <4>1. Pow2[b - b] = 1 BY <3>1, Pow2Zero
      <4>2. byte \div 1 = byte BY <1>1
      <4> QED BY <4>1, <4>2
    <3>3. Field(Y, P, count) = (byte % Pow2[b]) * Pow2[low] + (next \div Pow2[ByteBits - low])
      BY <1>1, <1>6, <2>5 DEF Field, low
    <3> QED BY <3>2, <3>3 DEF bits
  <2>13. After(P, count) = Cursor(e, c + 1) BY <1>1, <1>6, <2>7 DEF After, Cursor, rest, low
  <2>14. bits \in Nat
    <3>1. After(P, count).c = c + 1 BY <1>1, <1>3, <1>6, AfterType
    <3> QED BY <1>1, <1>3, <2>8, <2>12, <3>1, FieldBound
  <2>15. bits # NoBits BY <2>14 DEF NoBits
  <2>16. Took(g, d, Y, c, count, c + 1)
    BY <1>1, <2>4, <2>5, <2>6, <2>7, <2>8, <2>11, <2>12, <2>13, <2>14 DEF Took
  <2> QED BY <2>4, <2>8, <2>15, <2>16
<1> QED BY <1>4, <1>5, <1>6

-----------------------------------------------------------------------------
(* The window of the decoder, and what it serves.                          *)

LEMMA InductionTo ==
    ASSUME NEW n \in Nat, NEW A, 0 \in A, \A i \in 1 .. n : i - 1 \in A => i \in A
    PROVE  \A i \in 0 .. n : i \in A
<1> DEFINE Bad == {i \in Nat : i <= n /\ i \notin A}
<1>1. Bad = {}
  <2> SUFFICES ASSUME Bad # {} PROVE FALSE OBVIOUS
  <2>1. Bad \subseteq Nat OBVIOUS
  <2>2. PICK k \in Bad : \A y \in Bad : k <= y
    <3> HIDE DEF Bad
    <3> QED BY <2>1, LeastElement
  <2>3. k \in Nat /\ k <= n /\ k \notin A /\ k # 0 BY <2>2
  <2>4. k \in 1 .. n /\ k - 1 \in Nat /\ k - 1 <= n /\ ~(k <= k - 1) BY <2>3
  <2>5. k - 1 \in A BY <2>2, <2>4
  <2> QED BY <2>3, <2>4, <2>5
<1> QED BY <1>1

\* Going round the window.
LEMMA WrapIs ==
    ASSUME NEW w \in Nat, NEW h \in 0 .. w - 1, NEW k \in 1 .. w
    PROVE  /\ (h - k) % w = IF h >= k THEN h - k ELSE (h - k) + w
           /\ (h + 1) % w = IF h + 1 = w THEN 0 ELSE h + 1
<1>1. w >= 1 /\ w \in Nat /\ h \in Nat /\ h < w /\ k \in Nat /\ k >= 1 /\ k <= w OBVIOUS
<1>2. CASE h >= k
  <2>1. h - k \in Nat /\ h - k < w BY <1>1, <1>2
  <2> QED BY <1>1, <1>2, <2>1, DivSmall
<1>3. CASE ~(h >= k)
  <2> DEFINE x == h - k
             r == x % w
             q == x \div w
  <2>1. x \in Int /\ x < 0 /\ x + w >= 0 BY <1>1, <1>3
  <2>2. r \in Nat /\ r < w /\ q \in Int /\ x = q * w + r
    <3> HIDE DEF x
    <3> QED BY <1>1, <2>1
  <2> HIDE DEF x, r, q
  <2>3. q = -1
    <3>1. ~(q >= 0)
      <4> SUFFICES ASSUME q >= 0 PROVE FALSE OBVIOUS
      <4>1. q * w >= 0 BY <1>1, <2>2
      <4> QED BY <1>1, <2>1, <2>2, <4>1
    <3>2. ~(q <= -2)
      <4> SUFFICES ASSUME q <= -2 PROVE FALSE OBVIOUS
      <4>1. (q + 2) * w <= 0 BY <1>1, <2>2
      <4>2. (q + 2) * w = q * w + 2 * w BY <1>1, <2>2
      <4> QED BY <1>1, <2>1, <2>2, <4>1, <4>2
    <3> QED BY <2>2, <3>1, <3>2
  <2>4. q * w = -w BY <1>1, <2>3
  <2>5. r = x + w BY <1>1, <2>1, <2>2, <2>4
  <2> QED BY <1>3, <2>5 DEF r, x
<1>4. (h + 1) % w = IF h + 1 = w THEN 0 ELSE h + 1
  <2>1. CASE h + 1 = w
    <3>1. w = 1 * w + 0 BY <1>1
    <3>2. w % w = 0 BY <1>1, <3>1, DivIs
    <3> QED BY <2>1, <3>2
  <2>2. CASE h + 1 # w
    <3>1. h + 1 \in Nat /\ h + 1 < w BY <1>1, <2>2
    <3>2. (h + 1) % w = h + 1 BY <1>1, <3>1, DivSmall
    <3> QED BY <2>2, <3>2
  <2> QED BY <2>1, <2>2
<1>5. (h - k) % w = IF h >= k THEN h - k ELSE (h - k) + w BY <1>2, <1>3
<1> QED BY <1>4, <1>5

LEMMA EmittedNone ==
    ASSUME NEW o \in Seq(Byte), NEW src \in Seq(Byte), NEW n \in Nat, n <= Len(src)
    PROVE  Emitted(o, o, src, n, n)
BY DEF Emitted

LEMMA EmittedMore ==
    ASSUME NEW o \in Seq(Byte), NEW src \in Seq(Byte), NEW n \in Nat, NEW m, NEW o2,
           Emitted(o2, o, src, n, m), m + 1 <= Len(src), NEW byte \in Byte, byte = src[m + 1]
    PROVE  Emitted(Append(o2, byte), o, src, n, m + 1)
<1> DEFINE o3 == Append(o2, byte)
<1>1. /\ o2 \in Seq(Byte) /\ m \in Nat /\ n <= m /\ Len(o2) = Len(o) + (m - n)
      /\ \A k \in 1 .. Len(o) : o2[k] = o[k]
      /\ \A k \in 1 .. m - n : o2[Len(o) + k] = src[n + k]
  BY DEF Emitted
<1>2. /\ o3 \in Seq(Byte) /\ Len(o3) = Len(o2) + 1 /\ o3[Len(o2) + 1] = byte
      /\ \A k \in 1 .. Len(o2) : o3[k] = o2[k] /\ Len(o2) \in Nat /\ Len(o) \in Nat
  BY <1>1
<1> HIDE DEF o3
<1>3. Len(o2) \in Nat /\ Len(o) \in Nat BY <1>1
<1>4. Len(o3) = Len(o) + ((m + 1) - n) BY <1>1, <1>2, <1>3
<1>5. ASSUME NEW k \in 1 .. Len(o) PROVE o3[k] = o[k]
  <2>1. k \in 1 .. Len(o2) BY <1>1, <1>3
  <2> QED BY <1>1, <1>2, <2>1
<1>6. ASSUME NEW k \in 1 .. (m + 1) - n PROVE o3[Len(o) + k] = src[n + k]
  <2>1. CASE k \in 1 .. m - n
    <3>1. Len(o) + k \in 1 .. Len(o2) BY <1>1, <1>3, <2>1
    <3> QED BY <1>1, <1>2, <2>1, <3>1
  <2>2. CASE k \notin 1 .. m - n
    <3>1. Len(o) + k = Len(o2) + 1 /\ n + k = m + 1 BY <1>1, <1>3, <2>2
    <3> QED BY <1>2, <3>1
  <2> QED BY <2>1, <2>2
<1>7. m + 1 \in Nat /\ n <= m + 1 BY <1>1
<1> QED BY <1>2, <1>4, <1>5, <1>6, <1>7 DEF Emitted, o3

LEMMA YieldIs ==
    ASSUME NEW d \in DecoderRecord, NEW o \in Seq(Byte), NEW src \in Seq(Byte), NEW n \in Nat,
           n + 1 <= Len(src), Ring(d, src, n), NEW byte, byte = src[n + 1],
           NEW s, s = Yield([d |-> d, o |-> o], byte)
    PROVE  Yielded(s, d, o, src, n)
<1> DEFINE h == d.head_index
           next == (h + 1) % Window
           ring == [d.window EXCEPT ![h] = byte]
           e == [d EXCEPT !.window = ring, !.head_index = next]
<1>1. h \in 0 .. Window - 1 /\ d.window \in [0 .. Window - 1 -> Byte] BY DEF DecoderRecord
<1>2. Window \in Nat /\ Window >= 1 BY BitsAre
<1>3. next = IF h + 1 = Window THEN 0 ELSE h + 1
  <2>1. 1 \in 1 .. Window BY <1>2
  <2> HIDE DEF h
  <2> QED BY <1>1, <1>2, <2>1, WrapIs
<1>4. s = [d |-> e, o |-> Append(o, byte)] BY DEF Yield, DecoderRecord
<1>5. byte \in Byte /\ Nth(src, n + 1) = byte
  <2>1. n + 1 \in 1 .. Len(src) OBVIOUS
  <2> QED BY <2>1 DEF Nth
<1>6. ring \in [0 .. Window - 1 -> Byte] /\ ring[h] = byte
      /\ \A i \in 0 .. Window - 1 : i # h => ring[i] = d.window[i]
  BY <1>1, <1>5
<1>7. next \in 0 .. Window - 1 BY <1>1, <1>2, <1>3
<1> HIDE DEF next, ring
<1>8. e \in DecoderRecord /\ e.window = ring /\ e.head_index = next /\ SameButWindow(e, d)
  BY <1>6, <1>7 DEF DecoderRecord, SameButWindow
<1> HIDE DEF e, h
<1>9. ASSUME NEW k \in 1 .. Window PROVE ring[(next - k) % Window] = Nth(src, ((n + 1) + 1) - k)
  <2>1. (next - k) % Window = IF next >= k THEN next - k ELSE (next - k) + Window
    BY <1>2, <1>7, WrapIs
  <2>2. CASE k = 1
    <3>1. (next - k) % Window = h /\ ((n + 1) + 1) - k = n + 1 BY <1>1, <1>2, <1>3, <2>1, <2>2
    <3> QED BY <1>5, <1>6, <3>1
  <2>3. CASE k # 1
    <3> DEFINE j == k - 1
    <3>1. j \in 1 .. Window BY <1>2, <2>3
    <3>2. (h - j) % Window = IF h >= j THEN h - j ELSE (h - j) + Window
      <4> HIDE DEF j
      <4> QED BY <1>1, <1>2, <3>1, WrapIs
    <3>3. (next - k) % Window = (h - j) % Window /\ (h - j) % Window \in 0 .. Window - 1
          /\ (h - j) % Window # h
      <4> DEFINE a == (next - k) % Window
                 b == (h - j) % Window
      <4>1. a = IF next >= k THEN next - k ELSE (next - k) + Window BY <2>1
      <4>2. b = IF h >= j THEN h - j ELSE (h - j) + Window BY <3>2
      <4>3. j = k - 1 /\ j >= 1 /\ j <= Window /\ k \in Nat BY <3>1
      <4> HIDE DEF a, b, j
      <4>4. h \in Nat /\ h < Window /\ Window \in Nat BY <1>1, <1>2
      <4>5. a = b /\ b \in 0 .. Window - 1 /\ b # h
        <5>1. CASE h + 1 = Window BY <1>3, <4>1, <4>2, <4>3, <4>4, <5>1
        <5>2. CASE h + 1 # Window BY <1>3, <4>1, <4>2, <4>3, <4>4, <5>2
        <5> QED BY <5>1, <5>2
      <4> QED BY <4>5 DEF a, b
    <3>4. ((n + 1) + 1) - k = (n + 1) - j OBVIOUS
    <3> HIDE DEF j
    <3>5. d.window[(h - j) % Window] = Nth(src, (n + 1) - j) BY <3>1 DEF Ring, h
    <3> QED BY <1>6, <3>3, <3>4, <3>5
  <2> QED BY <2>2, <2>3
<1>10. Ring(e, src, n + 1) BY <1>8, <1>9 DEF Ring
<1>11. s.d = e /\ s.o = Append(o, byte) /\ s = [d |-> s.d, o |-> s.o] BY <1>4
<1> QED BY <1>8, <1>10, <1>11 DEF Yielded

LEMMA CopyIs ==
    ASSUME NEW src \in Seq(Byte), NEW d, NEW o \in Seq(Byte), NEW n \in Nat, NEW m \in Nat, NEW x,
           YieldedTo(x, d, o, src, n, m), m + 1 <= Len(src), d.output_index \in 1 .. Window,
           Nth(src, m + 1) = Nth(src, (m + 1) - d.output_index)
    PROVE  YieldedTo(Copy(x), d, o, src, n, m + 1)
<1> DEFINE dist == d.output_index
           byte == x.d.window[(x.d.head_index - x.d.output_index) % Window]
           s == Copy(x)
<1>1. /\ x = [d |-> x.d, o |-> x.o] /\ x.d \in DecoderRecord /\ SameButWindow(x.d, d)
      /\ Ring(x.d, src, m) /\ Emitted(x.o, o, src, n, m) /\ x.o \in Seq(Byte)
  BY DEF YieldedTo, Emitted
<1>2. x.d.output_index = dist BY <1>1 DEF SameButWindow
<1>3. byte = Nth(src, (m + 1) - dist) BY <1>1, <1>2 DEF Ring
<1>4. m + 1 \in 1 .. Len(src) OBVIOUS
<1>5. byte = src[m + 1] /\ src[m + 1] \in Byte BY <1>3, <1>4 DEF Nth
<1>6. s = Yield([d |-> x.d, o |-> x.o], byte) BY <1>1 DEF Copy
<1> HIDE DEF byte, s
<1>7. Yielded(s, x.d, x.o, src, m) BY <1>1, <1>5, <1>6, YieldIs
<1>8. /\ s = [d |-> s.d, o |-> s.o] /\ s.d \in DecoderRecord /\ SameButWindow(s.d, x.d)
      /\ Ring(s.d, src, m + 1) /\ s.o = Append(x.o, src[m + 1])
  BY <1>7 DEF Yielded
<1>9. Emitted(s.o, o, src, n, m + 1) BY <1>1, <1>5, <1>8, EmittedMore
<1>10. SameButWindow(s.d, d) BY <1>1, <1>8 DEF SameButWindow
<1> QED BY <1>8, <1>9, <1>10 DEF YieldedTo, s

LEMMA CopiesIs ==
    ASSUME NEW src \in Seq(Byte), NEW d \in DecoderRecord, NEW o \in Seq(Byte), NEW n \in Nat,
           Ring(d, src, n), NEW count \in Nat, n + count <= Len(src), d.output_index \in 1 .. Window,
           \A k \in 1 .. count : Nth(src, n + k) = Nth(src, (n + k) - d.output_index),
           NEW s, s = Copies([d |-> d, o |-> o], count)
    PROVE  YieldedTo(s, d, o, src, n, n + count)
<1> DEFINE start == [d |-> d, o |-> o]
           S == [d: DecoderRecord, o: Seq(Byte)]
           g == [q \in S \X (1 .. count) |-> IF Copy(q[1]) \in S THEN Copy(q[1]) ELSE q[1]]
           Good(i, x) == YieldedTo(x, d, o, src, n, n + i)
           E(f) == [i \in 0 .. count |-> IF i = 0 THEN start ELSE Copy(f[i - 1])]
<1>1. Good(0, start)
  <2>1. Emitted(o, o, src, n, n) BY EmittedNone
  <2>2. n + 0 = n /\ start.d = d /\ start.o = o OBVIOUS
  <2> QED BY <2>1, <2>2 DEF YieldedTo, SameButWindow
<1>2. ASSUME NEW i \in 1 .. count, NEW x, Good(i - 1, x) PROVE Good(i, Copy(x))
  <2> DEFINE m == n + (i - 1)
  <2>1. m \in Nat /\ m + 1 = n + i /\ m + 1 <= Len(src) OBVIOUS
  <2>2. YieldedTo(x, d, o, src, n, m) BY <1>2
  <2>3. Nth(src, m + 1) = Nth(src, (m + 1) - d.output_index) BY <2>1
  <2> HIDE DEF m
  <2> QED BY <2>1, <2>2, <2>3, CopyIs
<1>3. ASSUME NEW i, NEW x, Good(i, x) PROVE x \in S BY <1>3 DEF YieldedTo, Emitted
<1>4. start \in S BY <1>1, <1>3
<1> HIDE DEF S, Good, start
<1>5. \E h : Iterates(h, S, start, count, g)
  <2>1. g \in [S \X (1 .. count) -> S]
    <3>1. ASSUME NEW q \in S \X (1 .. count) PROVE (IF Copy(q[1]) \in S THEN Copy(q[1]) ELSE q[1]) \in S
      OBVIOUS
    <3> QED BY <3>1
  <2> HIDE DEF g
  <2> QED BY <1>4, <2>1, IterationExists
<1>6. PICK h : Iterates(h, S, start, count, g) BY <1>5
<1>7. h \in [0 .. count -> S] /\ h[0] = start /\ \A i \in 1 .. count : h[i] = g[<<h[i - 1], i>>]
  BY <1>6 DEF Iterates
<1>8. ASSUME NEW i \in 1 .. count, Good(i - 1, h[i - 1]) PROVE h[i] = Copy(h[i - 1])
  <2>1. h[i - 1] \in S BY <1>3, <1>8
  <2>2. Copy(h[i - 1]) \in S BY <1>2, <1>3, <1>8
  <2>3. h[i] = g[<<h[i - 1], i>>] BY <1>7
  <2> DEFINE x == h[i - 1]
  <2>4. <<x, i>> \in S \X (1 .. count) BY <2>1
  <2> HIDE DEF x
  <2>5. g[<<x, i>>] = IF Copy(x) \in S THEN Copy(x) ELSE x BY <2>4
  <2> QED BY <2>2, <2>3, <2>5 DEF x
<1>9. \A i \in 0 .. count : Good(i, h[i])
  <2> DEFINE A == {i \in 0 .. count : Good(i, h[i])}
  <2>1. 0 \in A BY <1>1, <1>7
  <2>2. ASSUME NEW i \in 1 .. count, i - 1 \in A PROVE i \in A
    <3>1. Good(i - 1, h[i - 1]) /\ i \in 0 .. count BY <2>2
    <3>2. Good(i, h[i]) BY <1>2, <1>8, <3>1
    <3> QED BY <3>1, <3>2
  <2>3. \A i \in 0 .. count : i \in A
    <3> HIDE DEF A
    <3> QED BY <2>1, <2>2, InductionTo
  <2> QED BY <2>3
<1>10. h = E(h)
  <2>1. \A i \in 0 .. count : h[i] = IF i = 0 THEN start ELSE Copy(h[i - 1])
    <3> SUFFICES ASSUME NEW i \in 0 .. count PROVE h[i] = IF i = 0 THEN start ELSE Copy(h[i - 1])
      OBVIOUS
    <3>1. CASE i = 0 BY <1>7, <3>1
    <3>2. CASE i # 0
      <4>1. i \in 1 .. count /\ i - 1 \in 0 .. count BY <3>2
      <4> QED BY <1>8, <1>9, <3>2, <4>1
    <3> QED BY <3>1, <3>2
  <2> QED BY <1>7, <2>1
<1>11. PICK f : f = E(f) /\ s = f[count]
  <2> DEFINE copied == CHOOSE f : f = E(f)
  <2>1. \E f : f = E(f) BY <1>10
  <2>2. copied = E(copied) BY <2>1, Zenon
  <2>3. s = copied[count] BY Zenon DEF Copies, start
  <2> QED BY <2>2, <2>3, Zenon
<1>12. f[0] = start /\ \A i \in 1 .. count : f[i] = Copy(f[i - 1])
  <2> HIDE DEF E
  <2>1. ASSUME NEW i \in 0 .. count PROVE f[i] = IF i = 0 THEN start ELSE Copy(f[i - 1])
    <3>1. f[i] = E(f)[i] BY <1>11
    <3> QED BY <3>1 DEF E
  <2>2. 0 \in 0 .. count /\ \A i \in 1 .. count : i \in 0 .. count /\ i # 0 OBVIOUS
  <2> QED BY <2>1, <2>2
<1>13. \A i \in 0 .. count : Good(i, f[i])
  <2> DEFINE A == {i \in 0 .. count : Good(i, f[i])}
  <2>1. 0 \in A BY <1>1, <1>12
  <2>2. ASSUME NEW i \in 1 .. count, i - 1 \in A PROVE i \in A
    <3>1. Good(i - 1, f[i - 1]) /\ i \in 0 .. count BY <2>2
    <3>2. Good(i, f[i]) BY <1>2, <1>12, <3>1
    <3> QED BY <3>1, <3>2
  <2>3. \A i \in 0 .. count : i \in A
    <3> HIDE DEF A
    <3> QED BY <2>1, <2>2, InductionTo
  <2> QED BY <2>3
<1>14. count \in 0 .. count OBVIOUS
<1> QED BY <1>11, <1>13, <1>14 DEF Good

-----------------------------------------------------------------------------
(* Where the decoder is.                                                   *)

LEMMA WholeIs ==
    ASSUME NEW T, NEW Y, NEW src, Whole(T, Y, src), NEW i \in 1 .. Len(T)
    PROVE  /\ Y \in Seq(Byte) /\ src \in Seq(Byte) /\ Len(T) \in Nat /\ Tokens(T, Y, src)
           /\ T[i] \in Mark /\ T[i].at \in Pos /\ T[i].from \in Nat
           /\ UpTo(T[i].at, T[Len(T)].at) /\ T[Len(T)].at \in Pos
           /\ T[Len(T)].at.c = Len(Y) /\ T[Len(T)].from = Len(src)
           /\ At(Y, Len(Y)) % Pow2[T[Len(T)].at.b] = 0
           /\ i < Len(T) => /\ i + 1 \in 1 .. Len(T) /\ Token(Y, src, T[i], T[i + 1])
                            /\ T[i + 1] \in Mark /\ T[i + 1].at \in Pos /\ T[i + 1].from \in Nat
                            /\ UpTo(T[i + 1].at, T[Len(T)].at)
<1>1. /\ Y \in Seq(Byte) /\ src \in Seq(Byte) /\ Tokens(T, Y, src) /\ T[Len(T)].at.c = Len(Y)
      /\ T[Len(T)].from = Len(src) /\ At(Y, Len(Y)) % Pow2[T[Len(T)].at.b] = 0
  BY DEF Whole, Complete
<1>2. T \in Seq(Mark) /\ Len(T) \in Nat /\ T[Len(T)].at \in Pos BY <1>1, LastMark
<1>3. \A k \in 1 .. Len(T) : T[k] \in Mark /\ T[k].at \in Pos /\ T[k].from \in Nat BY <1>2, MarksAre
<1>4. \A k \in 1 .. Len(T) : UpTo(T[k].at, T[Len(T)].at) BY <1>1 DEF Tokens
<1>5. ASSUME i < Len(T) PROVE i + 1 \in 1 .. Len(T) /\ Token(Y, src, T[i], T[i + 1])
  <2>1. i \in 1 .. Len(T) - 1 /\ i + 1 \in 1 .. Len(T) BY <1>2, <1>5
  <2> QED BY <1>1, <2>1 DEF Tokens
<1> QED BY <1>1, <1>2, <1>3, <1>4, <1>5

\* It waits, or is full.
LEMMA StuckReads ==
    ASSUME NEW T, NEW Y, NEW src, Whole(T, Y, src), NEW d, NEW o \in Seq(Byte), Len(o) <= MaxLen,
           NEW c, NEW n, NEW i, ReadsAt(d, Y, T, src, c, n, i), Len(o) < MaxLen => Starved(d)
    PROVE  ReadsOn([d |-> d, o |-> o], d, o, Y, T, src, c, n)
<1> DEFINE s == [d |-> d, o |-> o]
<1>1. s.d = d /\ s.o = o OBVIOUS
<1> HIDE DEF s
<1>2. src \in Seq(Byte) /\ Y \in Seq(Byte) BY DEF Whole
<1>3. n \in Nat /\ n <= Len(src) /\ Draws(d, Y, c) BY DEF ReadsAt
<1>4. Emitted(o, o, src, n, n) BY <1>2, <1>3, EmittedNone
<1>5. d.input_index \in Nat /\ Len(d.input) \in Nat BY <1>2, <1>3, DrawsIs
<1> QED BY <1>1, <1>4, <1>5 DEF ReadsOn, s

\* Bits are taken, and nothing else but the place changes.
LEMMA TakenReads ==
    ASSUME NEW T, NEW Y, NEW src, Whole(T, Y, src), NEW d, NEW o \in Seq(Byte), Len(o) <= MaxLen,
           NEW c, NEW n, NEW i, ReadsAt(d, Y, T, src, c, n, i),
           NEW g, NEW count, NEW e \in Nat, Took(g, d, Y, c, count, e),
           NEW x \in DecoderRecord, x.input = g.d.input, x.input_index = g.d.input_index,
           x.bit_index = g.d.bit_index, x.current_byte = g.d.current_byte,
           x.head_index = g.d.head_index, x.window = g.d.window, x.state # d.state,
           Place(x, Y, T, src, Cursor(g.d, e), n, i)
    PROVE  ReadsOn([d |-> x, o |-> o], d, o, Y, T, src, c, n)
<1> DEFINE s == [d |-> x, o |-> o]
<1>1. s.d = x /\ s.o = o OBVIOUS
<1> HIDE DEF s
<1>2. src \in Seq(Byte) /\ Y \in Seq(Byte) BY DEF Whole
<1>3. n \in Nat /\ n <= Len(src) /\ Ring(d, src, n) /\ i \in 1 .. Len(T) BY DEF ReadsAt
<1>4. Draws(g.d, Y, e) /\ SameButInput(g.d, d) /\ e + Len(g.d.input) = c + Len(d.input)
      /\ g.d.input_index + Len(g.d.input) <= d.input_index + Len(d.input)
  BY DEF Took
<1>5. Draws(x, Y, e) BY <1>4 DEF Draws
<1>6. Ring(x, src, n) BY <1>3, <1>4 DEF Ring, SameButInput
<1>7. Cursor(x, e) = Cursor(g.d, e) BY DEF Cursor
<1>8. ReadsAt(x, Y, T, src, e, n, i) BY <1>3, <1>5, <1>6, <1>7 DEF ReadsAt
<1>9. Emitted(o, o, src, n, n) BY <1>2, <1>3, EmittedNone
<1> QED BY <1>1, <1>4, <1>8, <1>9 DEF ReadsOn, s

\* After the last token there is padding, of bits that are 0.
LEMMA PaddingIs ==
    ASSUME NEW T, NEW Y, NEW src, Whole(T, Y, src), After(T[Len(T)].at, 1).c <= Len(Y)
    PROVE  Field(Y, T[Len(T)].at, 1) = 0
<1> DEFINE P == T[Len(T)].at
           b == P.b
           y == At(Y, P.c)
<1>0. Len(T) \in 1 .. Len(T) BY LastMark DEF Whole, Complete
<1>1. Y \in Seq(Byte) /\ P \in Pos /\ P.c = Len(Y) /\ y % Pow2[b] = 0 BY <1>0, WholeIs
<1>2. ByteBits \in Nat \ {0} /\ Len(Y) \in Nat BY <1>1, ByteIs
<1>3. b \in Nat /\ P.c \in Nat BY <1>1, <1>2 DEF Pos
<1>4. y \in Nat BY <1>1, <1>3, AtType
<1>5. b >= 1
  <2>1. 1 \in Nat /\ 1 <= ByteBits BY <1>2
  <2>2. After(P, 1).c = IF 1 <= P.b THEN P.c ELSE P.c + 1 BY <1>1, <2>1, AfterType
  <2>3. After(P, 1).c <= P.c BY <1>1
  <2> HIDE DEF P
  <2> QED BY <1>3, <2>2, <2>3
<1>6. Pow2[b] = 2 * Pow2[b - 1] /\ Pow2[b - 1] \in Nat /\ Pow2[b - 1] >= 1 /\ Pow2[1] = 2
  <2>1. b - 1 \in Nat /\ (b - 1) + 1 = b /\ 0 + 1 = 1 BY <1>3, <1>5
  <2>2. Pow2[(b - 1) + 1] = 2 * Pow2[b - 1] /\ Pow2[b - 1] \in Nat /\ Pow2[b - 1] >= 1
    BY <2>1, Pow2Next, Pow2Type
  <2>3. Pow2[0 + 1] = 2 * Pow2[0] BY Pow2Next
  <2> QED BY <2>1, <2>2, <2>3, Pow2Zero
<1>7. Field(Y, P, 1) = (y \div Pow2[b - 1]) % Pow2[1] BY <1>5 DEF Field
<1> DEFINE p == Pow2[b - 1]
           q == y \div Pow2[b]
<1>8. q \in Nat /\ y = q * Pow2[b] + 0 BY <1>1, <1>3, <1>4, DivRest, Pow2Type
<1>9. y = (2 * q) * p + 0 /\ 2 * q \in Nat
  <2> HIDE DEF y, q, p
  <2>1. Pow2[b] = 2 * p /\ p \in Nat BY <1>6 DEF p
  <2>2. y = q * (2 * p) + 0 /\ q \in Nat BY <1>8, <2>1
  <2>3. q * (2 * p) = (2 * q) * p BY <2>1, <2>2
  <2> QED BY <2>2, <2>3
<1>10. y \div p = 2 * q
  <2>1. p \in Nat /\ p >= 1 BY <1>6
  <2> HIDE DEF y, q, p
  <2> QED BY <1>4, <1>9, <2>1, DivIs
<1>11. (2 * q) % 2 = 0
  <2> HIDE DEF q
  <2>1. q \in Nat BY <1>8
  <2> QED BY <2>1
<1> QED BY <1>6, <1>7, <1>10, <1>11

-----------------------------------------------------------------------------
(* The states of the decoder: each reads on.                               *)

LEMMA WidthsAre ==
    /\ 1 \in 1 .. ByteBits /\ ByteBits \in 1 .. ByteBits /\ LowBits \in 1 .. ByteBits
    /\ LookaheadBits \in 1 .. ByteBits
    /\ WindowBits > ByteBits => WindowBits - ByteBits \in 1 .. ByteBits
BY BitsAre

\* What is read of a token of the stream.
LEMMA ReadingIs ==
    ASSUME NEW T, NEW Y, NEW src, Whole(T, Y, src), NEW d, NEW c, NEW n, NEW i,
           ReadsAt(d, Y, T, src, c, n, i)
    PROVE  /\ Draws(d, Y, c) /\ d \in DecoderRecord /\ Cursor(d, c) \in Pos /\ c \in Nat
           /\ n \in Nat /\ n <= Len(src) /\ i \in 1 .. Len(T) /\ Y \in Seq(Byte) /\ src \in Seq(Byte)
           /\ Place(d, Y, T, src, Cursor(d, c), n, i) /\ Ring(d, src, n)
<1>1. Y \in Seq(Byte) /\ src \in Seq(Byte) BY DEF Whole
<1>2. /\ Draws(d, Y, c) /\ n \in Nat /\ n <= Len(src) /\ i \in 1 .. Len(T)
      /\ Place(d, Y, T, src, Cursor(d, c), n, i) /\ Ring(d, src, n)
  BY DEF ReadsAt
<1> QED BY <1>1, <1>2, DrawsIs

LEMMA TagReads ==
    ASSUME NEW T, NEW Y, NEW src, Whole(T, Y, src), NEW d, NEW o \in Seq(Byte), Len(o) <= MaxLen,
           NEW c, NEW n, NEW i, ReadsAt(d, Y, T, src, c, n, i), d.state = "tag_bit"
    PROVE  ReadsOn(Takes(d, o, 1, AfterTag), d, o, Y, T, src, c, n)
<1> DEFINE g == GetBits(d, 1)
           t == T[i]
           u == T[i + 1]
           A == After(t.at, 1)
           x == AfterTag(g.d, g.bits)
           P == Cursor(d, c)
<1>1. Takes(d, o, 1, AfterTag) = [d |-> IF g.bits = NoBits THEN d ELSE x, o |-> o]
  BY DEF Takes
<1>2. /\ Draws(d, Y, c) /\ P \in Pos /\ i \in 1 .. Len(T) /\ Y \in Seq(Byte)
      /\ Place(d, Y, T, src, P, n, i)
  BY ReadingIs
<1>3. P = t.at /\ n = t.from
  BY <1>2 DEF Place, ReadsTag, ReadsByte, ReadsMsb, ReadsLsb, ReadsCount, Copying
<1>4. 1 \in 1 .. ByteBits BY WidthsAre
<1> HIDE DEF g
<1>5. \/ g.bits = NoBits /\ Lacks(d, 1)
      \/ g.bits # NoBits /\ \E e \in Nat : Took(g, d, Y, c, 1, e)
  BY <1>2, <1>4, GetBitsIs DEF g
<1>6. CASE g.bits = NoBits /\ Lacks(d, 1)
  <2>1. Starved(d) BY <1>6 DEF Starved
  <2>2. Takes(d, o, 1, AfterTag) = [d |-> d, o |-> o] BY <1>1, <1>6
  <2> QED BY <2>1, <2>2, StuckReads
<1>7. CASE g.bits # NoBits /\ \E e \in Nat : Took(g, d, Y, c, 1, e)
  <2>1. PICK e \in Nat : Took(g, d, Y, c, 1, e) BY <1>7
  <2>2. /\ g.d \in DecoderRecord /\ SameButInput(g.d, d) /\ After(P, 1) = Cursor(g.d, e)
        /\ g.bits = Field(Y, P, 1) /\ Draws(g.d, Y, e)
    BY <2>1 DEF Took, Draws
  <2>3. Takes(d, o, 1, AfterTag) = [d |-> x, o |-> o] BY <1>1, <1>7
  <2>4. /\ x \in DecoderRecord /\ x.input = g.d.input /\ x.input_index = g.d.input_index
        /\ x.bit_index = g.d.bit_index /\ x.current_byte = g.d.current_byte
        /\ x.head_index = g.d.head_index /\ x.window = g.d.window
        /\ x.state = IF g.bits = 1 THEN "yield_literal"
                     ELSE IF WindowBits > ByteBits THEN "backref_index_msb" ELSE "backref_index_lsb"
        /\ ~(g.bits = 1) /\ ~(WindowBits > ByteBits) => x.output_index = 0
    BY <2>2 DEF AfterTag, DecoderRecord, DecoderStates
  <2> HIDE DEF x, t, u, A, P
  <2>5. Cursor(g.d, e) = A BY <1>3, <2>2 DEF A
  <2>6. g.bits = Field(Y, t.at, 1) BY <1>3, <2>2
  <2>7. x.state # d.state BY <2>4
  <2>8. Place(x, Y, T, src, Cursor(g.d, e), n, i)
    <3>1. CASE g.bits = 1
      <4>1. i < Len(T) /\ Literal(Y, src, t, u)
        <5>1. i < Len(T)
          <6> SUFFICES ASSUME ~(i < Len(T)) PROVE FALSE OBVIOUS
          <6>1. i = Len(T) BY <1>2, WholeIs
          <6>2. A.c <= Len(Y)
            <7>1. Cursor(g.d, e).c = e /\ e \in Nat /\ e + Len(g.d.input) <= Len(Y) /\ Len(g.d.input) \in Nat
              BY <1>2, <2>2, DrawsIs
            <7> QED BY <1>2, <2>5, <7>1
          <6>3. Field(Y, t.at, 1) = 0 BY <6>1, <6>2, PaddingIs DEF A, t
          <6> QED BY <2>6, <3>1, <6>3
        <5>2. Token(Y, src, t, u) BY <1>2, <5>1, WholeIs DEF t, u
        <5> QED BY <2>6, <3>1, <5>1, <5>2 DEF Token, Refers
      <4>2. x.state = "yield_literal" BY <2>4, <3>1
      <4>3. ReadsByte(x, Y, src, A, n, t, u, i < Len(T)) BY <1>3, <4>1, <4>2 DEF ReadsByte, A
      <4> QED BY <2>5, <4>3 DEF Place, t, u
    <3>2. CASE g.bits # 1
      <4>1. i < Len(T) => \E dist \in 1 .. Window, len \in 1 .. Lookahead : Refers(Y, src, t, u, dist, len)
        <5> SUFFICES ASSUME i < Len(T)
                     PROVE  \E dist \in 1 .. Window, len \in 1 .. Lookahead : Refers(Y, src, t, u, dist, len)
          OBVIOUS
        <5>1. Token(Y, src, t, u) BY <1>2, WholeIs DEF t, u
        <5> QED BY <2>6, <3>2, <5>1 DEF Token, Literal
      <4>2. CASE WindowBits > ByteBits
        <5>1. x.state = "backref_index_msb" BY <2>4, <3>2, <4>2
        <5>2. ReadsMsb(x, Y, src, A, n, t, u, i < Len(T)) BY <1>3, <4>1, <4>2, <5>1 DEF ReadsMsb, A
        <5> QED BY <2>5, <5>2 DEF Place, t, u
      <4>3. CASE ~(WindowBits > ByteBits)
        <5>1. x.state = "backref_index_lsb" /\ x.output_index = 0 BY <2>4, <3>2, <4>3
        <5>2. Low(A) = A BY <4>3 DEF Low
        <5>3. ReadsLsb(x, Y, src, A, n, t, u, i < Len(T))
          BY <1>3, <4>1, <4>3, <5>1, <5>2 DEF ReadsLsb, A
        <5> QED BY <2>5, <5>3 DEF Place, t, u
      <4> QED BY <4>2, <4>3
    <3> QED BY <3>1, <3>2
  <2> QED BY <2>1, <2>3, <2>4, <2>7, <2>8, TakenReads
<1> QED BY <1>5, <1>6, <1>7

LEMMA MsbReads ==
    ASSUME NEW T, NEW Y, NEW src, Whole(T, Y, src), NEW d, NEW o \in Seq(Byte), Len(o) <= MaxLen,
           NEW c, NEW n, NEW i, ReadsAt(d, Y, T, src, c, n, i), d.state = "backref_index_msb"
    PROVE  ReadsOn(Takes(d, o, WindowBits - ByteBits, AfterMsb), d, o, Y, T, src, c, n)
<1> DEFINE g == GetBits(d, WindowBits - ByteBits)
           t == T[i]
           u == T[i + 1]
           A == After(t.at, 1)
           x == AfterMsb(g.d, g.bits)
           P == Cursor(d, c)
<1>1. Takes(d, o, WindowBits - ByteBits, AfterMsb) = [d |-> IF g.bits = NoBits THEN d ELSE x, o |-> o]
  BY DEF Takes
<1>2. /\ Draws(d, Y, c) /\ P \in Pos /\ i \in 1 .. Len(T) /\ Y \in Seq(Byte)
      /\ Place(d, Y, T, src, P, n, i)
  BY ReadingIs
<1>3. ReadsMsb(d, Y, src, P, n, t, u, i < Len(T))
  BY <1>2 DEF Place, ReadsTag, ReadsByte, ReadsMsb, ReadsLsb, ReadsCount, Copying
<1>4. WindowBits - ByteBits \in 1 .. ByteBits BY <1>3, WidthsAre DEF ReadsMsb
<1> HIDE DEF g
<1>5. \/ g.bits = NoBits /\ Lacks(d, WindowBits - ByteBits)
      \/ g.bits # NoBits /\ \E e \in Nat : Took(g, d, Y, c, WindowBits - ByteBits, e)
  BY <1>2, <1>4, GetBitsIs DEF g
<1>6. CASE g.bits = NoBits /\ Lacks(d, WindowBits - ByteBits)
  <2>1. Starved(d) BY <1>6 DEF Starved
  <2>2. Takes(d, o, WindowBits - ByteBits, AfterMsb) = [d |-> d, o |-> o] BY <1>1, <1>6
  <2> QED BY <2>1, <2>2, StuckReads
<1>7. CASE g.bits # NoBits /\ \E e \in Nat : Took(g, d, Y, c, WindowBits - ByteBits, e)
  <2>1. PICK e \in Nat : Took(g, d, Y, c, WindowBits - ByteBits, e) BY <1>7
  <2>2. /\ g.d \in DecoderRecord /\ SameButInput(g.d, d) /\ After(P, WindowBits - ByteBits) = Cursor(g.d, e)
        /\ g.bits = Field(Y, P, WindowBits - ByteBits) /\ g.bits \in Nat /\ Draws(g.d, Y, e)
        /\ g.d.output_index = d.output_index /\ g.d.output_index \in Nat
    <3>1. /\ g.d \in DecoderRecord /\ SameButInput(g.d, d) /\ After(P, WindowBits - ByteBits) = Cursor(g.d, e)
          /\ g.bits = Field(Y, P, WindowBits - ByteBits) /\ g.bits \in Nat /\ Draws(g.d, Y, e)
      BY <2>1 DEF Took, Draws
    <3> QED BY <3>1 DEF SameButInput, DecoderRecord
  <2>3. Takes(d, o, WindowBits - ByteBits, AfterMsb) = [d |-> x, o |-> o] BY <1>1, <1>7
  <2>4. /\ x \in DecoderRecord /\ x.input = g.d.input /\ x.input_index = g.d.input_index
        /\ x.bit_index = g.d.bit_index /\ x.current_byte = g.d.current_byte
        /\ x.head_index = g.d.head_index /\ x.window = g.d.window
        /\ x.state = "backref_index_lsb"
        /\ x.output_index = g.bits * Pow2[ByteBits]
    <3> DEFINE v == g.bits * Pow2[ByteBits]
    <3>1. v \in Nat
      <4>1. Pow2[ByteBits] \in Nat BY ByteIs, Pow2Type
      <4> QED BY <2>2, <4>1
    <3>2. x = [g.d EXCEPT !.output_index = v, !.state = "backref_index_lsb"] BY DEF AfterMsb
    <3> HIDE DEF v, x
    <3>3. /\ x \in DecoderRecord /\ x.input = g.d.input /\ x.input_index = g.d.input_index
          /\ x.bit_index = g.d.bit_index /\ x.current_byte = g.d.current_byte
          /\ x.head_index = g.d.head_index /\ x.window = g.d.window
          /\ x.state = "backref_index_lsb" /\ x.output_index = v
      BY <2>2, <3>1, <3>2 DEF DecoderRecord, DecoderStates
    <3> QED BY <3>3 DEF v
  <2> HIDE DEF x, t, u, A, P
  <2>7. x.state # d.state BY <2>4
  <2>8. Place(x, Y, T, src, Cursor(g.d, e), n, i)
    <3>1. P = A /\ n = t.from /\ WindowBits > ByteBits BY <1>3 DEF ReadsMsb, A, t, P
    <3>2. Cursor(g.d, e) = Low(A) BY <2>2, <3>1 DEF Low
    <3>3. i < Len(T) => \E dist \in 1 .. Window, len \in 1 .. Lookahead :
                           /\ Refers(Y, src, t, u, dist, len)
                           /\ x.output_index = ((dist - 1) \div Pow2[ByteBits]) * Pow2[ByteBits]
      <4> SUFFICES ASSUME i < Len(T)
                   PROVE  \E dist \in 1 .. Window, len \in 1 .. Lookahead :
                             /\ Refers(Y, src, t, u, dist, len)
                             /\ x.output_index = ((dist - 1) \div Pow2[ByteBits]) * Pow2[ByteBits]
        OBVIOUS
      <4>1. PICK dist \in 1 .. Window, len \in 1 .. Lookahead : Refers(Y, src, t, u, dist, len)
        BY <1>3 DEF ReadsMsb, t, u
      <4>2. Field(Y, A, WindowBits - ByteBits) = (dist - 1) \div Pow2[ByteBits]
        BY <3>1, <4>1 DEF Refers, Indexed, A
      <4>3. g.bits = (dist - 1) \div Pow2[ByteBits] BY <2>2, <3>1, <4>2
      <4> QED BY <2>4, <4>1, <4>3
    <3>4. ReadsLsb(x, Y, src, Low(A), n, t, u, i < Len(T)) BY <2>4, <3>1, <3>3 DEF ReadsLsb, A
    <3> QED BY <3>2, <3>4 DEF Place, t, u
  <2> QED BY <2>1, <2>3, <2>4, <2>7, <2>8, TakenReads
<1> QED BY <1>5, <1>6, <1>7

LEMMA LsbReads ==
    ASSUME NEW T, NEW Y, NEW src, Whole(T, Y, src), NEW d, NEW o \in Seq(Byte), Len(o) <= MaxLen,
           NEW c, NEW n, NEW i, ReadsAt(d, Y, T, src, c, n, i), d.state = "backref_index_lsb"
    PROVE  ReadsOn(Takes(d, o, LowBits, AfterLsb), d, o, Y, T, src, c, n)
<1> DEFINE g == GetBits(d, LowBits)
           t == T[i]
           u == T[i + 1]
           A == After(t.at, 1)
           x == AfterLsb(g.d, g.bits)
           P == Cursor(d, c)
<1>1. Takes(d, o, LowBits, AfterLsb) = [d |-> IF g.bits = NoBits THEN d ELSE x, o |-> o]
  BY DEF Takes
<1>2. /\ Draws(d, Y, c) /\ P \in Pos /\ i \in 1 .. Len(T) /\ Y \in Seq(Byte)
      /\ Place(d, Y, T, src, P, n, i)
  BY ReadingIs
<1>3. ReadsLsb(d, Y, src, P, n, t, u, i < Len(T))
  BY <1>2 DEF Place, ReadsTag, ReadsByte, ReadsMsb, ReadsLsb, ReadsCount, Copying
<1>4. LowBits \in 1 .. ByteBits BY <1>3, WidthsAre DEF ReadsLsb
<1> HIDE DEF g
<1>5. \/ g.bits = NoBits /\ Lacks(d, LowBits)
      \/ g.bits # NoBits /\ \E e \in Nat : Took(g, d, Y, c, LowBits, e)
  BY <1>2, <1>4, GetBitsIs DEF g
<1>6. CASE g.bits = NoBits /\ Lacks(d, LowBits)
  <2>1. Starved(d) BY <1>6 DEF Starved
  <2>2. Takes(d, o, LowBits, AfterLsb) = [d |-> d, o |-> o] BY <1>1, <1>6
  <2> QED BY <2>1, <2>2, StuckReads
<1>7. CASE g.bits # NoBits /\ \E e \in Nat : Took(g, d, Y, c, LowBits, e)
  <2>1. PICK e \in Nat : Took(g, d, Y, c, LowBits, e) BY <1>7
  <2>2. /\ g.d \in DecoderRecord /\ SameButInput(g.d, d) /\ After(P, LowBits) = Cursor(g.d, e)
        /\ g.bits = Field(Y, P, LowBits) /\ g.bits \in Nat /\ Draws(g.d, Y, e)
        /\ g.d.output_index = d.output_index /\ g.d.output_index \in Nat
    <3>1. /\ g.d \in DecoderRecord /\ SameButInput(g.d, d) /\ After(P, LowBits) = Cursor(g.d, e)
          /\ g.bits = Field(Y, P, LowBits) /\ g.bits \in Nat /\ Draws(g.d, Y, e)
      BY <2>1 DEF Took, Draws
    <3> QED BY <3>1 DEF SameButInput, DecoderRecord
  <2>3. Takes(d, o, LowBits, AfterLsb) = [d |-> x, o |-> o] BY <1>1, <1>7
  <2>4. /\ x \in DecoderRecord /\ x.input = g.d.input /\ x.input_index = g.d.input_index
        /\ x.bit_index = g.d.bit_index /\ x.current_byte = g.d.current_byte
        /\ x.head_index = g.d.head_index /\ x.window = g.d.window
        /\ x.state = "backref_count_lsb"
        /\ x.output_index = d.output_index + g.bits + 1
    <3> DEFINE v == g.d.output_index + g.bits + 1
    <3>1. v \in Nat /\ v = d.output_index + g.bits + 1 BY <2>2
    <3>2. x = [g.d EXCEPT !.output_index = v, !.output_count = 0, !.state = "backref_count_lsb"]
      BY <2>2 DEF AfterLsb, DecoderRecord
    <3> HIDE DEF v, x
    <3>3. /\ x \in DecoderRecord /\ x.input = g.d.input /\ x.input_index = g.d.input_index
          /\ x.bit_index = g.d.bit_index /\ x.current_byte = g.d.current_byte
          /\ x.head_index = g.d.head_index /\ x.window = g.d.window
          /\ x.state = "backref_count_lsb" /\ x.output_index = v
      BY <2>2, <3>1, <3>2 DEF DecoderRecord, DecoderStates
    <3> QED BY <3>1, <3>3
  <2> HIDE DEF x, t, u, A, P
  <2>7. x.state # d.state BY <2>4
  <2>8. Place(x, Y, T, src, Cursor(g.d, e), n, i)
    <3>1. P = Low(A) /\ n = t.from BY <1>3 DEF ReadsLsb, A, t, P
    <3>2. Cursor(g.d, e) = IndexEnd(A) BY <2>2, <3>1 DEF IndexEnd
    <3>3. i < Len(T) => \E dist \in 1 .. Window, len \in 1 .. Lookahead :
                           Refers(Y, src, t, u, dist, len) /\ x.output_index = dist
      <4> SUFFICES ASSUME i < Len(T)
                   PROVE  \E dist \in 1 .. Window, len \in 1 .. Lookahead :
                             Refers(Y, src, t, u, dist, len) /\ x.output_index = dist
        OBVIOUS
      <4>1. PICK dist \in 1 .. Window, len \in 1 .. Lookahead :
                   /\ Refers(Y, src, t, u, dist, len)
                   /\ d.output_index = IF WindowBits > ByteBits
                                       THEN ((dist - 1) \div Pow2[ByteBits]) * Pow2[ByteBits] ELSE 0
        BY <1>3 DEF ReadsLsb, t, u
      <4>2. Field(Y, Low(A), LowBits) = (dist - 1) % Pow2[LowBits] BY <4>1 DEF Refers, Indexed, A
      <4>3. g.bits = (dist - 1) % Pow2[LowBits] BY <2>2, <3>1, <4>2
      <4>4. d.output_index + g.bits = dist - 1
        <5> DEFINE y == dist - 1
        <5>1. y \in Nat /\ y < Window BY BitsAre
        <5>2. CASE WindowBits > ByteBits
          <6>1. LowBits = ByteBits /\ Pow2[ByteBits] \in Nat /\ Pow2[ByteBits] >= 1
            BY <5>2, BitsAre, Pow2Type
          <6> HIDE DEF y
          <6>2. y = (y \div Pow2[ByteBits]) * Pow2[ByteBits] + (y % Pow2[ByteBits]) BY <5>1, <6>1, DivRest
          <6>3. d.output_index = (y \div Pow2[ByteBits]) * Pow2[ByteBits] /\ g.bits = y % Pow2[ByteBits]
            BY <4>1, <4>3, <5>2, <6>1 DEF y
          <6>4. d.output_index + g.bits = y BY <6>2, <6>3
          <6> QED BY <6>4 DEF y
        <5>3. CASE ~(WindowBits > ByteBits)
          <6>1. LowBits = WindowBits /\ Pow2[LowBits] = Window BY <5>3, BitsAre DEF Window
          <6>2. d.output_index = 0 BY <4>1, <5>3
          <6> HIDE DEF y
          <6>3. Window \in Nat BY BitsAre
          <6>4. y % Window = y BY <5>1, <6>3, DivSmall
          <6>5. g.bits = y BY <4>3, <6>1, <6>4 DEF y
          <6>6. d.output_index + g.bits = y BY <5>1, <6>2, <6>5
          <6> QED BY <6>6 DEF y
        <5> QED BY <5>2, <5>3
      <4>5. x.output_index = dist
        <5>1. d.output_index \in Nat /\ g.bits \in Nat /\ x.output_index = d.output_index + g.bits + 1
          BY <2>2, <2>4
        <5> QED BY <4>4, <5>1
      <4> QED BY <4>1, <4>5
    <3>4. ReadsCount(x, Y, src, IndexEnd(A), n, t, u, i < Len(T)) BY <2>4, <3>1, <3>3 DEF ReadsCount, A
    <3> QED BY <3>2, <3>4 DEF Place, t, u
  <2> QED BY <2>1, <2>3, <2>4, <2>7, <2>8, TakenReads
<1> QED BY <1>5, <1>6, <1>7

\* A whole reference is more than the padding.
LEMMA ReferenceIsLong ==
    ASSUME NEW P \in Pos
    PROVE  After(IndexEnd(After(P, 1)), LookaheadBits).c > P.c
<1> DEFINE A == After(P, 1)
           L == Low(A)
           I == After(L, LowBits)
           E == After(I, LookaheadBits)
<1>1. /\ 1 \in Nat /\ 1 <= ByteBits /\ LowBits \in Nat /\ LowBits <= ByteBits
      /\ LookaheadBits \in Nat /\ LookaheadBits <= ByteBits /\ ByteBits \in Nat
      /\ 1 + WindowBits + LookaheadBits >= ByteBits /\ WindowBits \in Nat
  BY BitsAre, BitsAssumption
<1>2. P.c \in Nat /\ P.b \in Nat /\ P.b < ByteBits BY <1>1 DEF Pos
<1>3. A \in Pos /\ A.c = (IF 1 <= P.b THEN P.c ELSE P.c + 1) /\ A.b = (IF 1 <= P.b THEN P.b - 1 ELSE ByteBits - (1 - P.b))
  BY <1>1, AfterType
<1> HIDE DEF A
<1>4. A.c \in Nat /\ A.b \in Nat /\ A.b < ByteBits BY <1>1, <1>3 DEF Pos
<1>5. /\ L \in Pos /\ L.c \in {A.c, A.c + 1}
      /\ L.c = A.c => L.b + WindowBits = A.b + LowBits
  <2>1. CASE WindowBits > ByteBits
    <3> DEFINE h == WindowBits - ByteBits
    <3>1. h \in Nat /\ h <= ByteBits /\ LowBits = ByteBits BY <2>1, BitsAre
    <3>2. L = After(A, h) BY <2>1 DEF Low
    <3> HIDE DEF h, L
    <3>3. L \in Pos /\ L.c = (IF h <= A.b THEN A.c ELSE A.c + 1) /\ L.b = (IF h <= A.b THEN A.b - h ELSE ByteBits - (h - A.b))
      BY <1>3, <3>1, <3>2, AfterType
    <3>4. WindowBits = h + ByteBits BY <1>1 DEF h
    <3> QED BY <1>1, <1>4, <3>1, <3>3, <3>4
  <2>2. CASE ~(WindowBits > ByteBits)
    <3>1. LowBits = WindowBits BY <2>2, BitsAre
    <3>2. L = A BY <2>2 DEF Low
    <3> QED BY <1>3, <1>4, <3>1, <3>2
  <2> QED BY <2>1, <2>2
<1> HIDE DEF L
<1>6. L.c \in Nat /\ L.b \in Nat /\ L.b < ByteBits BY <1>1, <1>5 DEF Pos
<1>7. I \in Pos /\ I.c = (IF LowBits <= L.b THEN L.c ELSE L.c + 1) /\ I.b = (IF LowBits <= L.b THEN L.b - LowBits ELSE ByteBits - (LowBits - L.b))
  BY <1>1, <1>5, AfterType
<1> HIDE DEF I
<1>8. I.c \in Nat /\ I.b \in Nat BY <1>1, <1>7 DEF Pos
<1>9. E.c = IF LookaheadBits <= I.b THEN I.c ELSE I.c + 1 BY <1>1, <1>7, AfterType
<1> HIDE DEF E
<1>10. E.c > P.c
  <2> SUFFICES ASSUME ~(E.c > P.c) PROVE FALSE OBVIOUS
  <2>1. E.c = I.c /\ LookaheadBits <= I.b /\ I.c = L.c /\ L.c = A.c /\ A.c = P.c
    BY <1>2, <1>3, <1>4, <1>5, <1>6, <1>7, <1>8, <1>9
  <2>2. A.b = P.b - 1 /\ I.b = L.b - LowBits /\ L.b + WindowBits = A.b + LowBits /\ LowBits <= L.b /\ 1 <= P.b
    BY <1>1, <1>2, <1>3, <1>5, <1>6, <1>7, <2>1
  <2> QED BY <1>1, <1>2, <1>4, <1>6, <1>8, <2>1, <2>2
<1> QED BY <1>10 DEF E, I, L, A, IndexEnd

LEMMA CountReads ==
    ASSUME NEW T, NEW Y, NEW src, Whole(T, Y, src), NEW d, NEW o \in Seq(Byte), Len(o) <= MaxLen,
           NEW c, NEW n, NEW i, ReadsAt(d, Y, T, src, c, n, i), d.state = "backref_count_lsb"
    PROVE  ReadsOn(Takes(d, o, LookaheadBits, AfterCount), d, o, Y, T, src, c, n)
<1> DEFINE g == GetBits(d, LookaheadBits)
           t == T[i]
           u == T[i + 1]
           A == After(t.at, 1)
           x == AfterCount(g.d, g.bits)
           P == Cursor(d, c)
<1>1. Takes(d, o, LookaheadBits, AfterCount) = [d |-> IF g.bits = NoBits THEN d ELSE x, o |-> o]
  BY DEF Takes
<1>2. /\ Draws(d, Y, c) /\ P \in Pos /\ i \in 1 .. Len(T) /\ Y \in Seq(Byte)
      /\ Place(d, Y, T, src, P, n, i)
  BY ReadingIs
<1>3. ReadsCount(d, Y, src, P, n, t, u, i < Len(T))
  BY <1>2 DEF Place, ReadsTag, ReadsByte, ReadsMsb, ReadsLsb, ReadsCount, Copying
<1>4. LookaheadBits \in 1 .. ByteBits BY <1>3, WidthsAre DEF ReadsCount
<1> HIDE DEF g
<1>5. \/ g.bits = NoBits /\ Lacks(d, LookaheadBits)
      \/ g.bits # NoBits /\ \E e \in Nat : Took(g, d, Y, c, LookaheadBits, e)
  BY <1>2, <1>4, GetBitsIs DEF g
<1>6. CASE g.bits = NoBits /\ Lacks(d, LookaheadBits)
  <2>1. Starved(d) BY <1>6 DEF Starved
  <2>2. Takes(d, o, LookaheadBits, AfterCount) = [d |-> d, o |-> o] BY <1>1, <1>6
  <2> QED BY <2>1, <2>2, StuckReads
<1>7. CASE g.bits # NoBits /\ \E e \in Nat : Took(g, d, Y, c, LookaheadBits, e)
  <2>1. PICK e \in Nat : Took(g, d, Y, c, LookaheadBits, e) BY <1>7
  <2>2. /\ g.d \in DecoderRecord /\ SameButInput(g.d, d) /\ After(P, LookaheadBits) = Cursor(g.d, e)
        /\ g.bits = Field(Y, P, LookaheadBits) /\ g.bits \in Nat /\ Draws(g.d, Y, e)
        /\ g.d.output_index = d.output_index /\ g.d.output_index \in Nat
    <3>1. /\ g.d \in DecoderRecord /\ SameButInput(g.d, d) /\ After(P, LookaheadBits) = Cursor(g.d, e)
          /\ g.bits = Field(Y, P, LookaheadBits) /\ g.bits \in Nat /\ Draws(g.d, Y, e)
      BY <2>1 DEF Took, Draws
    <3> QED BY <3>1 DEF SameButInput, DecoderRecord
  <2>3. Takes(d, o, LookaheadBits, AfterCount) = [d |-> x, o |-> o] BY <1>1, <1>7
  <2>4. /\ x \in DecoderRecord /\ x.input = g.d.input /\ x.input_index = g.d.input_index
        /\ x.bit_index = g.d.bit_index /\ x.current_byte = g.d.current_byte
        /\ x.head_index = g.d.head_index /\ x.window = g.d.window
        /\ x.state = "yield_backref"
        /\ x.output_index = d.output_index /\ x.output_count = g.bits + 1
    <3> DEFINE v == g.bits + 1
    <3>1. v \in Nat BY <2>2
    <3>2. x = [g.d EXCEPT !.output_count = v, !.state = "yield_backref"] BY DEF AfterCount
    <3> HIDE DEF v, x
    <3>3. /\ x \in DecoderRecord /\ x.input = g.d.input /\ x.input_index = g.d.input_index
          /\ x.bit_index = g.d.bit_index /\ x.current_byte = g.d.current_byte
          /\ x.head_index = g.d.head_index /\ x.window = g.d.window
          /\ x.state = "yield_backref" /\ x.output_count = v /\ x.output_index = g.d.output_index
      BY <2>2, <3>1, <3>2 DEF DecoderRecord, DecoderStates
    <3> QED BY <2>2, <3>3 DEF v
  <2> HIDE DEF x, t, u, A, P
  <2>7. x.state # d.state BY <2>4
  <2>8. Place(x, Y, T, src, Cursor(g.d, e), n, i)
    <3>1. P = IndexEnd(A) /\ n = t.from BY <1>3 DEF ReadsCount, A, t, P
    <3> DEFINE E == After(IndexEnd(A), LookaheadBits)
    <3>2. Cursor(g.d, e) = E BY <2>2, <3>1
    <3>3. i < Len(T)
      <4> SUFFICES ASSUME ~(i < Len(T)) PROVE FALSE OBVIOUS
      <4>1. i = Len(T) BY <1>2, WholeIs
      <4>2. t.at \in Pos /\ t.at.c = Len(Y) BY <4>1, <1>2, WholeIs DEF t
      <4>3. E.c <= Len(Y)
        <5>1. Cursor(g.d, e).c = e /\ e \in Nat /\ e + Len(g.d.input) <= Len(Y) /\ Len(g.d.input) \in Nat
          BY <1>2, <2>2, DrawsIs
        <5> QED BY <1>2, <3>2, <5>1
      <4> HIDE DEF E
      <4>4. E.c > t.at.c BY <4>2, ReferenceIsLong DEF A, E
      <4>5. E.c \in Nat /\ Len(Y) \in Nat
        <5>1. Cursor(g.d, e).c = e BY <1>2, <2>2, DrawsIs
        <5> QED BY <1>2, <3>2, <5>1
      <4> QED BY <4>2, <4>3, <4>4, <4>5
    <3>4. PICK dist \in 1 .. Window, len \in 1 .. Lookahead :
                 Refers(Y, src, t, u, dist, len) /\ d.output_index = dist
      BY <1>3, <3>3 DEF ReadsCount, t, u
    <3>5. Field(Y, IndexEnd(A), LookaheadBits) = len - 1 /\ u = [at |-> E, from |-> t.from + len]
      BY <3>4 DEF Refers, A
    <3> HIDE DEF E
    <3>6. u.at = E /\ u.from = t.from + len BY <3>5
    <3>7. g.bits = len - 1 BY <2>2, <3>1, <3>5
    <3>8. x.output_count = len /\ x.output_index = dist /\ x.output_count \in 1 .. len
      <4>1. len \in Nat /\ len >= 1 /\ (len - 1) + 1 = len OBVIOUS
      <4> QED BY <2>4, <3>4, <3>7, <4>1
    <3>9. n + x.output_count = u.from BY <3>1, <3>6, <3>8
    <3>10. Copying(x, Y, src, E, n, t, u, i < Len(T)) BY <2>4, <3>3, <3>4, <3>6, <3>8, <3>9 DEF Copying
    <3> QED BY <3>2, <3>10 DEF Place, t, u
  <2> QED BY <2>1, <2>3, <2>4, <2>7, <2>8, TakenReads
<1> QED BY <1>5, <1>6, <1>7

\* EXCEPT within a record of a decoder and an output.
LEMMA WithState ==
    ASSUME NEW a \in DecoderRecord, NEW o, NEW y, y = [d |-> a, o |-> o], NEW v
    PROVE  [y EXCEPT !.d.state = v] = [d |-> [a EXCEPT !.state = v], o |-> o]
OBVIOUS

LEMMA ByteReads ==
    ASSUME NEW T, NEW Y, NEW src, Whole(T, Y, src), NEW d, NEW o \in Seq(Byte), Len(o) < MaxLen,
           MaxLen \in Nat,
           NEW c, NEW n, NEW i, ReadsAt(d, Y, T, src, c, n, i), d.state = "yield_literal"
    PROVE  /\ ReadsOn(DYieldLiteral(d, o), d, o, Y, T, src, c, n)
           /\ SameReference(DYieldLiteral(d, o).d, d)
<1> DEFINE g == GetBits(d, ByteBits)
           t == T[i]
           u == T[i + 1]
           P == Cursor(d, c)
           y == Yield([d |-> g.d, o |-> o], g.bits)
           x == [y.d EXCEPT !.state = "tag_bit"]
           s == [d |-> x, o |-> y.o]
<1>1. /\ Draws(d, Y, c) /\ P \in Pos /\ i \in 1 .. Len(T) /\ Y \in Seq(Byte) /\ src \in Seq(Byte)
      /\ n \in Nat /\ Ring(d, src, n) /\ Place(d, Y, T, src, P, n, i)
  BY ReadingIs
<1>2. ReadsByte(d, Y, src, P, n, t, u, i < Len(T))
  BY <1>1 DEF Place, ReadsTag, ReadsMsb, ReadsLsb, ReadsCount, Copying
<1>3. ByteBits \in 1 .. ByteBits BY WidthsAre
<1>4. DYieldLiteral(d, o) = IF g.bits = NoBits THEN [d |-> d, o |-> o]
                            ELSE [y EXCEPT !.d.state = "tag_bit"]
  BY DEF DYieldLiteral
<1> HIDE DEF g
<1>5. \/ g.bits = NoBits /\ Lacks(d, ByteBits)
      \/ g.bits # NoBits /\ \E e \in Nat : Took(g, d, Y, c, ByteBits, e)
  BY <1>1, <1>3, GetBitsIs DEF g
<1>6. CASE g.bits = NoBits /\ Lacks(d, ByteBits)
  <2>1. Starved(d) BY <1>6 DEF Starved
  <2>2. DYieldLiteral(d, o) = [d |-> d, o |-> o] BY <1>4, <1>6
  <2>3. Len(o) <= MaxLen OBVIOUS
  <2>4. SameReference(d, d)
    <3>1. d.output_count \in Nat BY <1>1, DrawsIs
    <3> QED BY <3>1 DEF SameReference
  <2> QED BY <2>1, <2>2, <2>3, <2>4, StuckReads
<1>7. CASE g.bits # NoBits /\ \E e \in Nat : Took(g, d, Y, c, ByteBits, e)
  <2>1. PICK e \in Nat : Took(g, d, Y, c, ByteBits, e) BY <1>7
  <2>2. /\ g.d \in DecoderRecord /\ SameButInput(g.d, d) /\ After(P, ByteBits) = Cursor(g.d, e)
        /\ g.bits = Field(Y, P, ByteBits) /\ Draws(g.d, Y, e)
        /\ e + Len(g.d.input) = c + Len(d.input)
        /\ g.d.input_index + Len(g.d.input) <= d.input_index + Len(d.input)
    BY <2>1 DEF Took, Draws
  <2> HIDE DEF t, u, P, x, y, s
  <2>3. /\ P = After(t.at, 1) /\ n = t.from /\ i < Len(T) /\ n + 1 <= Len(src)
        /\ Field(Y, P, ByteBits) = Nth(src, n + 1)
        /\ u = [at |-> After(P, ByteBits), from |-> n + 1]
    BY <1>2 DEF ReadsByte, Literal
  <2>4. g.bits = src[n + 1]
    <3>1. n + 1 \in 1 .. Len(src) BY <1>1, <2>3
    <3> QED BY <2>2, <2>3, <3>1 DEF Nth
  <2>5. Ring(g.d, src, n) BY <1>1, <2>2 DEF Ring, SameButInput
  <2>6. Yielded(y, g.d, o, src, n) BY <1>1, <2>2, <2>3, <2>4, <2>5, YieldIs DEF y
  <2>7. /\ y = [d |-> y.d, o |-> y.o] /\ y.d \in DecoderRecord /\ SameButWindow(y.d, g.d)
        /\ Ring(y.d, src, n + 1) /\ y.o = Append(o, src[n + 1])
    BY <2>6 DEF Yielded
  <2>8. DYieldLiteral(d, o) = s
    <3>1. [y EXCEPT !.d.state = "tag_bit"] = s BY <2>7, WithState DEF s, x
    <3> QED BY <1>4, <1>7, <3>1
  <2>9. /\ x \in DecoderRecord /\ x.input = g.d.input /\ x.input_index = g.d.input_index
        /\ x.bit_index = g.d.bit_index /\ x.current_byte = g.d.current_byte
        /\ x.head_index = y.d.head_index /\ x.window = y.d.window /\ x.state = "tag_bit"
    BY <2>7 DEF x, DecoderRecord, DecoderStates, SameButWindow
  <2>10. Draws(x, Y, e) BY <2>2, <2>9 DEF Draws
  <2>11. Ring(x, src, n + 1) BY <2>7, <2>9 DEF Ring
  <2>12. Cursor(x, e) = Cursor(g.d, e) BY <2>9 DEF Cursor
  <2>13. u.at = Cursor(x, e) /\ u.from = n + 1 BY <2>2, <2>3, <2>12
  <2>14. ReadsTag(x, Cursor(x, e), n + 1, u) BY <2>9, <2>13 DEF ReadsTag
  <2>15. Place(x, Y, T, src, Cursor(x, e), n + 1, i + 1) BY <2>14 DEF Place, u
  <2>16. i + 1 \in 1 .. Len(T) BY <1>1, <2>3, WholeIs
  <2>17. n + 1 \in Nat BY <1>1
  <2>18. ReadsAt(x, Y, T, src, e, n + 1, i + 1)
    BY <2>3, <2>10, <2>11, <2>15, <2>16, <2>17 DEF ReadsAt
  <2>19. Emitted(y.o, o, src, n, n + 1)
    <3>1. Emitted(o, o, src, n, n) /\ src[n + 1] \in Byte
      <4>1. n + 1 \in 1 .. Len(src) /\ n <= Len(src) BY <1>1, <2>3
      <4> QED BY <1>1, <4>1, EmittedNone
    <3> QED BY <1>1, <2>3, <2>7, <3>1, EmittedMore
  <2>20. Len(y.o) <= MaxLen
    <3>1. Len(y.o) = Len(o) + 1 /\ Len(o) \in Nat BY <2>7
    <3> QED BY <3>1
  <2>21. s.d = x /\ s.o = y.o BY DEF s
  <2>22. s.d.state # d.state BY <2>9, <2>21
  <2>23. ReadsOn(s, d, o, Y, T, src, c, n)
    BY <2>2, <2>9, <2>18, <2>19, <2>20, <2>21, <2>22 DEF ReadsOn
  <2>24. SameReference(x, d)
    <3>1. x.output_count = y.d.output_count /\ x.output_index = y.d.output_index
      BY <2>7 DEF x, DecoderRecord
    <3>2. y.d.output_count = d.output_count /\ y.d.output_index = d.output_index
      BY <2>2, <2>7 DEF SameButWindow, SameButInput
    <3>3. d.output_count \in Nat BY <1>1, DrawsIs
    <3> QED BY <2>9, <3>1, <3>2, <3>3 DEF SameReference
  <2> QED BY <2>8, <2>21, <2>23, <2>24
<1> QED BY <1>5, <1>6, <1>7

LEMMA BackrefReads ==
    ASSUME NEW T, NEW Y, NEW src, Whole(T, Y, src), NEW d, NEW o \in Seq(Byte), Len(o) < MaxLen,
           MaxLen \in Nat,
           NEW c, NEW n, NEW i, ReadsAt(d, Y, T, src, c, n, i), d.state = "yield_backref"
    PROVE  /\ ReadsOn(YieldBackref(d, o), d, o, Y, T, src, c, n)
           /\ SameReference(YieldBackref(d, o).d, d)
<1> DEFINE t == T[i]
           u == T[i + 1]
           P == Cursor(d, c)
           room == MaxLen - Len(o)
           count == IF d.output_count < room THEN d.output_count ELSE room
           y == Copies([d |-> d, o |-> o], count)
           left == d.output_count - count
           state == IF d.output_count = count THEN "tag_bit" ELSE "yield_backref"
           x == [y.d EXCEPT !.output_count = left, !.state = state]
           s == [d |-> x, o |-> y.o]
<1>1. /\ Draws(d, Y, c) /\ P \in Pos /\ i \in 1 .. Len(T) /\ Y \in Seq(Byte) /\ src \in Seq(Byte)
      /\ n \in Nat /\ Ring(d, src, n) /\ Place(d, Y, T, src, P, n, i) /\ d \in DecoderRecord
  BY ReadingIs
<1>2. Copying(d, Y, src, P, n, t, u, i < Len(T))
  BY <1>1 DEF Place, ReadsTag, ReadsByte, ReadsMsb, ReadsLsb, ReadsCount
<1>3. PICK dist \in 1 .. Window, len \in 1 .. Lookahead :
             /\ Refers(Y, src, t, u, dist, len)
             /\ d.output_index = dist /\ d.output_count \in 1 .. len
  BY <1>2 DEF Copying
<1>4. P = u.at /\ i < Len(T) /\ n + d.output_count = u.from BY <1>2 DEF Copying
<1>5. Repeats(src, t.from, dist, len) /\ u.from = t.from + len /\ t.from \in Nat
  <2>1. Repeats(src, t.from, dist, len) /\ u.from = t.from + len BY <1>3 DEF Refers
  <2> QED BY <1>1, <2>1, WholeIs
<1> DEFINE oc == d.output_count
<1>6. YieldBackref(d, o) = [d |-> [y.d EXCEPT !.output_count = @ - count,
                                              !.state = IF d.output_count = count THEN "tag_bit" ELSE @],
                            o |-> y.o]
  BY Zenon DEF YieldBackref
<1>7. /\ count \in Nat /\ count >= 1 /\ count <= oc /\ count <= room /\ oc \in 1 .. len /\ oc \in Nat
      /\ left \in Nat /\ left = oc - count /\ (oc # count => count = room) /\ room = MaxLen - Len(o)
      /\ Len(o) \in Nat /\ n + oc = t.from + len /\ t.from + len <= Len(src) /\ oc = count + left
  <2>1. oc \in 1 .. len /\ Len(o) \in Nat /\ len \in Nat BY <1>3, BitsAre
  <2>2. t.from + len <= Len(src) BY <1>5 DEF Repeats
  <2>3. n + oc = t.from + len BY <1>4, <1>5
  <2>4. room \in Nat /\ room >= 1 BY <2>1
  <2> HIDE DEF room, oc
  <2>5. count = IF oc < room THEN oc ELSE room BY DEF oc
  <2>6. left = oc - count BY DEF oc
  <2> HIDE DEF count, left
  <2>7. room = MaxLen - Len(o) BY DEF room
  <2> QED BY <2>1, <2>2, <2>3, <2>4, <2>5, <2>6, <2>7
<1> HIDE DEF room, count, left, oc, y, x, s, P, t, u
<1>8. \A k \in 1 .. count : Nth(src, n + k) = Nth(src, (n + k) - d.output_index)
  <2> SUFFICES ASSUME NEW k \in 1 .. count
               PROVE  Nth(src, n + k) = Nth(src, (n + k) - d.output_index)
    OBVIOUS
  <2> DEFINE j == (len - oc) + k
  <2>1. j \in 1 .. len /\ t.from + j = n + k
    <3> DEFINE from == t.from
    <3>1. from \in Nat /\ n + oc = from + len BY <1>5, <1>7
    <3>2. count \in Nat /\ oc \in Nat /\ count <= oc /\ oc <= len /\ len \in Nat BY <1>7, BitsAre
    <3> HIDE DEF from
    <3>3. j \in 1 .. len /\ from + j = n + k BY <1>1, <3>1, <3>2
    <3> QED BY <3>3 DEF from
  <2>2. Nth(src, t.from + j) = Nth(src, (t.from + j) - dist) BY <1>5, <2>1 DEF Repeats
  <2> QED BY <1>3, <2>1, <2>2
<1>9. n + count <= Len(src) BY <1>1, <1>7
<1>10. YieldedTo(y, d, o, src, n, n + count) BY <1>1, <1>3, <1>7, <1>8, <1>9, CopiesIs DEF y
<1>11. /\ y = [d |-> y.d, o |-> y.o] /\ y.d \in DecoderRecord /\ SameButWindow(y.d, d)
       /\ Ring(y.d, src, n + count) /\ Emitted(y.o, o, src, n, n + count)
  BY <1>10 DEF YieldedTo
<1>12. y.d.output_count = oc /\ y.d.state = "yield_backref" BY <1>11 DEF SameButWindow, oc
<1>13. YieldBackref(d, o) = s
  <2>1. [y.d EXCEPT !.output_count = @ - count, !.state = IF d.output_count = count THEN "tag_bit" ELSE @]
        = [y.d EXCEPT !.output_count = y.d.output_count - count,
                      !.state = IF d.output_count = count THEN "tag_bit" ELSE y.d.state]
    BY <1>11 DEF DecoderRecord
  <2>2. y.d.output_count - count = left BY <1>12 DEF left, oc
  <2> QED BY <1>6, <1>12, <2>1, <2>2 DEF s, x
<1>14. state \in DecoderStates /\ (state = "tag_bit" <=> oc = count) /\ (state = "yield_backref" <=> oc # count)
  BY DEF DecoderStates, oc
<1> HIDE DEF state
<1>15. /\ x \in DecoderRecord /\ x.input = d.input /\ x.input_index = d.input_index
       /\ x.bit_index = d.bit_index /\ x.current_byte = d.current_byte
       /\ x.head_index = y.d.head_index /\ x.window = y.d.window /\ x.state = state
       /\ x.output_count = left /\ x.output_index = dist
  BY <1>3, <1>7, <1>11, <1>14 DEF x, DecoderRecord, SameButWindow
<1>16. Draws(x, Y, c) BY <1>1, <1>15 DEF Draws
<1>17. Ring(x, src, n + count) BY <1>11, <1>15 DEF Ring
<1>18. Cursor(x, c) = P BY <1>15 DEF Cursor, P
<1>19. n + count \in Nat BY <1>1, <1>7
<1>20. \E j : ReadsAt(x, Y, T, src, c, n + count, j)
  <2>1. CASE oc = count
    <3>1. n + count = u.from BY <1>4, <2>1 DEF oc
    <3>2. ReadsTag(x, P, n + count, u) BY <1>4, <1>14, <1>15, <2>1, <3>1 DEF ReadsTag
    <3>3. Place(x, Y, T, src, Cursor(x, c), n + count, i + 1) BY <1>18, <3>2 DEF Place, u
    <3>4. i + 1 \in 1 .. Len(T) BY <1>1, <1>4, WholeIs
    <3> QED BY <1>9, <1>16, <1>17, <1>19, <3>3, <3>4 DEF ReadsAt
  <2>2. CASE oc # count
    <3>1. (n + count) + left = u.from BY <1>1, <1>4, <1>7 DEF oc
    <3>2. left \in 1 .. len BY <1>7, <2>2
    <3>3. Copying(x, Y, src, P, n + count, t, u, i < Len(T))
      BY <1>3, <1>4, <1>14, <1>15, <2>2, <3>1, <3>2 DEF Copying
    <3>4. Place(x, Y, T, src, Cursor(x, c), n + count, i) BY <1>18, <3>3 DEF Place, t, u
    <3> QED BY <1>1, <1>9, <1>16, <1>17, <1>19, <3>4 DEF ReadsAt
  <2> QED BY <2>1, <2>2
<1>21. Len(y.o) = Len(o) + count
  <2>1. Len(y.o) = Len(o) + ((n + count) - n) BY <1>11 DEF Emitted
  <2> QED BY <1>1, <1>7, <2>1
<1>22. Len(y.o) <= MaxLen /\ (oc # count => ~(Len(y.o) < MaxLen)) BY <1>7, <1>21
<1>23. s.d = x /\ s.o = y.o BY DEF s
<1>24. ~(s.d.state = d.state /\ Len(s.o) < MaxLen) BY <1>14, <1>15, <1>22, <1>23
<1>25. c + Len(x.input) = c + Len(d.input) /\ x.input_index + Len(x.input) <= d.input_index + Len(d.input)
  <2>1. d.input_index \in Nat /\ Len(d.input) \in Nat BY <1>1, DrawsIs
  <2> QED BY <1>15, <2>1
<1>26. ReadsOn(s, d, o, Y, T, src, c, n)
  BY <1>11, <1>20, <1>22, <1>23, <1>24, <1>25 DEF ReadsOn
<1>27. SameReference(x, d)
  <2>1. left <= d.output_count
    <3>1. left \in Nat /\ count \in Nat /\ d.output_count = count + left BY <1>7 DEF oc
    <3> QED BY <3>1
  <2> QED BY <1>3, <1>14, <1>15, <2>1 DEF SameReference
<1> QED BY <1>13, <1>23, <1>26, <1>27

LEMMA DecoderStepReads ==
    ASSUME NEW T, NEW Y, NEW src, Whole(T, Y, src), NEW d, NEW o \in Seq(Byte), Len(o) <= MaxLen,
           NEW c, NEW n, NEW i, ReadsAt(d, Y, T, src, c, n, i)
    PROVE  ReadsOn(DecoderStep(d, o), d, o, Y, T, src, c, n)
<1>1. MaxLen \in Nat /\ Len(o) \in Nat BY SizesAssumption
<1>2. d.state \in DecoderStates BY ReadingIs, DrawsIs
<1>3. CASE d.state = "tag_bit"
  <2>1. DecoderStep(d, o) = Takes(d, o, 1, AfterTag) BY <1>3 DEF DecoderStep
  <2> QED BY <1>3, <2>1, TagReads
<1>4. CASE d.state = "backref_index_msb"
  <2>1. DecoderStep(d, o) = Takes(d, o, WindowBits - ByteBits, AfterMsb) BY <1>4 DEF DecoderStep
  <2> QED BY <1>4, <2>1, MsbReads
<1>5. CASE d.state = "backref_index_lsb"
  <2>1. DecoderStep(d, o) = Takes(d, o, LowBits, AfterLsb) BY <1>5 DEF DecoderStep, LowBits
  <2> QED BY <1>5, <2>1, LsbReads
<1>6. CASE d.state = "backref_count_lsb"
  <2>1. DecoderStep(d, o) = Takes(d, o, LookaheadBits, AfterCount) BY <1>6 DEF DecoderStep
  <2> QED BY <1>6, <2>1, CountReads
<1>7. CASE d.state = "yield_literal" /\ Len(o) < MaxLen
  <2>1. DecoderStep(d, o) = DYieldLiteral(d, o) BY <1>7 DEF DecoderStep
  <2> QED BY <1>1, <1>7, <2>1, ByteReads
<1>8. CASE d.state = "yield_backref" /\ Len(o) < MaxLen
  <2>1. DecoderStep(d, o) = YieldBackref(d, o) BY <1>8 DEF DecoderStep
  <2> QED BY <1>1, <1>8, <2>1, BackrefReads
<1>9. CASE d.state \in {"yield_literal", "yield_backref"} /\ ~(Len(o) < MaxLen)
  <2>1. DecoderStep(d, o) = [d |-> d, o |-> o] BY <1>9 DEF DecoderStep
  <2> QED BY <1>9, <2>1, StuckReads
<1> QED BY <1>2, <1>3, <1>4, <1>5, <1>6, <1>7, <1>8, <1>9 DEF DecoderStates

-----------------------------------------------------------------------------
(* What compressStep() has written, and what it holds, is its source.      *)

LEMMA EncoderResetIs ==
    /\ EncoderReset \in Encoder /\ EncoderReset.input_size = 0 /\ EncoderReset.match_scan_index = 0
    /\ EncoderReset.state = "not_full" /\ EncoderReset.current_byte = 0 /\ EncoderReset.bit_index = 0
    /\ \A i \in 0 .. Window - 1 : EncoderReset.buffer[i] = 0
<1>1. Window \in Nat /\ Window >= 1 /\ Lookahead \in Nat BY BitsAre
<1>2. ByteBits \in Nat /\ ByteBits >= 1 /\ WindowBits \in Nat BY BitsAre
<1>3. 0 \in Byte
  <2>1. Pow2[ByteBits] \in Nat /\ Pow2[ByteBits] >= 1 BY <1>2, Pow2Type
  <2>2. 0 \in Nat /\ 0 < Pow2[ByteBits] BY <2>1
  <2> QED BY <2>2, ByteIs
<1> DEFINE buf == [i \in 0 .. 2 * Window - 1 |-> 0]
<1>4. buf \in [0 .. 2 * Window - 1 -> Byte] /\ \A i \in 0 .. Window - 1 : buf[i] = 0 BY <1>1, <1>3
<1> HIDE DEF buf
<1>5. EncoderReset =
        [buffer |-> buf, input_size |-> 0, match_scan_index |-> 0,
         state |-> "not_full", finishing |-> FALSE, match_pos |-> 0, match_length |-> 0,
         outgoing |-> 0, count |-> 0, current_byte |-> 0, bit_index |-> 0]
  BY DEF EncoderReset, buf
<1>6. EncoderReset \in Encoder
  BY <1>1, <1>2, <1>3, <1>4, <1>5 DEF Encoder, EncoderStates
<1> QED BY <1>4, <1>5, <1>6

LEMMA InitCompressing == HsInit => Compressing
<1> SUFFICES ASSUME HsInit PROVE Compressing OBVIOUS
<1> DEFINE t == [at |-> [c |-> 0, b |-> 0], from |-> 0]
           T == <<t>>
           e == EncoderReset
           Y == Stream(<<>>, e, <<>>)
<1>1. /\ source = <<>> /\ out = <<>> /\ file = <<>> /\ enc = e /\ caller = [at |-> "read", left |-> <<>>]
  BY DEF HsInit
<1>2. CallerFits BY <1>1 DEF CallerFits, Callers, Feeding
<1>3. <<>> \in Seq(Byte) /\ Len(<<>>) = 0 OBVIOUS
<1>4. ByteBits \in Nat /\ ByteBits >= 1 /\ Window \in Nat BY BitsAre
<1>5. t \in Mark /\ t.at \in Pos /\ t.from = 0 /\ t.at = [c |-> 0, b |-> 0] BY <1>4 DEF Mark, Pos
<1>6. T \in Seq(Mark) /\ Len(T) = 1 /\ T[1] = t /\ T[Len(T)] = t BY <1>5
<1>7. Tokens(T, Y, <<>>)
  <2>1. Len(Y) \in Nat /\ 0 <= Len(Y)
    <3>1. Y \in Seq(Byte) BY <1>3, EncoderResetIs, StreamType
    <3> QED BY <3>1
  <2> HIDE DEF Y, t, T
  <2>2. t.at.c = 0 BY <1>5
  <2>3. UpTo(t.at, t.at) BY <1>5, UpToSelf
  <2>4. T[1] = [at |-> [c |-> 0, b |-> 0], from |-> 0] BY <1>6 DEF t
  <2>5. \A i \in 1 .. Len(T) - 1 : FALSE BY <1>6
  <2>6. \A i \in 1 .. Len(T) : i = 1 BY <1>6
  <2> QED BY <1>3, <1>5, <1>6, <2>1, <2>2, <2>3, <2>4, <2>5, <2>6 DEF Tokens
<1>8. Tip(<<>>, e, <<>>) = t.at
  <2>1. <<>> \o <<>> = <<>> OBVIOUS
  <2> QED BY <2>1, EncoderResetIs DEF Tip, Ends
<1>9. AtToken(e, 0, t.at, t) BY <1>5, EncoderResetIs DEF AtToken, Between
<1>10. Buffered(e, <<>>, 0)
  <2>1. ASSUME NEW i \in 0 .. Window + 0 - 1
        PROVE  e.buffer[i] = Nth(<<>>, (0 - Window) + i + 1)
    <3>1. i \in 0 .. Window - 1 BY <1>4
    <3>2. Nth(<<>>, (0 - Window) + i + 1) = 0 BY <1>3 DEF Nth
    <3> QED BY <3>1, <3>2, EncoderResetIs
  <2>2. e.input_size = 0 /\ e.match_scan_index = 0 BY EncoderResetIs
  <2> HIDE DEF e
  <2> QED BY <1>3, <2>1, <2>2 DEF Buffered
<1>11. Progress(e, Y, <<>>, 0, Tip(<<>>, e, <<>>), T[Len(T)]) BY <1>6, <1>8, <1>9 DEF Progress
<1>12. Coded(e, <<>>, <<>>, <<>>, 0, T) BY <1>3, <1>7, <1>10, <1>11, EncoderResetIs DEF Coded
<1>13. Left(<<>>, <<>>, 0 + e.input_size) BY <1>3, EncoderResetIs DEF Left
<1>14. Holds(e, <<>>, <<>>, <<>>, <<>>)
  <2> HIDE DEF T, e
  <2>1. 0 \in Nat OBVIOUS
  <2> QED BY <1>12, <1>13, <2>1 DEF Holds
<1> QED BY <1>1, <1>2, <1>14 DEF Compressing

LEMMA LeftNone ==
    ASSUME NEW src \in Seq(Byte), NEW from \in Nat
    PROVE  Left(<<>>, src, from) <=> Len(src) = from
BY DEF Left

LEMMA HoldsIs ==
    ASSUME NEW e, NEW o, NEW f, NEW src, NEW left, Holds(e, o, f, src, left)
    PROVE  /\ e \in Encoder /\ o \in Seq(Byte) /\ f \in Seq(Byte) /\ src \in Seq(Byte)
           /\ left \in Seq(Byte) /\ e.input_size \in Nat
<1>1. /\ e \in Encoder /\ o \in Seq(Byte) /\ f \in Seq(Byte) /\ src \in Seq(Byte)
      /\ left \in Seq(Byte)
  BY DEF Holds, Coded, Left
<1>2. e.input_size \in 0 .. Window /\ Window \in Nat BY <1>1, EncoderIs, BitsAre
<1> QED BY <1>1, <1>2

LEMMA ReadSourceHolds ==
    ASSUME NEW e, NEW o, NEW f, NEW src, Holds(e, o, f, src, <<>>), e.state = "not_full",
           NEW bytes \in Seq(Byte)
    PROVE  Holds(e, o, f, src \o bytes, bytes)
<1>1. PICK base, T : base \in Nat /\ Coded(e, o, f, src, base, T) /\ Left(<<>>, src, base + e.input_size)
  BY DEF Holds
<1>2. Coded(e, o, f, src \o bytes, base, T) BY <1>1, GrownCoded
<1>3. src \in Seq(Byte) /\ e.input_size \in Nat BY HoldsIs
<1>4. Len(src) = base + e.input_size
  <2>1. base + e.input_size \in Nat BY <1>1, <1>3
  <2> QED BY <1>1, <1>3, <2>1, LeftNone
<1>5. Left(bytes, src \o bytes, base + e.input_size)
  <2>1. Len(src \o bytes) = Len(src) + Len(bytes)
        /\ \A i \in 1 .. Len(bytes) : (src \o bytes)[Len(src) + i] = bytes[i]
    BY <1>3
  <2> QED BY <1>4, <2>1 DEF Left
<1> QED BY <1>1, <1>2, <1>5 DEF Holds

LEMMA SinkHolds ==
    ASSUME NEW e, NEW o, NEW f, NEW src, NEW left, Holds(e, o, f, src, left), e.state = "not_full"
    PROVE  Holds(Sink(e, left).e, o, f, src, SubSeq(left, Sink(e, left).sunk + 1, Len(left)))
<1>1. PICK base, T : base \in Nat /\ Coded(e, o, f, src, base, T) /\ Left(left, src, base + e.input_size)
  BY DEF Holds
<1> QED BY <1>1, SunkCoded DEF Holds

LEMMA FinishHolds ==
    ASSUME NEW e, NEW o, NEW f, NEW src, NEW left, Holds(e, o, f, src, left)
    PROVE  LET d == [e EXCEPT !.finishing = TRUE, !.state = IF @ = "not_full" THEN "filled" ELSE @]
           IN  Holds(d, o, f, src, left) /\ (e.state = "done" => d.state = "done")
<1> DEFINE d == [e EXCEPT !.finishing = TRUE, !.state = IF @ = "not_full" THEN "filled" ELSE @]
<1>1. PICK base, T : base \in Nat /\ Coded(e, o, f, src, base, T) /\ Left(left, src, base + e.input_size)
  BY DEF Holds
<1>2. e \in Encoder BY HoldsIs
<1>3. d \in Encoder /\ FinishOf(d, e) BY <1>2, FinishedIs
<1> HIDE DEF d
<1>5. e.state = "done" => d.state = "done" BY <1>3 DEF FinishOf
<1>6. Coded(d, o, f, src, base, T) /\ d.input_size = e.input_size BY <1>1, <1>3, FinishedCoded
<1>4. Holds(d, o, f, src, left) BY <1>1, <1>6 DEF Holds
<1> QED BY <1>4, <1>5 DEF d

LEMMA StepHolds ==
    ASSUME NEW e, NEW o, NEW f, NEW src, NEW left, Holds(e, o, f, src, left)
    PROVE  Holds(EncoderStep(e, o).e, EncoderStep(e, o).o, f, src, left)
<1> DEFINE s == EncoderStep(e, o)
<1>1. PICK base, T : base \in Nat /\ Coded(e, o, f, src, base, T) /\ Left(left, src, base + e.input_size)
  BY DEF Holds
<1>2. Advances(s, e, f, src, base) BY <1>1, EncoderStepCodes
<1> HIDE DEF s
<1>3. PICK b, U : b \in Nat /\ Coded(s.e, s.o, f, src, b, U) /\ b + s.e.input_size = base + e.input_size
  BY <1>2 DEF Advances
<1>4. Holds(s.e, s.o, f, src, left) BY <1>1, <1>3 DEF Holds
<1> QED BY <1>4 DEF s

LEMMA PolledHolds ==
    ASSUME NEW e, NEW o, NEW f, NEW src, NEW left, Holds(e, o, f, src, left)
    PROVE  Holds(e, <<>>, f \o o, src, left)
<1>1. PICK base, T : base \in Nat /\ Coded(e, o, f, src, base, T) /\ Left(left, src, base + e.input_size)
  BY DEF Holds
<1> QED BY <1>1, PolledCoded DEF Holds

LEMMA CompressCompressing == HsInv /\ Compressing /\ Compress => Compressing'
<1> SUFFICES ASSUME HsInv, Compressing, Compress PROVE Compressing'
  OBVIOUS
<1>1. CallerFits /\ Holds(enc, out, file, source, caller.left) BY DEF Compressing
<1>2. /\ caller \in Callers /\ caller.left \in Seq(Byte)
      /\ caller.at \in {"read", "poll", "finish", "poll_rest", "done"}
      /\ caller.at \in {"read", "finish", "done"} => out = <<>>
      /\ caller.at \notin Feeding => caller.left = <<>>
      /\ caller.at = "done" => enc.state = "done"
  BY <1>1 DEF CallerFits, Callers
<1>3. caller.at = "read" => enc.state = "not_full" BY DEF HsInv
<1>4. CASE ReadSource
  <2>1. caller.at = "read" /\ caller.left = <<>> /\ out = <<>> BY <1>2, <1>4 DEF ReadSource
  <2>2. enc' = enc /\ out' = out /\ file' = file BY <1>4 DEF ReadSource
  <2>3. CASE caller' = [caller EXCEPT !.at = "finish"] /\ UNCHANGED source
    <3>1. caller' \in Callers /\ caller'.at = "finish" /\ caller'.left = <<>>
      BY <1>2, <2>1, <2>3 DEF Callers
    <3>2. CallerFits' BY <2>1, <2>2, <3>1 DEF CallerFits
    <3> QED BY <1>1, <2>1, <2>2, <2>3, <3>1, <3>2 DEF Compressing
  <2>4. CASE \E n \in 1 .. ChunkSize : \E bytes \in [1 .. n -> Alphabet] :
               source' = source \o bytes /\ caller' = [caller EXCEPT !.left = bytes]
    <3>5. PICK n \in 1 .. ChunkSize : \E bytes \in [1 .. n -> Alphabet] :
                 source' = source \o bytes /\ caller' = [caller EXCEPT !.left = bytes]
      BY <2>4
    <3>1. PICK bytes \in [1 .. n -> Alphabet] :
                 source' = source \o bytes /\ caller' = [caller EXCEPT !.left = bytes]
      BY <3>5
    <3>2. bytes \in Seq(Byte)
      <4>1. n \in Nat /\ Alphabet \subseteq Byte BY SizesAssumption
      <4>2. bytes \in Seq(Alphabet) BY <4>1
      <4> QED BY <4>1, <4>2
    <3>3. caller' \in Callers /\ caller'.at = "read" /\ caller'.left = bytes
      BY <1>2, <2>1, <3>1, <3>2 DEF Callers
    <3>4. CallerFits' BY <2>1, <2>2, <3>3 DEF CallerFits, Feeding
    <3>6. Holds(enc, out, file, source \o bytes, bytes)
      BY <1>1, <1>3, <2>1, <3>2, ReadSourceHolds
    <3> QED BY <2>2, <3>1, <3>3, <3>4, <3>6 DEF Compressing
  <2> QED BY <1>4, <2>3, <2>4 DEF ReadSource
<1>5. CASE SinkChunk
  <2> DEFINE s == Sink(enc, caller.left)
             rest == SubSeq(caller.left, s.sunk + 1, Len(caller.left))
  <2>1. /\ caller.at = "read" /\ enc' = s.e /\ caller' = [at |-> "poll", left |-> rest]
        /\ source' = source /\ out' = out /\ file' = file
    BY <1>5 DEF SinkChunk
  <2>2. Holds(s.e, out, file, source, rest) BY <1>1, <1>3, <2>1, SinkHolds
  <2> HIDE DEF s, rest
  <2>3. rest \in Seq(Byte) BY <2>2, HoldsIs
  <2>4. CallerFits' BY <2>1, <2>3 DEF CallerFits, Callers, Feeding
  <2> QED BY <2>1, <2>2, <2>4 DEF Compressing
<1>6. CASE Finish
  <2> DEFINE d == [enc EXCEPT !.finishing = TRUE, !.state = IF @ = "not_full" THEN "filled" ELSE @]
  <2>1. /\ caller.at = "finish" /\ enc' = d
        /\ caller' = [caller EXCEPT !.at = IF enc.state = "done" THEN "done" ELSE "poll_rest"]
        /\ source' = source /\ out' = out /\ file' = file
    BY <1>6 DEF Finish
  <2>2. Holds(d, out, file, source, caller.left) /\ (enc.state = "done" => d.state = "done")
    BY <1>1, FinishHolds
  <2> HIDE DEF d
  <2>3. /\ caller' \in Callers /\ caller'.left = caller.left
        /\ caller'.at = (IF enc.state = "done" THEN "done" ELSE "poll_rest")
    BY <1>2, <2>1 DEF Callers
  <2>4. caller.left = <<>> /\ out = <<>> BY <1>2, <2>1 DEF Feeding
  <2>5. CallerFits' BY <2>1, <2>2, <2>3, <2>4 DEF CallerFits
  <2> QED BY <2>1, <2>2, <2>3, <2>5 DEF Compressing
<1>7. CASE PollStep
  <2>1. /\ enc' = EncoderStep(enc, out).e /\ out' = EncoderStep(enc, out).o
        /\ caller' = caller /\ source' = source /\ file' = file
        /\ caller.at \in {"poll", "poll_rest"}
    BY <1>7 DEF PollStep, Polling
  <2>2. Holds(enc', out', file, source, caller.left) BY <1>1, <2>1, StepHolds
  <2>3. CallerFits' BY <1>2, <2>1 DEF CallerFits
  <2> QED BY <2>1, <2>2, <2>3 DEF Compressing
<1>8. CASE PollReturns
  <2>1. /\ file' = file \o out /\ out' = <<>> /\ caller' = AfterPoll
        /\ source' = source /\ enc' = enc /\ caller.at \in {"poll", "poll_rest"}
    BY <1>8 DEF PollReturns, Polling
  <2>2. Holds(enc, <<>>, file \o out, source, caller.left) BY <1>1, PolledHolds
  <2>3. /\ caller' \in Callers /\ caller'.left = caller.left
        /\ \/ caller'.at = caller.at
           \/ caller'.at = "read" /\ caller.at = "poll"
           \/ caller'.at = "finish" /\ caller.at = "poll_rest"
    BY <1>2, <2>1 DEF AfterPoll, Callers
  <2>4. CallerFits' BY <1>2, <2>1, <2>3 DEF CallerFits, Feeding
  <2> QED BY <2>1, <2>2, <2>3, <2>4 DEF Compressing
<1> QED BY <1>4, <1>5, <1>6, <1>7, <1>8 DEF Compress

-----------------------------------------------------------------------------
(* What CompressedLogReader::read() has served is the source.              *)

LEMMA ServesMore ==
    ASSUME NEW g, NEW o, NEW src, NEW n, Serves(g, o, src, n), NEW o2, NEW m, Emitted(o2, o, src, n, m)
    PROVE  Serves(g, o2, src, m)
<1>1. /\ g \in Seq(Byte) /\ o \in Seq(Byte) /\ n \in Nat /\ Len(g \o o) = n
      /\ \A k \in 1 .. n : (g \o o)[k] = src[k]
  BY DEF Serves
<1>2. /\ o2 \in Seq(Byte) /\ m \in Nat /\ n <= m /\ m <= Len(src) /\ Len(o2) = Len(o) + (m - n)
      /\ \A k \in 1 .. Len(o) : o2[k] = o[k]
      /\ \A k \in 1 .. m - n : o2[Len(o) + k] = src[n + k]
  BY DEF Emitted
<1> DEFINE a == Len(g)
           b == Len(o)
<1>3. a \in Nat /\ b \in Nat /\ n = a + b BY <1>1
<1>4. Len(o2) = b + (m - n) /\ Len(o2) \in Nat BY <1>2
<1>5. Len(g \o o2) = m
  <2>1. Len(g \o o2) = a + Len(o2)
    <3>1. g \in Seq(Byte) /\ o2 \in Seq(Byte) BY <1>1, <1>2
    <3> QED BY <3>1
  <2> HIDE DEF a, b
  <2> QED BY <1>2, <1>3, <1>4, <2>1
<1>6. ASSUME NEW k \in 1 .. m PROVE (g \o o2)[k] = src[k]
  <2>1. (g \o o2)[k] = IF k <= a THEN g[k] ELSE o2[k - a]
    <3>1. k \in 1 .. a + Len(o2)
      <4> HIDE DEF a, b
      <4> QED BY <1>2, <1>3, <1>4
    <3> QED BY <1>1, <1>2, <3>1
  <2>2. k \in 1 .. n => (g \o o)[k] = IF k <= a THEN g[k] ELSE o[k - a]
    <3> SUFFICES ASSUME k \in 1 .. n PROVE (g \o o)[k] = IF k <= a THEN g[k] ELSE o[k - a]
      OBVIOUS
    <3>1. k \in 1 .. a + b BY <1>3
    <3> QED BY <1>1, <3>1
  <2> HIDE DEF a, b
  <2>3. CASE k <= a
    <3>1. k \in 1 .. n BY <1>3, <2>3
    <3> QED BY <1>1, <2>1, <2>2, <2>3, <3>1
  <2>4. CASE ~(k <= a) /\ k <= n
    <3>1. k \in 1 .. n /\ k - a \in 1 .. Len(o) BY <1>3, <2>4 DEF b
    <3> QED BY <1>1, <1>2, <2>1, <2>2, <2>4, <3>1
  <2>5. CASE ~(k <= n)
    <3>1. ~(k <= a) /\ k - n \in 1 .. m - n /\ k - a = b + (k - n) /\ n + (k - n) = k
      BY <1>2, <1>3, <2>5
    <3>2. o2[b + (k - n)] = src[n + (k - n)] BY <1>2, <3>1 DEF b
    <3> QED BY <2>1, <3>1, <3>2
  <2> QED BY <1>3, <2>3, <2>4, <2>5
<1> QED BY <1>1, <1>2, <1>5, <1>6 DEF Serves

LEMMA ServesAll ==
    ASSUME NEW g, NEW o, NEW src, NEW n, Serves(g, o, src, n)
    PROVE  Serves(g \o o, <<>>, src, n)
<1>1. g \in Seq(Byte) /\ o \in Seq(Byte) /\ n \in Nat BY DEF Serves
<1>2. g \o o \in Seq(Byte) /\ (g \o o) \o <<>> = g \o o BY <1>1
<1> QED BY <1>1, <1>2 DEF Serves

LEMMA ReaderFields ==
    ASSUME NEW r \in LogReader
    PROVE  /\ r.on \in BOOLEAN /\ r.polling \in BOOLEAN /\ r.buf \in Seq(Byte) /\ r.inBuf \in Seq(Byte)
           /\ r.pos \in Nat /\ r.inputDone \in BOOLEAN /\ r.finished \in BOOLEAN /\ r.torn \in 0 .. MaxTorn
           /\ Len(r.inBuf) \in Nat /\ Len(r.buf) \in Nat
BY DEF LogReader

LEMMA ServingIs ==
    ASSUME NEW r, NEW d, NEW f, NEW g, NEW src, Serving(r, d, f, g, src)
    PROVE  r \in LogReader /\ r.on /\ Len(r.buf) <= MaxLen /\ r.buf \in Seq(Byte)
           /\ (~r.polling /\ ~r.finished => Starved(d))
BY ReaderFields DEF Serving, Waits

LEMMA OpenServes ==
    ASSUME NEW T, NEW f, NEW src, Whole(T, f, src), NEW k \in 0 .. MaxTorn, k <= Len(f),
           NEW r \in LogReader, r.on, r.polling, ~r.finished, r.buf = <<>>, r.inBuf = <<>>, r.pos = 0,
           ~r.inputDone, r.torn = k
    PROVE  Serving(r, DecoderReset, SubSeq(f, 1, Len(f) - k), <<>>, src)
<1> DEFINE d == DecoderReset
           Y == f
           z == SubSeq(f, 1, Len(f) - k)
           ring == [j \in 0 .. Window - 1 |-> 0]
<1>1. f \in Seq(Byte) /\ src \in Seq(Byte) /\ Tokens(T, f, src) BY DEF Whole, Complete
<1>2. Window \in Nat /\ Window >= 1 /\ ByteBits \in Nat /\ ByteBits >= 1 BY BitsAre
<1>3. 0 \in Byte
  <2>1. Pow2[ByteBits] \in Nat /\ Pow2[ByteBits] >= 1 BY <1>2, Pow2Type
  <2>2. 0 \in Nat /\ 0 < Pow2[ByteBits] BY <2>1
  <2> QED BY <2>2, ByteIs
<1>4. ring \in [0 .. Window - 1 -> Byte] /\ \A j \in 0 .. Window - 1 : ring[j] = 0 BY <1>3
<1> HIDE DEF ring
<1>5. d = [input |-> <<>>, input_index |-> 0, state |-> "tag_bit", bit_index |-> 0, current_byte |-> 0,
           output_count |-> 0, output_index |-> 0, head_index |-> 0, window |-> ring]
  BY DEF DecoderReset, ring
<1>6. /\ d \in DecoderRecord /\ d.input = <<>> /\ d.input_index = 0 /\ d.state = "tag_bit"
      /\ d.bit_index = 0 /\ d.current_byte = 0 /\ d.head_index = 0 /\ d.window = ring
  BY <1>2, <1>3, <1>4, <1>5 DEF DecoderRecord, DecoderStates
<1> HIDE DEF d
<1>7. Draws(d, f, 0) BY <1>1, <1>6 DEF Draws, At
<1>8. Ring(d, src, 0)
  <2> SUFFICES ASSUME NEW j \in 1 .. Window PROVE ring[(0 - j) % Window] = Nth(src, (0 + 1) - j)
    BY <1>6 DEF Ring
  <2>1. (0 - j) % Window = IF 0 >= j THEN 0 - j ELSE (0 - j) + Window
    <3>1. 0 \in 0 .. Window - 1 BY <1>2
    <3> QED BY <1>2, <3>1, WrapIs
  <2>2. (0 - j) % Window \in 0 .. Window - 1 BY <1>2, <2>1
  <2>3. Nth(src, (0 + 1) - j) = 0 BY DEF Nth
  <2> QED BY <1>4, <2>2, <2>3
<1>9. 1 \in 1 .. Len(T) /\ T[1] = [at |-> [c |-> 0, b |-> 0], from |-> 0]
  <2>1. Len(T) \in Nat /\ Len(T) >= 1 BY <1>1, LastMark
  <2>2. T[1] = [at |-> [c |-> 0, b |-> 0], from |-> 0] BY <1>1 DEF Tokens
  <2> QED BY <2>1, <2>2
<1>10. Place(d, f, T, src, Cursor(d, 0), 0, 1)
  <2>1. Cursor(d, 0) = T[1].at /\ 0 = T[1].from BY <1>6, <1>9 DEF Cursor
  <2>2. ReadsTag(d, Cursor(d, 0), 0, T[1]) BY <1>6, <2>1 DEF ReadsTag
  <2> QED BY <2>2 DEF Place
<1>11. ReadsAt(d, f, T, src, 0, 0, 1) BY <1>1, <1>7, <1>8, <1>9, <1>10 DEF ReadsAt
<1>12. z \in Seq(Byte) /\ Len(z) = Len(f) - k /\ \A j \in 1 .. Len(z) : z[j] = f[j]
  <2>1. k \in Nat /\ Len(f) \in Nat /\ Len(f) - k \in 0 .. Len(f) BY <1>1, SizesAssumption
  <2> QED BY <1>1, <2>1
<1> HIDE DEF z
<1>13. Supplied(r, d, z, f, 0)
  <2>1. Len(f) \in Nat /\ k \in Nat /\ InputBuffer \in Nat BY <1>1, SizesAssumption
  <2>2. Len(d.input) = 0 /\ Len(r.inBuf) = 0 /\ r.pos = 0 BY <1>6
  <2>3. Len(z) <= Len(f) /\ (k = 0 => Len(z) = Len(f)) /\ 0 <= Len(z) BY <1>12, <2>1
  <2> QED BY <1>6, <1>12, <2>1, <2>2, <2>3 DEF Supplied
<1>14. Serves(<<>>, r.buf, src, 0)
  <2>1. <<>> \o <<>> = <<>> /\ Len(<<>>) = 0 OBVIOUS
  <2> QED BY <1>1, <2>1 DEF Serves
<1>15. Waits(r, d, src, 0)
  <2>1. Len(r.buf) = 0 /\ MaxLen \in Nat BY SizesAssumption
  <2> QED BY <2>1 DEF Waits
<1>16. Serving(r, d, z, <<>>, src) BY <1>11, <1>13, <1>14, <1>15 DEF Serving
<1> QED BY <1>16 DEF d, z

LEMMA DecodeServes ==
    ASSUME NEW r, NEW d, NEW f, NEW g, NEW src, Serving(r, d, f, g, src), r.polling,
           NEW s, s = DecoderStep(d, r.buf)
    PROVE  /\ s.o \in Seq(Byte) /\ Len(s.o) <= MaxLen
           /\ Serving([r EXCEPT !.buf = s.o], s.d, f, g, src)
           /\ Serving([r EXCEPT !.buf = <<>>], s.d, f, g \o s.o, src)
           /\ s.d.state = d.state /\ Len(s.o) < MaxLen =>
                Serving([r EXCEPT !.buf = s.o, !.polling = FALSE], s.d, f, g, src)
<1>1. PICK Y, T, c, n, i :
             /\ Whole(T, Y, src) /\ ReadsAt(d, Y, T, src, c, n, i)
             /\ Supplied(r, d, f, Y, c) /\ Serves(g, r.buf, src, n) /\ Waits(r, d, src, n)
  BY DEF Serving
<1>2. r \in LogReader /\ r.on /\ Len(r.buf) <= MaxLen /\ ~r.finished BY <1>1 DEF Waits
<1>3. r.buf \in Seq(Byte) BY <1>2, ReaderFields
<1>4. ReadsOn(s, d, r.buf, Y, T, src, c, n) BY <1>1, <1>2, <1>3, DecoderStepReads
<1>5. PICK e, m, j : /\ ReadsAt(s.d, Y, T, src, e, m, j) /\ Emitted(s.o, r.buf, src, n, m)
                     /\ e + Len(s.d.input) = c + Len(d.input)
  BY <1>4 DEF ReadsOn
<1>6. /\ s.d.input_index + Len(s.d.input) <= d.input_index + Len(d.input)
      /\ Len(s.o) <= MaxLen
      /\ s.d.state = d.state /\ Len(s.o) < MaxLen => Starved(s.d)
  BY <1>4 DEF ReadsOn
<1>7. s.o \in Seq(Byte) BY <1>5 DEF Emitted
<1>8. Serves(g, s.o, src, m) BY <1>1, <1>5, ServesMore
<1>9. Serves(g \o s.o, <<>>, src, m) BY <1>8, ServesAll
<1>10. ASSUME NEW q \in LogReader, q.pos = r.pos, q.inBuf = r.inBuf, q.torn = r.torn, q.inputDone = r.inputDone
       PROVE  Supplied(q, s.d, f, Y, e)
  <2>1. Y \in Seq(Byte) /\ src \in Seq(Byte) BY <1>1 DEF Whole
  <2>2. Draws(d, Y, c) /\ Draws(s.d, Y, e) BY <1>1, <1>5 DEF ReadsAt
  <2>3. /\ d.input_index \in Nat /\ Len(d.input) \in Nat
        /\ s.d.input_index \in Nat /\ Len(s.d.input) \in Nat
    BY <2>1, <2>2, DrawsIs
  <2>4. InputBuffer \in Nat BY SizesAssumption
  <2>5. d.input_index + Len(d.input) <= InputBuffer BY <1>1 DEF Supplied
  <2>6. s.d.input_index + Len(s.d.input) <= InputBuffer
    <3> DEFINE a == d.input_index + Len(d.input)
               b == s.d.input_index + Len(s.d.input)
    <3>1. a \in Nat /\ b \in Nat /\ b <= a /\ a <= InputBuffer BY <1>6, <2>3, <2>5
    <3> HIDE DEF a, b
    <3>2. b <= InputBuffer BY <2>4, <3>1
    <3> QED BY <3>2 DEF b
  <2>7. /\ f \in Seq(Byte) /\ Len(f) <= Len(Y) /\ \A k \in 1 .. Len(f) : f[k] = Y[k]
        /\ q.torn = 0 => Len(f) = Len(Y)
        /\ q.pos <= Len(f) /\ (c + Len(d.input)) + Len(q.inBuf) = q.pos
        /\ \A k \in 1 .. Len(q.inBuf) : q.inBuf[k] = f[(c + Len(d.input)) + k]
        /\ q.inputDone => q.pos = Len(f)
    BY <1>1, <1>10 DEF Supplied
  <2> DEFINE given == c + Len(d.input)
  <2>8. given = e + Len(s.d.input) BY <1>5
  <2> HIDE DEF given
  <2> QED BY <2>6, <2>7, <2>8 DEF Supplied, given
<1>11. Serving([r EXCEPT !.buf = s.o], s.d, f, g, src)
  <2> DEFINE q == [r EXCEPT !.buf = s.o]
  <2>1. /\ q \in LogReader /\ q.pos = r.pos /\ q.inBuf = r.inBuf /\ q.torn = r.torn
        /\ q.inputDone = r.inputDone /\ q.on /\ q.buf = s.o /\ q.polling /\ ~q.finished
    BY <1>2, <1>7 DEF LogReader
  <2> HIDE DEF q
  <2>2. Waits(q, s.d, src, m) BY <1>6, <2>1 DEF Waits
  <2>3. Supplied(q, s.d, f, Y, e) BY <1>10, <2>1
  <2>4. Serves(g, q.buf, src, m) BY <1>8, <2>1
  <2>5. Serving(q, s.d, f, g, src) BY <1>1, <1>5, <2>2, <2>3, <2>4 DEF Serving
  <2> QED BY <2>5 DEF q
<1>12. Serving([r EXCEPT !.buf = <<>>], s.d, f, g \o s.o, src)
  <2> DEFINE q == [r EXCEPT !.buf = <<>>]
  <2>1. /\ q \in LogReader /\ q.pos = r.pos /\ q.inBuf = r.inBuf /\ q.torn = r.torn
        /\ q.inputDone = r.inputDone /\ q.on /\ q.buf = <<>> /\ q.polling /\ ~q.finished
    <3>1. <<>> \in Seq(Byte) OBVIOUS
    <3> DEFINE none == <<>>
    <3>2. none \in Seq(Byte) BY <3>1
    <3> HIDE DEF none
    <3>3. LET x == [r EXCEPT !.buf = none]
          IN  /\ x \in LogReader /\ x.pos = r.pos /\ x.inBuf = r.inBuf /\ x.torn = r.torn
              /\ x.inputDone = r.inputDone /\ x.on /\ x.buf = none /\ x.polling /\ ~x.finished
      BY <1>2, <3>2 DEF LogReader
    <3> QED BY <3>3 DEF none
  <2> HIDE DEF q
  <2>2. Len(q.buf) = 0 /\ MaxLen \in Nat BY <2>1, SizesAssumption
  <2>3. Waits(q, s.d, src, m) BY <2>1, <2>2 DEF Waits
  <2>4. Supplied(q, s.d, f, Y, e) BY <1>10, <2>1
  <2>5. Serves(g \o s.o, q.buf, src, m) BY <1>9, <2>1
  <2>6. Serving(q, s.d, f, g \o s.o, src) BY <1>1, <1>5, <2>3, <2>4, <2>5 DEF Serving
  <2> QED BY <2>6 DEF q
<1>13. ASSUME s.d.state = d.state /\ Len(s.o) < MaxLen
       PROVE  Serving([r EXCEPT !.buf = s.o, !.polling = FALSE], s.d, f, g, src)
  <2> DEFINE q == [r EXCEPT !.buf = s.o, !.polling = FALSE]
  <2>1. /\ q \in LogReader /\ q.pos = r.pos /\ q.inBuf = r.inBuf /\ q.torn = r.torn
        /\ q.inputDone = r.inputDone /\ q.on /\ q.buf = s.o /\ ~q.polling /\ ~q.finished
    BY <1>2, <1>7 DEF LogReader
  <2> HIDE DEF q
  <2>2. Waits(q, s.d, src, m) BY <1>6, <1>13, <2>1 DEF Waits
  <2>3. Supplied(q, s.d, f, Y, e) BY <1>10, <2>1
  <2>4. Serves(g, q.buf, src, m) BY <1>8, <2>1
  <2>5. Serving(q, s.d, f, g, src) BY <1>1, <1>5, <2>2, <2>3, <2>4 DEF Serving
  <2> QED BY <2>5 DEF q
<1> QED BY <1>6, <1>7, <1>11, <1>12, <1>13

-----------------------------------------------------------------------------
(* The reader fills its buffer from the file, and the decoder from that.   *)

LEMMA PieceIs ==
    ASSUME NEW s \in Seq(Byte), NEW from \in Nat, NEW n \in Nat, from + n <= Len(s)
    PROVE  /\ SubSeq(s, from + 1, from + n) \in Seq(Byte) /\ Len(SubSeq(s, from + 1, from + n)) = n
           /\ \A k \in 1 .. n : SubSeq(s, from + 1, from + n)[k] = s[from + k]
<1>1. Len(s) \in Nat OBVIOUS
<1>2. (from + n) - (from + 1) + 1 = n /\ \A k \in 1 .. n : (from + 1) + k - 1 = from + k /\ from + k \in 1 .. Len(s)
  BY <1>1
<1> QED BY <1>1, <1>2

\* What there is room for is moved from b bytes to a.
LEMMA RoomIs ==
    ASSUME NEW all \in Nat, NEW x \in Nat, NEW a \in Nat, NEW b \in Nat, x + a <= all,
           NEW room, room = all - (x + a), NEW size, size = IF room < b THEN room ELSE b
    PROVE  size \in Nat /\ size <= b /\ x + (a + size) <= all
OBVIOUS

LEMMA MovedPlaces ==
    ASSUME NEW c \in Nat, NEW a \in Nat, NEW b \in Nat, NEW size \in Nat, NEW pos \in Nat,
           NEW all \in Nat, NEW whole \in Nat, (c + a) + b = pos, pos <= all, all <= whole, size <= b
    PROVE  MovedAt(c, a, b, size, pos, all, whole)
BY DEF MovedAt

\* The place depends on these fields alone.
LEMMA PlaceSame ==
    ASSUME NEW d, NEW e, e.state = d.state, e.output_index = d.output_index,
           e.output_count = d.output_count,
           NEW Y, NEW T, NEW src, NEW P, NEW n, NEW i, Place(d, Y, T, src, P, n, i)
    PROVE  Place(e, Y, T, src, P, n, i)
<1> DEFINE t == T[i]
           u == T[i + 1]
           more == i < Len(T)
<1>1. \/ ReadsTag(d, P, n, t) \/ ReadsByte(d, Y, src, P, n, t, u, more)
      \/ ReadsMsb(d, Y, src, P, n, t, u, more) \/ ReadsLsb(d, Y, src, P, n, t, u, more)
      \/ ReadsCount(d, Y, src, P, n, t, u, more) \/ Copying(d, Y, src, P, n, t, u, more)
  BY DEF Place
<1> HIDE DEF t, u, more
<1>2. CASE ReadsTag(d, P, n, t)
  <2>1. ReadsTag(e, P, n, t) BY <1>2 DEF ReadsTag
  <2> QED BY <2>1 DEF Place, t
<1>3. CASE ReadsByte(d, Y, src, P, n, t, u, more)
  <2>1. ReadsByte(e, Y, src, P, n, t, u, more) BY <1>3 DEF ReadsByte
  <2> QED BY <2>1 DEF Place, t, u, more
<1>4. CASE ReadsMsb(d, Y, src, P, n, t, u, more)
  <2>1. ReadsMsb(e, Y, src, P, n, t, u, more) BY <1>4 DEF ReadsMsb
  <2> QED BY <2>1 DEF Place, t, u, more
<1>5. CASE ReadsLsb(d, Y, src, P, n, t, u, more)
  <2>1. ReadsLsb(e, Y, src, P, n, t, u, more) BY <1>5 DEF ReadsLsb
  <2> QED BY <2>1 DEF Place, t, u, more
<1>6. CASE ReadsCount(d, Y, src, P, n, t, u, more)
  <2>1. ReadsCount(e, Y, src, P, n, t, u, more) BY <1>6 DEF ReadsCount
  <2> QED BY <2>1 DEF Place, t, u, more
<1>7. CASE Copying(d, Y, src, P, n, t, u, more)
  <2>1. Copying(e, Y, src, P, n, t, u, more) BY <1>7 DEF Copying
  <2> QED BY <2>1 DEF Place, t, u, more
<1> QED BY <1>1, <1>2, <1>3, <1>4, <1>5, <1>6, <1>7

LEMMA RefillServes ==
    ASSUME NEW r, NEW d, NEW f, NEW g, NEW src, Serving(r, d, f, g, src), ~r.polling, ~r.finished,
           r.inBuf = <<>>
    PROVE  LET n == IF Len(f) - r.pos < InChunk THEN Len(f) - r.pos ELSE InChunk
           IN  IF n = 0 THEN Serving([r EXCEPT !.inputDone = TRUE, !.polling = TRUE], d, f, g, src)
               ELSE ~r.inputDone => Serving([r EXCEPT !.inBuf = SubSeq(f, r.pos + 1, r.pos + n), !.pos = @ + n], d, f, g, src)
<1> DEFINE size == IF Len(f) - r.pos < InChunk THEN Len(f) - r.pos ELSE InChunk
           more == SubSeq(f, r.pos + 1, r.pos + size)
           next == r.pos + size
<1>1. PICK Y, T, c, n, i :
             /\ Whole(T, Y, src) /\ ReadsAt(d, Y, T, src, c, n, i)
             /\ Supplied(r, d, f, Y, c) /\ Serves(g, r.buf, src, n) /\ Waits(r, d, src, n)
  BY DEF Serving
<1>2. r \in LogReader /\ r.on /\ Len(r.buf) <= MaxLen /\ Starved(d) BY <1>1 DEF Waits
<1>3. /\ f \in Seq(Byte) /\ Len(f) <= Len(Y) /\ \A k \in 1 .. Len(f) : f[k] = Y[k]
      /\ r.torn = 0 => Len(f) = Len(Y)
      /\ r.pos <= Len(f) /\ (c + Len(d.input)) + Len(r.inBuf) = r.pos
      /\ r.inputDone => r.pos = Len(f)
      /\ d.input_index + Len(d.input) <= InputBuffer
  BY <1>1 DEF Supplied
<1>4. r.pos \in Nat /\ Len(f) \in Nat /\ InChunk \in Nat /\ InChunk >= 1
  BY <1>2, <1>3, SizesAssumption, ReaderFields
<1>5. size \in Nat /\ next \in Nat /\ next <= Len(f) /\ (size = 0 => r.pos = Len(f)) /\ next = r.pos + size
  BY <1>3, <1>4
<1>6. c \in Nat /\ Len(d.input) \in Nat
  <2>1. Y \in Seq(Byte) /\ Draws(d, Y, c) BY <1>1 DEF Whole, ReadsAt
  <2> QED BY <2>1, DrawsIs
<1>7. c + Len(d.input) = r.pos
  <2>1. Len(r.inBuf) = 0 OBVIOUS
  <2> QED BY <1>3, <1>6, <2>1
<1> HIDE DEF size
<1>8. CASE size = 0
  <2> DEFINE q == [r EXCEPT !.inputDone = TRUE, !.polling = TRUE]
  <2>1. /\ q \in LogReader /\ q.on /\ q.polling /\ ~q.finished /\ q.buf = r.buf /\ q.inBuf = r.inBuf
        /\ q.pos = r.pos /\ q.torn = r.torn /\ q.inputDone
    BY <1>2 DEF LogReader
  <2> HIDE DEF q
  <2>2. Supplied(q, d, f, Y, c) BY <1>1, <1>5, <1>8, <2>1 DEF Supplied
  <2>3. Waits(q, d, src, n) BY <1>2, <2>1 DEF Waits
  <2>4. Serving(q, d, f, g, src) BY <1>1, <2>1, <2>2, <2>3 DEF Serving
  <2> QED BY <1>8, <2>4 DEF q, size
<1>9. CASE size # 0 /\ ~r.inputDone
  <2>1. more \in Seq(Byte) /\ Len(more) = size /\ \A k \in 1 .. size : more[k] = f[r.pos + k]
    <3>1. r.pos + size <= Len(f) BY <1>5
    <3> QED BY <1>3, <1>4, <1>5, <3>1, PieceIs
  <2> DEFINE q == [r EXCEPT !.inBuf = more, !.pos = next]
  <2>2. [r EXCEPT !.inBuf = SubSeq(f, r.pos + 1, r.pos + size), !.pos = @ + size] = q
    BY <1>2 DEF LogReader
  <2> HIDE DEF more, next
  <2>3. /\ q \in LogReader /\ q.on /\ ~q.polling /\ ~q.finished /\ q.buf = r.buf /\ q.inBuf = more
        /\ q.pos = next /\ q.torn = r.torn /\ ~q.inputDone
    BY <1>2, <1>5, <1>9, <2>1 DEF LogReader
  <2> HIDE DEF q
  <2>4. (c + Len(d.input)) + Len(q.inBuf) = q.pos BY <1>5, <1>7, <2>1, <2>3
  <2>5. \A k \in 1 .. Len(q.inBuf) : q.inBuf[k] = f[(c + Len(d.input)) + k] BY <1>7, <2>1, <2>3
  <2>6. Supplied(q, d, f, Y, c) BY <1>3, <1>5, <2>3, <2>4, <2>5 DEF Supplied
  <2>7. Waits(q, d, src, n) BY <1>2, <2>3 DEF Waits
  <2>8. Serves(g, q.buf, src, n) BY <1>1, <2>3
  <2>9. Serving(q, d, f, g, src) BY <1>1, <2>6, <2>7, <2>8 DEF Serving
  <2> QED BY <1>9, <2>2, <2>9 DEF size
<1>10. CASE size # 0 /\ r.inputDone BY <1>10 DEF size
<1> QED BY <1>8, <1>9, <1>10

LEMMA SinkInputServes ==
    ASSUME NEW r, NEW d, NEW f, NEW g, NEW src, Serving(r, d, f, g, src), ~r.polling, ~r.finished,
           NEW room, room = InputBuffer - (d.input_index + Len(d.input)),
           NEW size, size = IF room < Len(r.inBuf) THEN room ELSE Len(r.inBuf)
    PROVE  Serving([r EXCEPT !.inBuf = SubSeq(@, size + 1, Len(@)), !.polling = TRUE],
                   [d EXCEPT !.input = @ \o SubSeq(r.inBuf, 1, size)], f, g, src)
<1> DEFINE taken == SubSeq(r.inBuf, 1, size)
           rest == SubSeq(r.inBuf, size + 1, Len(r.inBuf))
           in == d.input \o taken
           e == [d EXCEPT !.input = in]
           q == [r EXCEPT !.inBuf = rest, !.polling = TRUE]
           a == Len(d.input)
           b == Len(r.inBuf)
<1>1. PICK Y, T, c, n, i :
             /\ Whole(T, Y, src) /\ ReadsAt(d, Y, T, src, c, n, i)
             /\ Supplied(r, d, f, Y, c) /\ Serves(g, r.buf, src, n) /\ Waits(r, d, src, n)
  BY DEF Serving
<1>2. r \in LogReader /\ r.on /\ Len(r.buf) <= MaxLen BY <1>1 DEF Waits
<1>3. /\ f \in Seq(Byte) /\ Len(f) <= Len(Y) /\ \A k \in 1 .. Len(f) : f[k] = Y[k]
      /\ r.torn = 0 => Len(f) = Len(Y)
      /\ r.pos <= Len(f) /\ (c + a) + b = r.pos
      /\ \A k \in 1 .. b : r.inBuf[k] = f[(c + a) + k]
      /\ r.inputDone => r.pos = Len(f)
      /\ d.input_index + a <= InputBuffer
  BY <1>1 DEF Supplied
<1>4. /\ Y \in Seq(Byte) /\ Draws(d, Y, c) /\ Ring(d, src, n) /\ n \in Nat /\ n <= Len(src)
      /\ i \in 1 .. Len(T) /\ Place(d, Y, T, src, Cursor(d, c), n, i)
  BY <1>1 DEF Whole, ReadsAt
<1>5. /\ d \in DecoderRecord /\ c \in Nat /\ d.input \in Seq(Byte) /\ a \in Nat /\ d.input_index \in Nat
      /\ d.current_byte = At(Y, c) /\ r.inBuf \in Seq(Byte) /\ b \in Nat /\ r.pos \in Nat
      /\ Len(f) \in Nat /\ Len(Y) \in Nat /\ InputBuffer \in Nat
  <2>1. /\ d \in DecoderRecord /\ c \in Nat /\ d.input \in Seq(Byte) /\ Len(d.input) \in Nat
        /\ d.input_index \in Nat /\ d.current_byte = At(Y, c)
    BY <1>4, DrawsIs
  <2>2. r.inBuf \in Seq(Byte) /\ Len(r.inBuf) \in Nat /\ r.pos \in Nat BY <1>2, ReaderFields
  <2>3. Len(f) \in Nat /\ Len(Y) \in Nat /\ InputBuffer \in Nat BY <1>3, <1>4, SizesAssumption
  <2> QED BY <2>1, <2>2, <2>3
<1>6. \A k \in 1 .. a : d.input[k] = Y[c + k] BY <1>4 DEF Draws
<1>7. size \in Nat /\ size <= b /\ d.input_index + (a + size) <= InputBuffer
  <2> DEFINE x == d.input_index
  <2>1. room = InputBuffer - (x + a) /\ size = IF room < b THEN room ELSE b OBVIOUS
  <2>2. x \in Nat /\ x + a <= InputBuffer /\ a \in Nat /\ b \in Nat /\ InputBuffer \in Nat BY <1>3, <1>5
  <2> HIDE DEF x, a, b
  <2>3. size \in Nat /\ size <= b /\ x + (a + size) <= InputBuffer BY <2>1, <2>2, RoomIs
  <2> QED BY <2>3 DEF x
<1>8. /\ taken \in Seq(Byte) /\ Len(taken) = size /\ \A k \in 1 .. size : taken[k] = r.inBuf[k]
      /\ rest \in Seq(Byte) /\ Len(rest) = b - size /\ \A k \in 1 .. b - size : rest[k] = r.inBuf[size + k]
  <2>1. size \in Nat /\ size <= b /\ r.inBuf \in Seq(Byte) /\ b \in Nat BY <1>5, <1>7
  <2>2. taken \in Seq(Byte) /\ Len(taken) = size /\ \A k \in 1 .. size : taken[k] = r.inBuf[k] BY <2>1
  <2>3. rest \in Seq(Byte) /\ Len(rest) = b - size /\ \A k \in 1 .. b - size : rest[k] = r.inBuf[size + k] BY <2>1
  <2> QED BY <2>2, <2>3
<1>9. [r EXCEPT !.inBuf = SubSeq(@, size + 1, Len(@)), !.polling = TRUE] = q BY <1>2 DEF LogReader
<1>10. [d EXCEPT !.input = @ \o SubSeq(r.inBuf, 1, size)] = e BY <1>5 DEF DecoderRecord
<1> HIDE DEF taken, rest
<1>11. in \in Seq(Byte) /\ Len(in) = a + size
       /\ \A k \in 1 .. a + size : in[k] = IF k <= a THEN d.input[k] ELSE taken[k - a]
  <2>1. d.input \in Seq(Byte) /\ taken \in Seq(Byte) /\ Len(taken) = size BY <1>5, <1>8
  <2> QED BY <2>1
<1> HIDE DEF in
<1>12. /\ e \in DecoderRecord /\ e.input = in /\ e.input_index = d.input_index /\ e.state = d.state
       /\ e.bit_index = d.bit_index /\ e.current_byte = d.current_byte /\ e.output_count = d.output_count
       /\ e.output_index = d.output_index /\ e.head_index = d.head_index /\ e.window = d.window
  BY <1>5, <1>11 DEF DecoderRecord
<1>13. /\ q \in LogReader /\ q.on /\ q.polling /\ ~q.finished /\ q.buf = r.buf /\ q.inBuf = rest
       /\ q.pos = r.pos /\ q.torn = r.torn /\ q.inputDone = r.inputDone
  BY <1>2, <1>8 DEF LogReader
<1> HIDE DEF e, q, a, b
<1>27. MovedAt(c, a, b, size, r.pos, Len(f), Len(Y)) BY <1>3, <1>5, <1>7, MovedPlaces
<1>14. (c + (a + size)) + (b - size) = r.pos /\ c + (a + size) <= Len(f) /\ c + (a + size) <= Len(Y)
  BY <1>27 DEF MovedAt
<1>15. ASSUME NEW k \in 1 .. a + size PROVE in[k] = Y[c + k]
  <2>1. CASE k <= a
    <3>1. k \in 1 .. a BY <1>5, <2>1
    <3> QED BY <1>6, <1>11, <2>1, <3>1 DEF a
  <2>2. CASE ~(k <= a)
    <3>1. k - a \in 1 .. size /\ k - a \in 1 .. b /\ (c + a) + (k - a) = c + k /\ c + k \in 1 .. Len(f)
      BY <1>27, <2>2 DEF MovedAt
    <3>2. taken[k - a] = r.inBuf[k - a] BY <1>8, <3>1
    <3>3. r.inBuf[k - a] = f[(c + a) + (k - a)] BY <1>3, <3>1
    <3>4. f[c + k] = Y[c + k] BY <1>3, <3>1
    <3> QED BY <1>11, <2>2, <3>1, <3>2, <3>3, <3>4
  <2> QED BY <2>1, <2>2
<1>16. Draws(e, Y, c) BY <1>5, <1>11, <1>12, <1>14, <1>15 DEF Draws
<1>17. Cursor(e, c) = Cursor(d, c) BY <1>12 DEF Cursor
<1>18. Place(e, Y, T, src, Cursor(e, c), n, i) BY <1>4, <1>12, <1>17, PlaceSame
<1>19. Ring(e, src, n) BY <1>4, <1>12 DEF Ring
<1>20. ReadsAt(e, Y, T, src, c, n, i) BY <1>4, <1>16, <1>18, <1>19 DEF ReadsAt
<1>21. Len(e.input) = a + size /\ Len(q.inBuf) = b - size BY <1>8, <1>11, <1>12, <1>13
<1>22. ASSUME NEW k \in 1 .. b - size PROVE q.inBuf[k] = f[(c + (a + size)) + k]
  <2>1. size + k \in 1 .. b /\ (c + a) + (size + k) = (c + (a + size)) + k BY <1>27 DEF MovedAt
  <2>2. r.inBuf[size + k] = f[(c + a) + (size + k)] BY <1>3, <2>1
  <2> QED BY <1>8, <1>13, <2>1, <2>2
<1>23. Supplied(q, e, f, Y, c)
  <2>1. (c + Len(e.input)) + Len(q.inBuf) = q.pos BY <1>13, <1>14, <1>21
  <2>2. e.input_index + Len(e.input) <= InputBuffer BY <1>7, <1>12, <1>21
  <2>3. \A k \in 1 .. Len(q.inBuf) : q.inBuf[k] = f[(c + Len(e.input)) + k] BY <1>21, <1>22
  <2> QED BY <1>3, <1>13, <2>1, <2>2, <2>3 DEF Supplied
<1>24. Waits(q, e, src, n) BY <1>2, <1>13 DEF Waits
<1>25. Serves(g, q.buf, src, n) BY <1>1, <1>13
<1>26. Serving(q, e, f, g, src) BY <1>1, <1>20, <1>23, <1>24, <1>25 DEF Serving
<1> QED BY <1>9, <1>10, <1>26

-----------------------------------------------------------------------------
(* The end of the file.                                                    *)

\* Who is at the end of the stream, and lacks the bits of a part, is beyond the last token.
LEMMA NoMore ==
    ASSUME NEW d, NEW Y \in Seq(Byte), NEW c, Draws(d, Y, c), NEW w \in 1 .. ByteBits, Lacks(d, w),
           NEW Q \in Pos, Q.c = c, UpTo(After(Cursor(d, c), w), Q)
    PROVE  FALSE
<1> DEFINE P == Cursor(d, c)
<1>1. P \in Pos /\ P.c = c /\ P.b = d.bit_index /\ d.bit_index \in 0 .. ByteBits - 1 /\ c \in Nat BY DrawsIs
<1>2. w \in Nat /\ w <= ByteBits /\ ByteBits \in Nat BY ByteIs
<1> HIDE DEF P
<1>3. After(P, w).c = c + 1
  <2>1. After(P, w).c = IF w <= P.b THEN P.c ELSE P.c + 1 BY <1>1, <1>2, AfterType
  <2>2. ~(w <= P.b) BY <1>1, <1>2 DEF Lacks
  <2> QED BY <1>1, <2>1, <2>2
<1>4. UpTo(After(P, w), Q) BY DEF P
<1> QED BY <1>1, <1>3, <1>4 DEF UpTo

\* A decoder that waits at the end of the stream has read all of it.
LEMMA EndIsWhole ==
    ASSUME NEW T, NEW Y, NEW src, Whole(T, Y, src), NEW d, NEW n, NEW i,
           ReadsAt(d, Y, T, src, Len(Y), n, i), Starved(d)
    PROVE  n = Len(src)
<1> DEFINE c == Len(Y)
           P == Cursor(d, c)
           t == T[i]
           u == T[i + 1]
           E == T[Len(T)].at
           more == i < Len(T)
<1>1. /\ Draws(d, Y, c) /\ P \in Pos /\ n \in Nat /\ i \in 1 .. Len(T) /\ Y \in Seq(Byte)
      /\ Place(d, Y, T, src, P, n, i)
  BY ReadingIs
<1>2. /\ t \in Mark /\ t.at \in Pos /\ E \in Pos /\ E.c = c /\ T[Len(T)].from = Len(src) /\ Len(T) \in Nat
      /\ more => Token(Y, src, t, u) /\ UpTo(u.at, E) /\ u.at \in Pos
  BY <1>1, WholeIs
<1>3. /\ 1 \in 1 .. ByteBits /\ ByteBits \in 1 .. ByteBits /\ LowBits \in 1 .. ByteBits
      /\ LookaheadBits \in 1 .. ByteBits
      /\ WindowBits > ByteBits => WindowBits - ByteBits \in 1 .. ByteBits
  BY WidthsAre
<1>4. ASSUME NEW w \in 1 .. ByteBits, Lacks(d, w), more PROVE ~UpTo(After(P, w), u.at)
  <2>1. After(P, w) \in Pos
    <3>1. w \in Nat /\ w <= ByteBits BY ByteIs
    <3> QED BY <1>1, <3>1, AfterType
  <2>2. UpTo(After(P, w), u.at) => UpTo(After(P, w), E) BY <1>2, <1>4, <2>1, UpToTransitive
  <2>3. ~UpTo(After(P, w), E) BY <1>1, <1>2, <1>4, NoMore
  <2> QED BY <2>2, <2>3
<1>5. \/ ReadsTag(d, P, n, t) \/ ReadsByte(d, Y, src, P, n, t, u, more)
      \/ ReadsMsb(d, Y, src, P, n, t, u, more) \/ ReadsLsb(d, Y, src, P, n, t, u, more)
      \/ ReadsCount(d, Y, src, P, n, t, u, more) \/ Copying(d, Y, src, P, n, t, u, more)
  BY <1>1 DEF Place
<1>6. ~more => i = Len(T) BY <1>1, <1>2
<1>7. ~more /\ n = t.from => n = Len(src) BY <1>2, <1>6
<1> HIDE DEF P, t, u, E, more, c
<1>8. /\ UpTo(After(t.at, 1), After(After(t.at, 1), ByteBits))
      /\ UpTo(After(t.at, 1), After(IndexEnd(After(t.at, 1)), LookaheadBits))
      /\ UpTo(After(t.at, 1), Low(After(t.at, 1)))
      /\ UpTo(Low(After(t.at, 1)), IndexEnd(After(t.at, 1)))
      /\ UpTo(IndexEnd(After(t.at, 1)), After(IndexEnd(After(t.at, 1)), LookaheadBits))
      /\ After(t.at, 1) \in Pos /\ Low(After(t.at, 1)) \in Pos /\ IndexEnd(After(t.at, 1)) \in Pos
      /\ After(IndexEnd(After(t.at, 1)), LookaheadBits) \in Pos
  BY <1>2, TokenPlaces
<1>9. CASE ReadsTag(d, P, n, t)
  <2>1. Lacks(d, 1) /\ P = t.at /\ n = t.from BY <1>9 DEF Starved, ReadsTag
  <2>2. ~more
    <3> SUFFICES ASSUME more PROVE FALSE OBVIOUS
    <3>1. ~UpTo(After(t.at, 1), u.at) BY <1>3, <1>4, <2>1
    <3>2. \/ u.at = After(After(t.at, 1), ByteBits)
          \/ u.at = After(IndexEnd(After(t.at, 1)), LookaheadBits)
      BY <1>2 DEF Token, Literal, Refers
    <3> QED BY <1>8, <3>1, <3>2
  <2> QED BY <1>7, <2>1, <2>2
<1>10. CASE ReadsByte(d, Y, src, P, n, t, u, more)
  <2>1. /\ Lacks(d, ByteBits) /\ P = After(t.at, 1) /\ more /\ u.at = After(After(t.at, 1), ByteBits)
    BY <1>10 DEF Starved, ReadsByte, Literal
  <2>2. ~UpTo(After(P, ByteBits), u.at) BY <1>3, <1>4, <2>1
  <2>3. UpTo(u.at, u.at) BY <1>2, <2>1, UpToSelf
  <2> QED BY <2>1, <2>2, <2>3
<1>11. CASE ReadsMsb(d, Y, src, P, n, t, u, more)
  <2>1. /\ Lacks(d, WindowBits - ByteBits) /\ P = After(t.at, 1) /\ n = t.from /\ WindowBits > ByteBits
        /\ more => u.at = After(IndexEnd(After(t.at, 1)), LookaheadBits)
    BY <1>11 DEF Starved, ReadsMsb, Refers
  <2>2. ~more
    <3> SUFFICES ASSUME more PROVE FALSE OBVIOUS
    <3>1. ~UpTo(After(P, WindowBits - ByteBits), u.at) BY <1>3, <1>4, <2>1
    <3>2. After(P, WindowBits - ByteBits) = Low(After(t.at, 1)) BY <2>1 DEF Low
    <3>3. UpTo(Low(After(t.at, 1)), u.at) BY <1>8, <2>1, UpToTransitive
    <3> QED BY <3>1, <3>2, <3>3
  <2> QED BY <1>7, <2>1, <2>2
<1>12. CASE ReadsLsb(d, Y, src, P, n, t, u, more)
  <2>1. /\ Lacks(d, LowBits) /\ P = Low(After(t.at, 1)) /\ n = t.from
        /\ more => u.at = After(IndexEnd(After(t.at, 1)), LookaheadBits)
    BY <1>12 DEF Starved, ReadsLsb, Refers
  <2>2. ~more
    <3> SUFFICES ASSUME more PROVE FALSE OBVIOUS
    <3>1. ~UpTo(After(P, LowBits), u.at) BY <1>3, <1>4, <2>1
    <3>2. After(P, LowBits) = IndexEnd(After(t.at, 1)) BY <2>1 DEF IndexEnd
    <3> QED BY <1>8, <2>1, <3>1, <3>2
  <2> QED BY <1>7, <2>1, <2>2
<1>13. CASE ReadsCount(d, Y, src, P, n, t, u, more)
  <2>1. /\ Lacks(d, LookaheadBits) /\ P = IndexEnd(After(t.at, 1)) /\ n = t.from
        /\ more => u.at = After(IndexEnd(After(t.at, 1)), LookaheadBits)
    BY <1>13 DEF Starved, ReadsCount, Refers
  <2>2. ~more
    <3> SUFFICES ASSUME more PROVE FALSE OBVIOUS
    <3>1. ~UpTo(After(P, LookaheadBits), u.at) BY <1>3, <1>4, <2>1
    <3>2. UpTo(u.at, u.at) BY <1>8, <2>1, UpToSelf
    <3> QED BY <2>1, <3>1, <3>2
  <2> QED BY <1>7, <2>1, <2>2
<1>14. CASE Copying(d, Y, src, P, n, t, u, more) BY <1>14 DEF Copying, Starved
<1> QED BY <1>5, <1>9, <1>10, <1>11, <1>12, <1>13, <1>14

\* read() has come to the end of the file: it is done, or lets the decoder go on.
LEMMA EndServes ==
    ASSUME NEW r, NEW d, NEW f, NEW g, NEW src, Serving(r, d, f, g, src), ~r.polling, ~r.finished,
           r.inBuf = <<>>, r.inputDone
    PROVE  /\ FinishDone(d) => Serving([[r EXCEPT !.finished = TRUE] EXCEPT !.buf = <<>>], d, f, g \o r.buf, src)
           /\ Serving([r EXCEPT !.polling = TRUE], d, f, g, src)
<1>1. PICK Y, T, c, n, i :
             /\ Whole(T, Y, src) /\ ReadsAt(d, Y, T, src, c, n, i)
             /\ Supplied(r, d, f, Y, c) /\ Serves(g, r.buf, src, n) /\ Waits(r, d, src, n)
  BY DEF Serving
<1>2. r \in LogReader /\ r.on /\ Len(r.buf) <= MaxLen /\ Starved(d) BY <1>1 DEF Waits
<1>3. ASSUME FinishDone(d) PROVE Serving([[r EXCEPT !.finished = TRUE] EXCEPT !.buf = <<>>], d, f, g \o r.buf, src)
  <2> DEFINE q == [[r EXCEPT !.finished = TRUE] EXCEPT !.buf = <<>>]
  <2>1. /\ q \in LogReader /\ q.pos = r.pos /\ q.inBuf = r.inBuf /\ q.torn = r.torn
        /\ q.inputDone = r.inputDone /\ q.on /\ q.buf = <<>> /\ ~q.polling /\ q.finished
    <3>1. <<>> \in Seq(Byte) OBVIOUS
    <3> DEFINE none == <<>>
    <3>2. none \in Seq(Byte) BY <3>1
    <3> HIDE DEF none
    <3>3. LET x == [[r EXCEPT !.finished = TRUE] EXCEPT !.buf = none]
          IN  /\ x \in LogReader /\ x.pos = r.pos /\ x.inBuf = r.inBuf /\ x.torn = r.torn
              /\ x.inputDone = r.inputDone /\ x.on /\ x.buf = none /\ ~x.polling /\ x.finished
      BY <1>2, <3>2 DEF LogReader
    <3> QED BY <3>3 DEF none
  <2> HIDE DEF q
  <2>2. Supplied(q, d, f, Y, c) BY <1>1, <2>1 DEF Supplied
  <2>3. Serves(g \o r.buf, q.buf, src, n) BY <1>1, <2>1, ServesAll
  <2>4. r.torn = 0 => n = Len(src)
    <3> SUFFICES ASSUME r.torn = 0 PROVE n = Len(src) OBVIOUS
    <3>1. Y \in Seq(Byte) /\ c \in Nat BY <1>1, ReadingIs
    <3>2. c = Len(Y)
      <4>1. /\ Len(f) = Len(Y) /\ (c + Len(d.input)) + Len(r.inBuf) = r.pos /\ r.pos = Len(f)
        BY <1>1 DEF Supplied
      <4>2. Len(d.input) = 0 /\ Len(r.inBuf) = 0 BY <1>3 DEF FinishDone
      <4> QED BY <3>1, <4>1, <4>2
    <3> QED BY <1>1, <1>2, <3>2, EndIsWhole
  <2>5. Len(q.buf) = 0 /\ MaxLen \in Nat BY <2>1, SizesAssumption
  <2>6. Waits(q, d, src, n) BY <2>1, <2>4, <2>5 DEF Waits
  <2>7. Serving(q, d, f, g \o r.buf, src) BY <1>1, <2>2, <2>3, <2>6 DEF Serving
  <2> QED BY <2>7 DEF q
<1>4. Serving([r EXCEPT !.polling = TRUE], d, f, g, src)
  <2> DEFINE q == [r EXCEPT !.polling = TRUE]
  <2>1. /\ q \in LogReader /\ q.on /\ q.polling /\ ~q.finished /\ q.buf = r.buf /\ q.inBuf = r.inBuf
        /\ q.pos = r.pos /\ q.torn = r.torn /\ q.inputDone = r.inputDone
    BY <1>2 DEF LogReader
  <2> HIDE DEF q
  <2>2. Supplied(q, d, f, Y, c) BY <1>1, <2>1 DEF Supplied
  <2>3. Waits(q, d, src, n) BY <1>2, <2>1 DEF Waits
  <2>4. Serving(q, d, f, g, src) BY <1>1, <2>1, <2>2, <2>3 DEF Serving
  <2> QED BY <2>4 DEF q
<1> QED BY <1>3, <1>4

-----------------------------------------------------------------------------
(* Both together.                                                          *)

LEMMA InitTrip == HsInit => Trip
<1> SUFFICES ASSUME HsInit PROVE Trip OBVIOUS
<1>1. HsInv /\ Compressing BY InitHsInv, InitCompressing
<1> DEFINE none == <<>>
<1>2. /\ dec = DecoderReset /\ got = none
      /\ logReader = [on |-> FALSE, polling |-> FALSE, buf |-> none, inBuf |-> none, pos |-> 0,
                      inputDone |-> FALSE, finished |-> FALSE, torn |-> 0]
  BY DEF HsInit
<1>3. none \in Seq(Byte) /\ 0 \in 0 .. MaxTorn BY SizesAssumption
<1> HIDE DEF none
<1>4. /\ logReader \in LogReader /\ ~logReader.on /\ ~logReader.polling /\ ~logReader.finished
      /\ logReader.buf = none /\ logReader.inBuf = none /\ logReader.pos = 0 /\ ~logReader.inputDone
  BY <1>2, <1>3 DEF LogReader
<1>5. Unread BY <1>2, <1>4 DEF Unread, none
<1> QED BY <1>1, <1>4, <1>5 DEF Trip

LEMMA CompressTrip == Trip /\ Compress => Trip'
<1> SUFFICES ASSUME Trip, Compress PROVE Trip' OBVIOUS
<1>1. HsInv' BY NextHsInv DEF Trip, HsNext
<1>2. caller.at # "done" /\ UNCHANGED <<dec, logReader, got>>
  BY DEF Compress, ReadSource, SinkChunk, Finish, PollStep, PollReturns, Polling
<1>3. ~logReader.on /\ Compressing /\ Unread BY <1>2 DEF Trip
<1>4. Compressing' BY <1>3, CompressCompressing DEF Trip
<1>5. Unread' BY <1>2, <1>3 DEF Unread
<1> QED BY <1>1, <1>2, <1>3, <1>4, <1>5 DEF Trip

\* What is complete when the compression is done is the whole of the source.
LEMMA DoneIsWhole ==
    ASSUME Compressing, caller.at = "done"
    PROVE  \E T : Whole(T, file, source)
<1>1. /\ out = <<>> /\ caller.left = <<>> /\ enc.state = "done"
      /\ Holds(enc, out, file, source, caller.left)
  BY DEF Compressing, CallerFits, Feeding
<1>2. PICK base, T : base \in Nat /\ Coded(enc, out, file, source, base, T)
                         /\ Left(caller.left, source, base + enc.input_size)
  BY <1>1 DEF Holds
<1>3. file \in Seq(Byte) /\ source \in Seq(Byte) /\ enc.input_size \in Nat BY <1>1, HoldsIs
<1>4. Complete(T, file \o out, source) /\ T[Len(T)].from = base + enc.input_size
  BY <1>1, <1>2 DEF Coded
<1>5. file \o out = file BY <1>1, <1>3
<1>6. Len(source) = base + enc.input_size
  <2>1. base + enc.input_size \in Nat BY <1>2, <1>3
  <2>2. Left(<<>>, source, base + enc.input_size) BY <1>1, <1>2
  <2> QED BY <1>3, <2>1, <2>2, LeftNone
<1>7. Whole(T, file, source) BY <1>3, <1>4, <1>5, <1>6 DEF Whole
<1> QED BY <1>7

LEMMA OpenTrip == Trip /\ Open => Trip'
<1> SUFFICES ASSUME Trip, Open PROVE Trip' OBVIOUS
<1>1. HsInv' BY NextHsInv DEF Trip, HsNext, Read
<1>2. /\ caller.at = "done" /\ ~logReader.on /\ UNCHANGED <<source, enc, out, caller, dec, got>>
      /\ \E k \in 0 .. MaxTorn :
            /\ k <= Len(file) /\ file' = SubSeq(file, 1, Len(file) - k)
            /\ logReader' = [logReader EXCEPT !.on = TRUE, !.polling = TRUE, !.torn = k]
  BY DEF Open
<1>3. PICK k \in 0 .. MaxTorn :
            /\ k <= Len(file) /\ file' = SubSeq(file, 1, Len(file) - k)
            /\ logReader' = [logReader EXCEPT !.on = TRUE, !.polling = TRUE, !.torn = k]
  BY <1>2
<1>4. PICK T : Whole(T, file, source) BY <1>2, DoneIsWhole DEF Trip
<1> DEFINE r == [logReader EXCEPT !.on = TRUE, !.polling = TRUE, !.torn = k]
<1>5. /\ dec = DecoderReset /\ got = <<>> /\ logReader \in LogReader /\ ~logReader.finished
      /\ logReader.buf = <<>> /\ logReader.inBuf = <<>> /\ logReader.pos = 0 /\ ~logReader.inputDone
  BY <1>2 DEF Trip, Unread
<1>6. /\ r \in LogReader /\ r.on /\ r.polling /\ ~r.finished /\ r.buf = <<>> /\ r.inBuf = <<>>
      /\ r.pos = 0 /\ ~r.inputDone /\ r.torn = k
  <2>1. /\ r \in LogReader /\ r.on /\ r.polling /\ r.finished = logReader.finished
        /\ r.buf = logReader.buf /\ r.inBuf = logReader.inBuf /\ r.pos = logReader.pos
        /\ r.inputDone = logReader.inputDone /\ r.torn = k
    BY <1>5 DEF LogReader
  <2> HIDE DEF r
  <2> QED BY <1>5, <2>1
<1>7. logReader' = r BY <1>3
<1> HIDE DEF r
<1>8. Serving(r, DecoderReset, SubSeq(file, 1, Len(file) - k), <<>>, source)
  BY <1>3, <1>4, <1>6, OpenServes
<1>9. Serving(logReader, dec, file, got, source)'
  BY <1>2, <1>3, <1>5, <1>7, <1>8
<1> QED BY <1>1, <1>2, <1>6, <1>7, <1>9 DEF Trip

LEMMA DecodeTrip == Trip /\ DecodeStep => Trip'
<1> SUFFICES ASSUME Trip, DecodeStep PROVE Trip' OBVIOUS
<1>1. HsInv' BY NextHsInv DEF Trip, HsNext, Read
<1> DEFINE r == logReader
           s == DecoderStep(dec, r.buf)
           next == [r EXCEPT !.buf = s.o]
           served == [r EXCEPT !.buf = <<>>]
           stopped == [r EXCEPT !.buf = s.o, !.polling = FALSE]
<1>2. /\ r.polling /\ UNCHANGED <<source, enc, out, caller, file>> /\ dec' = s.d
      /\ \/ s.d.state # dec.state /\ r' = next /\ got' = got
         \/ /\ s.d.state = dec.state
            /\ IF Len(s.o) = MaxLen THEN Serve(next) ELSE r' = stopped /\ got' = got
  BY DEF DecodeStep
<1>3. r.on /\ caller.at = "done" /\ Serving(r, dec, file, got, source) BY <1>2 DEF Trip, Unread
<1>4. r \in LogReader BY <1>3, ServingIs
<1>5. /\ s.o \in Seq(Byte) /\ Len(s.o) <= MaxLen
      /\ Serving(next, s.d, file, got, source)
      /\ Serving(served, s.d, file, got \o s.o, source)
      /\ s.d.state = dec.state /\ Len(s.o) < MaxLen => Serving(stopped, s.d, file, got, source)
  BY <1>2, <1>3, DecodeServes
<1>6. Serve(next) => got' = got \o s.o /\ r' = served
  <2>1. next.buf = s.o /\ [next EXCEPT !.buf = <<>>] = served BY <1>4 DEF LogReader
  <2> HIDE DEF next, served, s
  <2> QED BY <2>1 DEF Serve
<1>7. Len(s.o) \in Nat /\ MaxLen \in Nat BY <1>5, SizesAssumption
<1> HIDE DEF s, next, served, stopped
<1>8. Serving(r', dec', file', got', source')
  <2>1. CASE r' = next /\ got' = got BY <1>2, <1>5, <2>1
  <2>2. CASE Serve(next) BY <1>2, <1>5, <1>6, <2>2
  <2>3. CASE s.d.state = dec.state /\ Len(s.o) # MaxLen /\ r' = stopped /\ got' = got
    <3>1. Len(s.o) < MaxLen BY <1>5, <1>7, <2>3
    <3> QED BY <1>2, <1>5, <2>3, <3>1
  <2> QED BY <1>2, <2>1, <2>2, <2>3
<1>9. r'.on BY <1>8, ServingIs
<1> QED BY <1>1, <1>2, <1>3, <1>8, <1>9 DEF Trip

LEMMA RefillTrip == Trip /\ Refill => Trip'
<1> SUFFICES ASSUME Trip, Refill PROVE Trip' OBVIOUS
<1>1. HsInv' BY NextHsInv DEF Trip, HsNext, Read
<1> DEFINE r == logReader
           n == IF Len(file) - r.pos < InChunk THEN Len(file) - r.pos ELSE InChunk
           ended == [r EXCEPT !.inputDone = TRUE, !.polling = TRUE]
           filled == [r EXCEPT !.inBuf = SubSeq(file, r.pos + 1, r.pos + n), !.pos = @ + n]
<1>2. /\ r.on /\ ~r.polling /\ ~r.finished /\ r.inBuf = <<>> /\ ~r.inputDone
      /\ r' = (IF n = 0 THEN ended ELSE filled)
      /\ UNCHANGED <<source, enc, out, caller, file, dec, got>>
  BY DEF Refill, Idle
<1>3. caller.at = "done" /\ Serving(r, dec, file, got, source) BY <1>2 DEF Trip
<1>4. IF n = 0 THEN Serving(ended, dec, file, got, source)
      ELSE ~r.inputDone => Serving(filled, dec, file, got, source)
  BY <1>2, <1>3, RefillServes
<1> HIDE DEF n, ended, filled
<1>5. Serving(r', dec', file', got', source') BY <1>2, <1>4
<1>6. r'.on BY <1>5, ServingIs
<1> QED BY <1>1, <1>2, <1>3, <1>5, <1>6 DEF Trip

LEMMA SinkInputTrip == Trip /\ SinkInput => Trip'
<1> SUFFICES ASSUME Trip, SinkInput PROVE Trip' OBVIOUS
<1>1. HsInv' BY NextHsInv DEF Trip, HsNext, Read
<1> DEFINE r == logReader
           room == InputBuffer - (dec.input_index + Len(dec.input))
           n == IF room < Len(r.inBuf) THEN room ELSE Len(r.inBuf)
           fed == [dec EXCEPT !.input = @ \o SubSeq(r.inBuf, 1, n)]
           sunk == [r EXCEPT !.inBuf = SubSeq(@, n + 1, Len(@)), !.polling = TRUE]
<1>2. /\ r.on /\ ~r.polling /\ ~r.finished /\ dec' = fed /\ r' = sunk
      /\ UNCHANGED <<source, enc, out, caller, file, got>>
  BY DEF SinkInput, Idle
<1>3. caller.at = "done" /\ Serving(r, dec, file, got, source) BY <1>2 DEF Trip
<1>4. Serving(sunk, fed, file, got, source) BY <1>2, <1>3, SinkInputServes
<1> HIDE DEF room, n, fed, sunk
<1>5. Serving(r', dec', file', got', source') BY <1>2, <1>4
<1>6. r'.on BY <1>5, ServingIs
<1> QED BY <1>1, <1>2, <1>3, <1>5, <1>6 DEF Trip

LEMMA EndTrip == Trip /\ EndOfInput => Trip'
<1> SUFFICES ASSUME Trip, EndOfInput PROVE Trip' OBVIOUS
<1>1. HsInv' BY NextHsInv DEF Trip, HsNext, Read
<1> DEFINE r == logReader
           ended == [[r EXCEPT !.finished = TRUE] EXCEPT !.buf = <<>>]
           again == [r EXCEPT !.polling = TRUE]
<1>2. /\ r.on /\ ~r.polling /\ ~r.finished /\ r.inBuf = <<>> /\ r.inputDone
      /\ IF FinishDone(dec) THEN Serve([r EXCEPT !.finished = TRUE]) ELSE r' = again /\ got' = got
      /\ UNCHANGED <<source, enc, out, caller, file, dec>>
  BY DEF EndOfInput, Idle
<1>3. caller.at = "done" /\ Serving(r, dec, file, got, source) BY <1>2 DEF Trip
<1>4. /\ FinishDone(dec) => Serving(ended, dec, file, got \o r.buf, source)
      /\ Serving(again, dec, file, got, source)
  BY <1>2, <1>3, EndServes
<1>5. Serve([r EXCEPT !.finished = TRUE]) => got' = got \o r.buf /\ r' = ended
  <2>1. r \in LogReader BY <1>3, ServingIs
  <2> DEFINE q == [r EXCEPT !.finished = TRUE]
  <2>2. q.buf = r.buf /\ [q EXCEPT !.buf = <<>>] = ended BY <2>1 DEF LogReader
  <2> HIDE DEF q, ended
  <2>3. Serve(q) => got' = got \o r.buf /\ r' = ended BY <2>2 DEF Serve
  <2> QED BY <2>3 DEF q
<1> HIDE DEF ended, again
<1>6. Serving(r', dec', file', got', source')
  <2>1. CASE FinishDone(dec) BY <1>2, <1>4, <1>5, <2>1
  <2>2. CASE ~FinishDone(dec) BY <1>2, <1>4, <2>2
  <2> QED BY <2>1, <2>2
<1>7. r'.on BY <1>6, ServingIs
<1> QED BY <1>1, <1>2, <1>3, <1>6, <1>7 DEF Trip

LEMMA NextTrip == Trip /\ [HsNext]_hsVars => Trip'
<1> SUFFICES ASSUME Trip, [HsNext]_hsVars PROVE Trip' OBVIOUS
<1>1. CASE UNCHANGED hsVars
  <2>1. HsInv' BY NextHsInv DEF Trip
  <2>2. /\ source' = source /\ enc' = enc /\ out' = out /\ caller' = caller /\ file' = file
        /\ dec' = dec /\ logReader' = logReader /\ got' = got
    BY <1>1 DEF hsVars
  <2>3. Compressing' = Compressing /\ Unread' = Unread
    BY <2>2 DEF Compressing, CallerFits, Unread
  <2> QED BY <2>1, <2>2, <2>3 DEF Trip
<1> QED BY <1>1, CompressTrip, OpenTrip, DecodeTrip, RefillTrip, SinkInputTrip, EndTrip DEF HsNext, Read

\* A beginning of the source is served, and all of it at the end of a file that has its end.
LEMMA TripIsRound == Trip => RoundTrip
<1> SUFFICES ASSUME Trip PROVE RoundTrip OBVIOUS
<1>1. CASE logReader.on
  <2>1. PICK Y, T, c, n, i :
               /\ Whole(T, Y, source) /\ Serves(got, logReader.buf, source, n)
               /\ Waits(logReader, dec, source, n)
    BY <1>1 DEF Trip, Serving
  <2> DEFINE all == got \o logReader.buf
  <2>2. /\ source \in Seq(Byte) /\ got \in Seq(Byte) /\ logReader.buf \in Seq(Byte) /\ n \in Nat
        /\ Len(all) = n /\ n <= Len(source) /\ \A k \in 1 .. n : all[k] = source[k]
    BY <2>1 DEF Serves, Whole
  <2>3. all \in Seq(Byte) BY <2>2
  <2> HIDE DEF all
  <2>4. IsPrefix(all, source)
    <3>1. /\ SubSeq(all, 1, n) = [k \in 1 .. n |-> all[k]]
          /\ SubSeq(source, 1, n) = [k \in 1 .. n |-> source[k]]
      BY <2>2, <2>3
    <3>2. SubSeq(all, 1, n) = SubSeq(source, 1, n) BY <2>2, <3>1
    <3> QED BY <2>2, <3>2 DEF IsPrefix
  <2>5. ASSUME logReader.finished, logReader.torn = 0 PROVE got = source
    <3>1. logReader.buf = <<>> /\ n = Len(source) BY <2>1, <2>5 DEF Waits
    <3>2. all = got BY <2>2, <3>1 DEF all
    <3> QED BY <2>2, <3>1, <3>2
  <2> QED BY <2>4, <2>5 DEF RoundTrip, all
<1>2. CASE ~logReader.on
  <2>1. /\ got = <<>> /\ logReader.buf = <<>> /\ ~logReader.finished
        /\ Holds(enc, out, file, source, caller.left)
    BY <1>2 DEF Trip, Unread, Compressing
  <2>2. source \in Seq(Byte) BY <2>1, HoldsIs
  <2>3. IsPrefix(<<>>, source)
    <3>1. Len(<<>>) = 0 /\ SubSeq(<<>>, 1, 0) = <<>> /\ SubSeq(source, 1, 0) = <<>> BY <2>2
    <3> QED BY <2>2, <3>1 DEF IsPrefix
  <2>4. <<>> \o <<>> = <<>> OBVIOUS
  <2> QED BY <2>1, <2>3, <2>4 DEF RoundTrip
<1> QED BY <1>1, <1>2

(* What CompressedLogReader::read() (data_logger.cpp) serves of a file     *)
(* that compressStep() wrote is the source it was written from: the whole  *)
(* of it, or a beginning when the file has lost its end, for windows,      *)
(* lookaheads, buffers and chunks of any size, whatever the source.        *)
THEOREM ServedAsCompressed == HsSpec => []RoundTrip
BY InitTrip, NextTrip, TripIsRound, PTL DEF HsSpec

-----------------------------------------------------------------------------
(* The buffers: nothing is written beyond their ends.                      *)

LEMMA OneMore ==
    ASSUME NEW o \in Seq(Byte), NEW p, AtMostOneMore(p, o)
    PROVE  Len(p) <= Len(o) + 1
<1>1. CASE p = o BY <1>1
<1>2. ASSUME NEW byte, p = Append(o, byte) PROVE Len(p) <= Len(o) + 1
  <2> DEFINE S == Byte \cup {byte}
  <2>1. o \in Seq(S) /\ byte \in S OBVIOUS
  <2> HIDE DEF S
  <2>2. Len(Append(o, byte)) = Len(o) + 1 BY <2>1
  <2> QED BY <1>2, <2>1, <2>2
<1> QED BY <1>1, <1>2 DEF AtMostOneMore

LEMMA PushedOne ==
    ASSUME NEW e, NEW o, NEW count, NEW bits
    PROVE  AtMostOneMore(PushBits(e, o, count, bits).o, o)
BY DEF PushBits, AtMostOneMore

LEMMA GoesOne ==
    ASSUME NEW s, NEW x, NEW o, NEW d, s = [e |-> d, o |-> x], NEW state, AtMostOneMore(x, o)
    PROVE  AtMostOneMore(Goes(s, state).o, o)
BY DEF Goes

LEMMA PushedPair ==
    ASSUME NEW e, NEW o, NEW count, NEW bits
    PROVE  \E d, x : PushBits(e, o, count, bits) = [e |-> d, o |-> x] /\ AtMostOneMore(x, o)
<1>1. \E d, x : PushBits(e, o, count, bits) = [e |-> d, o |-> x] BY DEF PushBits
<1>2. PICK d, x : PushBits(e, o, count, bits) = [e |-> d, o |-> x] BY <1>1
<1>3. PushBits(e, o, count, bits).o = x BY <1>2
<1>4. AtMostOneMore(x, o) BY <1>3, PushedOne
<1> QED BY <1>2, <1>4

\* A step of the encoder writes only where there is room.
LEMMA StepFits ==
    ASSUME NEW e, NEW o \in Seq(Byte), Len(o) <= OutSize, NEW s, s = EncoderStep(e, o)
    PROVE  Len(s.o) <= OutSize
<1>1. OutSize \in Nat /\ Len(o) \in Nat BY SizesAssumption
<1>2. \/ \E d : s = Stays(d, o)
      \/ (e.bit_index = 0 \/ ~Full(o)) /\ s = FlushBits(e, o)
      \/ ~Full(o) /\ s = YieldTagBit(e, o)
      \/ ~Full(o) /\ s = YieldLiteral(e, o)
      \/ ~Full(o) /\ s = YieldBrIndex(e, o)
      \/ ~Full(o) /\ s = YieldBrLength(e, o)
  BY DEF EncoderStep
<1>3. ASSUME NEW d PROVE Stays(d, o).o = o BY DEF Stays
<1>4. AtMostOneMore(o, o) BY DEF AtMostOneMore
<1>5. AtMostOneMore(FlushBits(e, o).o, o) /\ (e.bit_index = 0 => FlushBits(e, o).o = o)
  BY DEF FlushBits, Stays, AtMostOneMore
<1>6. AtMostOneMore(YieldTagBit(e, o).o, o)
  <2> DEFINE br == [e EXCEPT !.outgoing = e.match_pos - 1, !.count = WindowBits]
  <2>1. YieldTagBit(e, o) = IF e.match_length = 0 THEN Goes(PushBits(e, o, 1, 1), "yield_literal")
                            ELSE Goes(PushBits(br, o, 1, 0), "yield_br_index")
    BY DEF YieldTagBit
  <2> HIDE DEF br
  <2> QED BY <2>1, PushedPair, GoesOne
<1>7. AtMostOneMore(YieldLiteral(e, o).o, o) BY PushedPair, GoesOne DEF YieldLiteral
<1>8. AtMostOneMore(PushOutgoing(e, o).o, o) BY PushedOne DEF PushOutgoing
<1>9. AtMostOneMore(YieldBrIndex(e, o).o, o) BY <1>3, <1>4, <1>8 DEF YieldBrIndex
<1>10. AtMostOneMore(YieldBrLength(e, o).o, o) BY <1>3, <1>4, <1>8 DEF YieldBrLength
<1>11. s.o = o \/ (~Full(o) /\ AtMostOneMore(s.o, o))
  <2>1. CASE \E d : s = Stays(d, o) BY <2>1 DEF Stays
  <2>2. CASE (e.bit_index = 0 \/ ~Full(o)) /\ s = FlushBits(e, o) BY <1>5, <2>2
  <2>3. CASE ~Full(o) /\ s = YieldTagBit(e, o) BY <1>6, <2>3
  <2>4. CASE ~Full(o) /\ s = YieldLiteral(e, o) BY <1>7, <2>4
  <2>5. CASE ~Full(o) /\ s = YieldBrIndex(e, o) BY <1>9, <2>5
  <2>6. CASE ~Full(o) /\ s = YieldBrLength(e, o) BY <1>10, <2>6
  <2> QED BY <1>2, <2>1, <2>2, <2>3, <2>4, <2>5, <2>6
<1>12. CASE s.o = o BY <1>12
<1>13. CASE ~Full(o) /\ AtMostOneMore(s.o, o)
  <2>1. Len(o) < OutSize BY <1>1, <1>13 DEF Full
  <2>2. Len(s.o) <= Len(o) + 1 BY <1>13, OneMore
  <2> QED BY <1>1, <2>1, <2>2
<1> QED BY <1>11, <1>12, <1>13

LEMMA TookLess ==
    ASSUME NEW Y \in Seq(Byte), NEW d, NEW c, Draws(d, Y, c), NEW count \in 1 .. ByteBits,
           NEW g, g = GetBits(d, count), g.bits # NoBits
    PROVE  /\ g.bits \in Nat /\ g.bits < Pow2[count] /\ g.d \in DecoderRecord
           /\ g.d.output_count = d.output_count /\ g.d.output_index = d.output_index
           /\ g.d.state = d.state
<1>1. PICK e \in Nat : Took(g, d, Y, c, count, e) BY GetBitsIs
<1>2. /\ Draws(g.d, Y, e) /\ SameButInput(g.d, d) /\ After(Cursor(d, c), count) = Cursor(g.d, e)
      /\ g.bits = Field(Y, Cursor(d, c), count)
  BY <1>1 DEF Took
<1>3. Cursor(d, c) \in Pos /\ ByteBits \in Nat BY DrawsIs, ByteIs
<1>4. Cursor(g.d, e).c <= Len(Y)
  <2>1. /\ Cursor(g.d, e).c = e /\ e + Len(g.d.input) <= Len(Y) /\ Len(g.d.input) \in Nat
    BY <1>2, DrawsIs
  <2> QED BY <2>1
<1>5. g.bits \in Nat /\ g.bits < Pow2[count] BY <1>2, <1>3, <1>4, FieldBound
<1> QED BY <1>2, <1>5 DEF SameButInput, Draws

LEMMA TagReaches ==
    ASSUME NEW d \in DecoderRecord, Reaches(d), d.state = "tag_bit", NEW bits
    PROVE  Reaches(AfterTag(d, bits))
<1>1. ~(WindowBits > ByteBits) => 0 + Pow2[LowBits] <= Window
  <2>1. Window \in Nat /\ (~(WindowBits > ByteBits) => LowBits = WindowBits) BY BitsAre
  <2> QED BY <2>1 DEF Window
<1>2. 0 <= Window BY BitsAre
<1> QED BY <1>1, <1>2 DEF AfterTag, Reaches, DecoderRecord

LEMMA MsbReaches ==
    ASSUME NEW d \in DecoderRecord, Reaches(d), WindowBits > ByteBits,
           NEW bits \in Nat, bits < Pow2[WindowBits - ByteBits]
    PROVE  Reaches(AfterMsb(d, bits))
<1> DEFINE h == WindowBits - ByteBits
           a == Pow2[h]
           b == Pow2[ByteBits]
<1>1. h \in Nat /\ ByteBits \in Nat /\ LowBits = ByteBits /\ h + ByteBits = WindowBits BY BitsAre
<1>2. a \in Nat /\ b \in Nat /\ b >= 1 BY <1>1, Pow2Type
<1>3. a * b = Window
  <2>1. Pow2[h + ByteBits] = a * b BY <1>1, Pow2Sum
  <2> QED BY <1>1, <2>1 DEF Window
<1> HIDE DEF h, a, b
<1>4. (bits + 1) * b = bits * b + b BY <1>2
<1>5. bits + 1 <= a BY <1>2 DEF a, h
<1>6. PICK k \in Nat : a = (bits + 1) + k
  <2>1. a - (bits + 1) \in Nat /\ a = (bits + 1) + (a - (bits + 1)) BY <1>2, <1>5
  <2> QED BY <2>1
<1>7. a * b = (bits + 1) * b + k * b
  <2>1. bits + 1 \in Nat OBVIOUS
  <2> QED BY <1>2, <1>6, <2>1, Distributes
<1>8. k * b \in Nat /\ bits * b \in Nat BY <1>2
<1>9. bits * b + b <= Window /\ bits * b <= Window BY <1>2, <1>3, <1>4, <1>7, <1>8
<1> DEFINE v == bits * b
<1>10. AfterMsb(d, bits) = [d EXCEPT !.output_index = v, !.state = "backref_index_lsb"]
  BY DEF AfterMsb, b
<1>11. v + Pow2[LowBits] <= Window /\ v <= Window BY <1>1, <1>9 DEF b
<1> HIDE DEF v
<1> QED BY <1>10, <1>11 DEF Reaches, DecoderRecord

LEMMA LsbReaches ==
    ASSUME NEW d \in DecoderRecord, Reaches(d), d.state = "backref_index_lsb",
           NEW bits \in Nat, bits < Pow2[LowBits]
    PROVE  Reaches(AfterLsb(d, bits))
<1>1. d.output_index \in Nat /\ Pow2[LowBits] \in Nat /\ Window \in Nat /\ Lookahead \in Nat
      /\ d.output_index + Pow2[LowBits] <= Window
  <2>1. LowBits \in Nat BY BitsAre
  <2> QED BY <2>1, BitsAre, Pow2Type DEF Reaches, DecoderRecord
<1>2. d.output_index + bits + 1 <= Window BY <1>1
<1>3. AfterLsb(d, bits) = [d EXCEPT !.output_index = d.output_index + bits + 1, !.output_count = 0,
                                    !.state = "backref_count_lsb"]
  BY DEF AfterLsb, DecoderRecord
<1> QED BY <1>1, <1>2, <1>3 DEF Reaches, DecoderRecord

LEMMA CountReaches ==
    ASSUME NEW d \in DecoderRecord, Reaches(d), NEW bits \in Nat, bits < Pow2[LookaheadBits]
    PROVE  Reaches(AfterCount(d, bits))
<1>1. bits + 1 <= Lookahead
  <2>1. Lookahead \in Nat BY BitsAre
  <2> QED BY <2>1 DEF Lookahead
<1> QED BY <1>1 DEF AfterCount, Reaches, DecoderRecord

LEMMA StepReaches ==
    ASSUME NEW T, NEW Y, NEW src, Whole(T, Y, src), NEW d, NEW o \in Seq(Byte), Len(o) <= MaxLen,
           NEW c, NEW n, NEW i, ReadsAt(d, Y, T, src, c, n, i), Reaches(d)
    PROVE  Reaches(DecoderStep(d, o).d)
<1>1. /\ Draws(d, Y, c) /\ Y \in Seq(Byte) /\ d \in DecoderRecord
      /\ Place(d, Y, T, src, Cursor(d, c), n, i)
  BY ReadingIs
<1>2. d.state \in DecoderStates /\ MaxLen \in Nat /\ Len(o) \in Nat BY <1>1, DrawsIs, SizesAssumption
<1>3. ASSUME NEW g \in DecoderRecord, g.output_count = d.output_count, g.output_index = d.output_index,
             g.state = d.state
      PROVE  Reaches(g)
  BY <1>3 DEF Reaches
<1>4. CASE d.state = "tag_bit"
  <2> DEFINE g == GetBits(d, 1)
  <2>1. DecoderStep(d, o).d = IF g.bits = NoBits THEN d ELSE AfterTag(g.d, g.bits)
    BY <1>4 DEF DecoderStep, Takes
  <2>2. CASE g.bits # NoBits
    <3>1. g.d \in DecoderRecord /\ Reaches(g.d) /\ g.d.state = "tag_bit"
      BY <1>1, <1>3, <1>4, <2>2, TookLess, WidthsAre
    <3> HIDE DEF g
    <3>2. Reaches(AfterTag(g.d, g.bits)) BY <3>1, TagReaches
    <3> QED BY <2>1, <2>2, <3>2
  <2> QED BY <2>1, <2>2
<1>5. CASE d.state = "backref_index_msb"
  <2> DEFINE g == GetBits(d, WindowBits - ByteBits)
  <2>1. DecoderStep(d, o).d = IF g.bits = NoBits THEN d ELSE AfterMsb(g.d, g.bits)
    BY <1>5 DEF DecoderStep, Takes
  <2>2. WindowBits > ByteBits
    BY <1>1, <1>5 DEF Place, ReadsTag, ReadsByte, ReadsMsb, ReadsLsb, ReadsCount, Copying
  <2>3. CASE g.bits # NoBits
    <3>1. WindowBits - ByteBits \in 1 .. ByteBits BY <2>2, WidthsAre
    <3>2. g.d \in DecoderRecord /\ Reaches(g.d) /\ g.bits \in Nat /\ g.bits < Pow2[WindowBits - ByteBits]
      BY <1>1, <1>3, <2>3, <3>1, TookLess
    <3> HIDE DEF g
    <3>3. Reaches(AfterMsb(g.d, g.bits)) BY <2>2, <3>2, MsbReaches
    <3> QED BY <2>1, <2>3, <3>3
  <2> QED BY <2>1, <2>3
<1>6. CASE d.state = "backref_index_lsb"
  <2> DEFINE g == GetBits(d, LowBits)
  <2>1. DecoderStep(d, o).d = IF g.bits = NoBits THEN d ELSE AfterLsb(g.d, g.bits)
    BY <1>6 DEF DecoderStep, Takes, LowBits
  <2>2. CASE g.bits # NoBits
    <3>1. /\ g.d \in DecoderRecord /\ Reaches(g.d) /\ g.d.state = "backref_index_lsb"
          /\ g.bits \in Nat /\ g.bits < Pow2[LowBits]
      BY <1>1, <1>3, <1>6, <2>2, TookLess, WidthsAre
    <3> HIDE DEF g
    <3>2. Reaches(AfterLsb(g.d, g.bits)) BY <3>1, LsbReaches
    <3> QED BY <2>1, <2>2, <3>2
  <2> QED BY <2>1, <2>2
<1>7. CASE d.state = "backref_count_lsb"
  <2> DEFINE g == GetBits(d, LookaheadBits)
  <2>1. DecoderStep(d, o).d = IF g.bits = NoBits THEN d ELSE AfterCount(g.d, g.bits)
    BY <1>7 DEF DecoderStep, Takes
  <2>2. CASE g.bits # NoBits
    <3>1. /\ g.d \in DecoderRecord /\ Reaches(g.d)
          /\ g.bits \in Nat /\ g.bits < Pow2[LookaheadBits]
      BY <1>1, <1>3, <2>2, TookLess, WidthsAre
    <3> HIDE DEF g
    <3>2. Reaches(AfterCount(g.d, g.bits)) BY <3>1, CountReaches
    <3> QED BY <2>1, <2>2, <3>2
  <2> QED BY <2>1, <2>2
<1>8. ASSUME NEW x, SameReference(x, d), x.output_count \in Nat PROVE Reaches(x)
  <2>1. d.output_count \in Nat /\ Lookahead \in Nat BY <1>1, BitsAre DEF DecoderRecord
  <2> QED BY <1>8, <2>1 DEF SameReference, Reaches
<1>9. ReadsOn(DecoderStep(d, o), d, o, Y, T, src, c, n) BY DecoderStepReads
<1>10. DecoderStep(d, o).d.output_count \in Nat BY <1>1, <1>9, DrawsIs DEF ReadsOn, ReadsAt
<1>11. CASE d.state = "yield_literal" /\ Len(o) < MaxLen
  <2>1. DecoderStep(d, o) = DYieldLiteral(d, o) BY <1>11 DEF DecoderStep
  <2>2. SameReference(DYieldLiteral(d, o).d, d) BY <1>2, <1>11, ByteReads
  <2> QED BY <1>8, <1>10, <2>1, <2>2
<1>12. CASE d.state = "yield_backref" /\ Len(o) < MaxLen
  <2>1. DecoderStep(d, o) = YieldBackref(d, o) BY <1>12 DEF DecoderStep
  <2>2. SameReference(YieldBackref(d, o).d, d) BY <1>2, <1>12, BackrefReads
  <2> QED BY <1>8, <1>10, <2>1, <2>2
<1>13. CASE d.state \in {"yield_literal", "yield_backref"} /\ ~(Len(o) < MaxLen)
  <2>1. DecoderStep(d, o).d = d BY <1>13 DEF DecoderStep
  <2> QED BY <2>1
<1> QED BY <1>2, <1>4, <1>5, <1>6, <1>7, <1>11, <1>12, <1>13 DEF DecoderStates

LEMMA ResetReaches == Reaches(DecoderReset)
<1>1. Window \in Nat /\ Lookahead \in Nat BY BitsAre
<1> QED BY <1>1 DEF Reaches, DecoderReset

LEMMA InitFits == HsInit => Fits
<1> SUFFICES ASSUME HsInit PROVE Fits OBVIOUS
<1>1. /\ source = <<>> /\ out = <<>> /\ enc = EncoderReset /\ dec = DecoderReset
      /\ caller = [at |-> "read", left |-> <<>>]
  BY DEF HsInit
<1>2. <<>> \in Seq(Alphabet) /\ <<>> \in Seq(Byte) /\ Len(<<>>) = 0 /\ OutSize \in Nat
  BY SizesAssumption
<1> QED BY <1>1, <1>2, EncoderResetIs, ResetReaches DEF Fits

LEMMA CompressFits == Trip /\ Trip' /\ Fits /\ Compress => Fits'
<1> SUFFICES ASSUME Trip, Trip', Fits, Compress PROVE Fits' OBVIOUS
<1>1. dec' = dec /\ logReader' = logReader /\ caller.at # "done"
  BY DEF Compress, ReadSource, SinkChunk, Finish, PollStep, PollReturns, Polling
<1>2. ~logReader.on BY <1>1 DEF Trip
<1>3. enc' \in Encoder /\ out' \in Seq(Byte)
  <2>1. Compressing' BY <1>1, <1>2 DEF Trip
  <2> QED BY <2>1, HoldsIs DEF Compressing
<1>4. /\ source \in Seq(Alphabet) /\ out \in Seq(Byte) /\ Len(out) <= OutSize /\ Reaches(dec')
      /\ caller \in [at: {"read", "poll", "finish", "poll_rest", "done"}, left: Seq(Alphabet)]
      /\ caller.left \in Seq(Alphabet)
  BY <1>1 DEF Fits
<1>5. /\ source' \in Seq(Alphabet)
      /\ caller' \in [at: {"read", "poll", "finish", "poll_rest", "done"}, left: Seq(Alphabet)]
  <2>1. CASE ReadSource
    <3>1. CASE source' = source /\ caller' = [caller EXCEPT !.at = "finish"] BY <1>4, <3>1
    <3>2. ASSUME NEW n \in 1 .. ChunkSize, NEW bytes \in [1 .. n -> Alphabet],
                 source' = source \o bytes, caller' = [caller EXCEPT !.left = bytes]
          PROVE  /\ source' \in Seq(Alphabet)
                 /\ caller' \in [at: {"read", "poll", "finish", "poll_rest", "done"}, left: Seq(Alphabet)]
      <4>1. n \in Nat BY SizesAssumption
      <4>2. bytes \in Seq(Alphabet) BY <4>1
      <4>3. source \o bytes \in Seq(Alphabet) BY <1>4, <4>2
      <4>4. [caller EXCEPT !.left = bytes]
              \in [at: {"read", "poll", "finish", "poll_rest", "done"}, left: Seq(Alphabet)]
        BY <1>4, <4>2
      <4> QED BY <3>2, <4>3, <4>4
    <3> QED BY <2>1, <3>1, <3>2 DEF ReadSource
  <2>2. CASE SinkChunk
    <3> DEFINE n == Sink(enc, caller.left).sunk
               rest == SubSeq(caller.left, n + 1, Len(caller.left))
    <3>1. caller' = [at |-> "poll", left |-> rest] /\ source' = source BY <2>2 DEF SinkChunk
    <3>2. n \in Nat
      <4>1. enc.input_size \in 0 .. Window /\ Window \in Nat BY EncoderIs, BitsAre DEF Fits
      <4>2. Len(caller.left) \in Nat BY <1>4
      <4>3. n = IF Window - enc.input_size < Len(caller.left) THEN Window - enc.input_size
                ELSE Len(caller.left)
        BY DEF Sink
      <4> HIDE DEF n
      <4> QED BY <4>1, <4>2, <4>3
    <3> HIDE DEF n
    <3>3. rest \in Seq(Alphabet)
      <4>1. ASSUME NEW i \in n + 1 .. Len(caller.left) PROVE caller.left[i] \in Alphabet
        <5>1. i \in 1 .. Len(caller.left) BY <1>4, <3>2
        <5> QED BY <1>4, <5>1
      <4>2. n + 1 \in Nat /\ Len(caller.left) \in Nat BY <1>4, <3>2
      <4> QED BY <1>4, <4>1, <4>2, SubSeqProperties
    <3> QED BY <1>4, <3>1, <3>3
  <2>3. CASE Finish BY <1>4, <2>3 DEF Finish
  <2>4. CASE PollStep BY <1>4, <2>4 DEF PollStep
  <2>5. CASE PollReturns BY <1>4, <2>5 DEF PollReturns, AfterPoll
  <2> QED BY <2>1, <2>2, <2>3, <2>4, <2>5 DEF Compress
<1>6. Len(out') <= OutSize
  <2>1. CASE out' = out BY <1>4, <2>1
  <2>2. CASE out' = <<>> BY <2>2, SizesAssumption
  <2>3. CASE out' = EncoderStep(enc, out).o BY <1>4, <2>3, StepFits
  <2>4. out' = out \/ out' = <<>> \/ out' = EncoderStep(enc, out).o
    BY DEF Compress, ReadSource, SinkChunk, Finish, PollStep, PollReturns
  <2> QED BY <2>1, <2>2, <2>3, <2>4
<1> QED BY <1>3, <1>4, <1>5, <1>6 DEF Fits

LEMMA ReadFits == Trip /\ Fits /\ Read => Fits'
<1> SUFFICES ASSUME Trip, Fits, Read PROVE Fits' OBVIOUS
<1>1. UNCHANGED <<source, enc, out, caller>>
  BY DEF Read, Open, DecodeStep, Refill, SinkInput, EndOfInput
<1>2. Reaches(dec) BY DEF Fits
<1>3. Reaches(dec')
  <2>1. CASE DecodeStep
    <3>1. logReader.polling /\ dec' = DecoderStep(dec, logReader.buf).d BY <2>1 DEF DecodeStep
    <3>2. Serving(logReader, dec, file, got, source) BY <3>1 DEF Trip, Unread
    <3>3. logReader.buf \in Seq(Byte) /\ Len(logReader.buf) <= MaxLen BY <3>2, ServingIs
    <3>4. PICK Y, T, c, n, i : Whole(T, Y, source) /\ ReadsAt(dec, Y, T, source, c, n, i)
      BY <3>2 DEF Serving
    <3> QED BY <1>2, <3>1, <3>3, <3>4, StepReaches
  <2>2. CASE SinkInput
    <3>1. \E more : dec' = [dec EXCEPT !.input = @ \o more] BY <2>2 DEF SinkInput
    <3>2. logReader.on BY <2>2 DEF SinkInput, Idle
    <3>3. dec \in DecoderRecord BY <3>2, DrawsIs DEF Trip, Serving, ReadsAt, Draws
    <3> QED BY <1>2, <3>1, <3>3 DEF Reaches, DecoderRecord
  <2>3. CASE dec' = dec BY <1>2, <2>3
  <2> QED BY <2>1, <2>2, <2>3 DEF Read, Open, Refill, EndOfInput
<1> QED BY <1>1, <1>3 DEF Fits

LEMMA NextFits == Trip /\ Trip' /\ Fits /\ [HsNext]_hsVars => Fits'
<1> SUFFICES ASSUME Trip, Trip', Fits, [HsNext]_hsVars PROVE Fits' OBVIOUS
<1>1. CASE UNCHANGED hsVars BY <1>1 DEF hsVars, Fits
<1> QED BY <1>1, CompressFits, ReadFits DEF HsNext

LEMMA FitsIsTyped == Trip /\ Fits => HsTypeOK
<1> SUFFICES ASSUME Trip, Fits PROVE HsTypeOK OBVIOUS
<1>1. InputBuffer \in Nat /\ MaxLen \in Nat /\ ByteBits \in Nat /\ Window \in Nat /\ Lookahead \in Nat
  BY SizesAssumption, BitsAre
<1>2. ASSUME NEW d \in DecoderRecord, Reaches(d), d.input_index + Len(d.input) <= InputBuffer
      PROVE  d \in Decoder
  <2>1. /\ d.input \in Seq(Byte) /\ d.input_index \in Nat /\ d.bit_index \in 0 .. ByteBits - 1
        /\ d.output_count \in Nat /\ d.output_index \in Nat /\ d.head_index \in 0 .. Window - 1
    BY DEF DecoderRecord
  <2>2. d.input_index \in 0 .. InputBuffer
    <3>1. Len(d.input) \in Nat BY <2>1
    <3> QED BY <1>1, <1>2, <2>1, <3>1
  <2>3. d.bit_index \in 0 .. ByteBits /\ d.head_index \in Nat BY <1>1, <2>1
  <2>4. d.output_count \in 0 .. Lookahead /\ d.output_index \in 0 .. Window
    BY <1>1, <1>2, <2>1 DEF Reaches
  <2> QED BY <2>2, <2>3, <2>4 DEF DecoderRecord, Decoder
<1>3. /\ file \in Seq(Byte) /\ got \in Seq(Byte) /\ logReader \in LogReader
      /\ Len(logReader.buf) <= MaxLen
      /\ dec \in DecoderRecord /\ dec.input_index + Len(dec.input) <= InputBuffer
  <2>1. CASE logReader.on
    <3>1. PICK Y, T, c, n, i :
                 /\ ReadsAt(dec, Y, T, source, c, n, i) /\ Supplied(logReader, dec, file, Y, c)
                 /\ Serves(got, logReader.buf, source, n) /\ Waits(logReader, dec, source, n)
      BY <2>1 DEF Trip, Serving
    <3> QED BY <3>1 DEF ReadsAt, Draws, Supplied, Serves, Waits
  <2>2. CASE ~logReader.on
    <3>1. dec = DecoderReset /\ got = <<>> /\ logReader \in LogReader /\ logReader.buf = <<>>
          /\ Holds(enc, out, file, source, caller.left)
      BY <2>2 DEF Trip, Unread, Compressing
    <3>2. file \in Seq(Byte) BY <3>1, HoldsIs
    <3>3. DecoderReset \in DecoderRecord /\ DecoderReset.input_index + Len(DecoderReset.input) <= InputBuffer
      <4>1. 0 \in Byte /\ 0 \in 0 .. ByteBits - 1 /\ 0 \in 0 .. Window - 1
        BY ByteIs, BitsAre, Pow2Type
      <4>2. <<>> \in Seq(Byte) /\ Len(<<>>) = 0 OBVIOUS
      <4> DEFINE ring == [j \in 0 .. Window - 1 |-> 0]
      <4>3. ring \in [0 .. Window - 1 -> Byte] BY <4>1
      <4>4. DecoderReset = [input |-> <<>>, input_index |-> 0, state |-> "tag_bit", bit_index |-> 0,
                            current_byte |-> 0, output_count |-> 0, output_index |-> 0,
                            head_index |-> 0, window |-> ring]
        BY DEF DecoderReset
      <4> HIDE DEF ring
      <4> QED BY <1>1, <4>1, <4>2, <4>3, <4>4 DEF DecoderRecord, DecoderStates
    <3> QED BY <1>1, <3>1, <3>2, <3>3
  <2> QED BY <2>1, <2>2
<1>4. dec \in Decoder BY <1>2, <1>3 DEF Fits
<1> QED BY <1>3, <1>4 DEF HsTypeOK, Fits, LogReader

(* The buffers of compressStep() and of CompressedLogReader::read() are    *)
(* never written beyond their ends, and a reference that is read, of a     *)
(* torn file too, reaches no further than the window and is no longer than *)
(* the lookahead, whatever their sizes and the source: the two assertions  *)
(* of st_yield_backref() (heatshrink_decoder_32bit.cpp:306) that are not   *)
(* compiled.                                                               *)
THEOREM BuffersHold == HsSpec => []HsTypeOK
<1>1. Trip /\ Fits /\ [HsNext]_hsVars => (Trip /\ Fits)' BY NextTrip, NextFits
<1>2. HsInit => Trip /\ Fits BY InitTrip, InitFits
<1> QED BY <1>1, <1>2, FitsIsTyped, PTL DEF HsSpec

=============================================================================
