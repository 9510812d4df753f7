----------------------- MODULE CleaningHistoryProofs -----------------------
(***************************************************************************)
(* Proofs about CleaningHistory, for any number of cleans, recharges,      *)
(* poses, power cuts and requests, and any limits: what was flushed is     *)
(* kept, a session is closed once, and what is listed is whole.            *)
(***************************************************************************)
EXTENDS CleaningHistory, Integers, FiniteSetTheorems, SequenceTheorems, WellFoundedInduction,
        TLAPS

-----------------------------------------------------------------------------
(* Recursion over numbers.                                                 *)

LEMMA LeastNumber ==
    ASSUME NEW S, S \subseteq Nat, S # {}
    PROVE  \E n \in S : \A m \in S : n <= m
<1> DEFINE R == OpToRel(<, Nat)
<1>1. IsWellFoundedOn(R, Nat)
  BY NatLessThanWellFounded
<1>2. \A x, y \in Nat : <<y, x>> \in R <=> y < x
  BY DEF OpToRel
<1> HIDE DEF R
<1>3. PICK x \in S : \A y \in S : ~ (<<y, x>> \in R)
  BY <1>1, WFMin
<1>4. ASSUME NEW y \in S
      PROVE  x <= y
  <2>1. x \in Nat /\ y \in Nat
    OBVIOUS
  <2>2. ~(y < x)
    BY <1>2, <1>3, <2>1
  <2>3. QED
    BY <2>1, <2>2
<1>5. QED
  BY <1>4

(* A set of numbers that has 0, and with a number the next, up to n.       *)
LEMMA UpTo ==
    ASSUME NEW a \in Nat, NEW n \in Nat, NEW S,
           a \in S,
           \A i \in a .. n : i # a /\ i - 1 \in S => i \in S
    PROVE  \A i \in a .. n : i \in S
<1> DEFINE Bad == {i \in a .. n : i \notin S}
<1> SUFFICES ASSUME Bad # {} PROVE FALSE
  OBVIOUS
<1>1. Bad \subseteq Nat
  OBVIOUS
<1>2. PICK i \in Bad : \A j \in Bad : i <= j
  BY <1>1, LeastNumber
<1>3. i \in Nat /\ i \in a .. n /\ i \notin S
  BY <1>2
<1>4. i # a /\ i - 1 \in a .. n /\ ~(i <= i - 1)
  BY <1>3
<1>5. i - 1 \in S
  BY <1>4, <1>2
<1>6. QED
  BY <1>3, <1>4, <1>5

-----------------------------------------------------------------------------
(* The functions that are defined by recursion.                            *)

LEMMA BodyIs ==
    ASSUME NEW f \in Seq(Line)
    PROVE  \E body :
             /\ body = [i \in 0 .. Len(f) |->
                          IF i = 0 THEN <<>>
                          ELSE IF f[i] = Session THEN body[i - 1] ELSE Append(body[i - 1], f[i])]
             /\ Body(f) = body[Len(f)]
<1> DEFINE Is(body, n) ==
             body = [i \in 0 .. n |->
                       IF i = 0 THEN <<>>
                       ELSE IF f[i] = Session THEN body[i - 1] ELSE Append(body[i - 1], f[i])]
           S == {n \in Nat : \E body : Is(body, n)}
<1>1. 0 \in S
  <2>1. Is([i \in 0 .. 0 |-> <<>>], 0)
    OBVIOUS
  <2>2. QED
    BY <2>1
<1>2. ASSUME NEW n \in 0 .. Len(f), n # 0, n - 1 \in S
      PROVE  n \in S
  <2>1. PICK r : Is(r, n - 1)
    BY <1>2
  <2> DEFINE new == [i \in 0 .. n |->
                       IF i = n THEN IF f[n] = Session THEN r[n - 1] ELSE Append(r[n - 1], f[n])
                       ELSE r[i]]
  <2>2. n \in Nat /\ n - 1 \in 0 .. n /\ n - 1 \in 0 .. n - 1 /\ n \in 0 .. n /\ n - 1 # n
    BY <1>2
  <2>3. ASSUME NEW i \in 0 .. n
        PROVE  new[i] = IF i = 0 THEN <<>>
                        ELSE IF f[i] = Session THEN new[i - 1] ELSE Append(new[i - 1], f[i])
    <3>1. CASE i = n
      BY <3>1, <2>2, <1>2
    <3>2. CASE i = 0
      <4>1. i \in 0 .. n - 1 /\ i # n
        BY <3>2, <2>2, <1>2
      <4>2. r[i] = <<>>
        BY <4>1, <3>2, <2>1
      <4>3. QED
        BY <4>1, <4>2, <3>2
    <3>3. CASE i # n /\ i # 0
      <4>1. i \in 0 .. n - 1 /\ i - 1 \in 0 .. n - 1 /\ i - 1 \in 0 .. n /\ i - 1 # n
        BY <3>3, <2>2
      <4>2. r[i] = IF f[i] = Session THEN r[i - 1] ELSE Append(r[i - 1], f[i])
        BY <4>1, <2>1, <3>3
      <4>3. QED
        BY <4>1, <4>2, <3>3
    <3>4. QED
      BY <3>1, <3>2, <3>3
  <2>4. Is(new, n)
    BY <2>3
  <2>5. QED
    BY <2>4, <2>2
<1>3. Len(f) \in S
  <2>1. \A i \in 0 .. Len(f) : i # 0 /\ i - 1 \in S => i \in S
    BY <1>2
  <2>2. 0 \in Nat /\ Len(f) \in Nat /\ Len(f) \in 0 .. Len(f)
    OBVIOUS
  <2> HIDE DEF S
  <2>3. \A i \in 0 .. Len(f) : i \in S
    BY <1>1, <2>1, <2>2, UpTo, Zenon
  <2>4. QED
    BY <2>2, <2>3
<1>4. \E body : Is(body, Len(f))
  BY <1>3
<1>5. QED
  BY <1>4 DEF Body

LEMMA MergedIs ==
    ASSUME NEW s, NEW orphans, NEW target \in Epoch
    PROVE  \E merged :
             /\ \A e \in target .. LastEpoch :
                    merged[e] = IF e = target THEN s.raw[target]
                                ELSE IF e \in orphans THEN merged[e - 1] \o Body(s.raw[e])
                                ELSE merged[e - 1]
             /\ Merged(s, orphans, target) = merged[LastEpoch]
<1> DEFINE Is(merged, n) ==
             merged = [e \in target .. n |->
                         IF e = target THEN s.raw[target]
                         ELSE IF e \in orphans THEN merged[e - 1] \o Body(s.raw[e])
                         ELSE merged[e - 1]]
           S == {n \in Nat : \E merged : Is(merged, n)}
<1>0. /\ target \in Nat /\ LastEpoch \in Nat
      /\ target <= LastEpoch /\ LastEpoch \in target .. LastEpoch
  BY BoundsAssumption DEF Epoch, LastEpoch
<1>1. target \in S
  <2>1. Is([e \in target .. target |-> s.raw[target]], target)
    BY <1>0
  <2>2. QED
    BY <2>1, <1>0
<1>2. ASSUME NEW n \in target .. LastEpoch, n # target, n - 1 \in S
      PROVE  n \in S
  <2>1. PICK r : Is(r, n - 1)
    BY <1>2
  <2> DEFINE new == [e \in target .. n |->
                       IF e = n THEN IF n \in orphans THEN r[n - 1] \o Body(s.raw[n]) ELSE r[n - 1]
                       ELSE r[e]]
  <2>2. /\ n \in Nat /\ n \in target .. n /\ n - 1 # n
        /\ n - 1 \in target .. n /\ n - 1 \in target .. n - 1
    BY <1>2, <1>0
  <2>3. ASSUME NEW e \in target .. n
        PROVE  new[e] = IF e = target THEN s.raw[target]
                        ELSE IF e \in orphans THEN new[e - 1] \o Body(s.raw[e]) ELSE new[e - 1]
    <3>1. CASE e = n
      BY <3>1, <2>2, <1>2
    <3>2. CASE e = target
      <4>1. e \in target .. n - 1 /\ e # n
        BY <3>2, <2>2, <1>2
      <4>2. r[e] = s.raw[target]
        BY <4>1, <3>2, <2>1
      <4>3. QED
        BY <4>1, <4>2, <3>2
    <3>3. CASE e # n /\ e # target
      <4>1. e \in target .. n - 1 /\ e - 1 \in target .. n - 1 /\ e - 1 \in target .. n /\ e - 1 # n
        BY <3>3, <2>2, <1>0
      <4>2. r[e] = IF e \in orphans THEN r[e - 1] \o Body(s.raw[e]) ELSE r[e - 1]
        BY <4>1, <2>1, <3>3
      <4>3. QED
        BY <4>1, <4>2, <3>3
    <3>4. QED
      BY <3>1, <3>2, <3>3
  <2>4. Is(new, n)
    BY <2>3
  <2>5. QED
    BY <2>4, <2>2
<1>3. LastEpoch \in S
  <2>1. \A e \in target .. LastEpoch : e # target /\ e - 1 \in S => e \in S
    BY <1>2
  <2> HIDE DEF S
  <2>2. \A e \in target .. LastEpoch : e \in S
    BY <1>0, <1>1, <2>1, UpTo, Zenon
  <2>3. QED
    BY <1>0, <2>2
<1>4. \E merged : Is(merged, LastEpoch)
  BY <1>3
<1> DEFINE m == CHOOSE merged : Is(merged, LastEpoch)
<1>5. Is(m, LastEpoch)
  BY <1>4
<1>6. Merged(s, orphans, target) = m[LastEpoch]
  BY DEF Merged
<1> HIDE DEF m
<1>7. QED
  BY <1>5, <1>6

LEMMA AnsweredIs ==
    ASSUME NEW s, NEW waiters, Len(waiters) \in Nat
    PROVE  \E answered :
             /\ \A i \in 0 .. Len(waiters) :
                    answered[i] = IF i = 0 THEN s ELSE WithBattery(answered[i - 1], waiters[i])
             /\ Answered(s, waiters) = answered[Len(waiters)]
<1> DEFINE Is(answered, n) ==
             answered = [i \in 0 .. n |->
                           IF i = 0 THEN s ELSE WithBattery(answered[i - 1], waiters[i])]
           S == {n \in Nat : \E answered : Is(answered, n)}
<1>1. 0 \in S
  <2>1. Is([i \in 0 .. 0 |-> s], 0)
    OBVIOUS
  <2>2. QED
    BY <2>1
<1>2. ASSUME NEW n \in 0 .. Len(waiters), n # 0, n - 1 \in S
      PROVE  n \in S
  <2>1. PICK r : Is(r, n - 1)
    BY <1>2
  <2> DEFINE new == [i \in 0 .. n |-> IF i = n THEN WithBattery(r[n - 1], waiters[n]) ELSE r[i]]
  <2>2. n \in Nat /\ n - 1 \in 0 .. n /\ n - 1 \in 0 .. n - 1 /\ n \in 0 .. n /\ n - 1 # n
    BY <1>2
  <2>3. ASSUME NEW i \in 0 .. n
        PROVE  new[i] = IF i = 0 THEN s ELSE WithBattery(new[i - 1], waiters[i])
    <3>1. CASE i = n
      BY <3>1, <2>2, <1>2
    <3>2. CASE i = 0
      <4>1. i \in 0 .. n - 1 /\ i # n
        BY <3>2, <2>2, <1>2
      <4>2. r[i] = s
        BY <4>1, <3>2, <2>1
      <4>3. QED
        BY <4>1, <4>2, <3>2
    <3>3. CASE i # n /\ i # 0
      <4>1. i \in 0 .. n - 1 /\ i - 1 \in 0 .. n - 1 /\ i - 1 \in 0 .. n /\ i - 1 # n
        BY <3>3, <2>2
      <4>2. r[i] = WithBattery(r[i - 1], waiters[i])
        BY <4>1, <2>1, <3>3
      <4>3. QED
        BY <4>1, <4>2, <3>3
    <3>4. QED
      BY <3>1, <3>2, <3>3
  <2>4. Is(new, n)
    BY <2>3
  <2>5. QED
    BY <2>4, <2>2
<1>3. Len(waiters) \in S
  <2>1. \A i \in 0 .. Len(waiters) : i # 0 /\ i - 1 \in S => i \in S
    BY <1>2
  <2>2. 0 \in Nat /\ Len(waiters) \in 0 .. Len(waiters)
    OBVIOUS
  <2> HIDE DEF S
  <2>3. \A i \in 0 .. Len(waiters) : i \in S
    BY <1>1, <2>1, <2>2, UpTo, Zenon
  <2>4. QED
    BY <2>2, <2>3
<1>4. \E answered : Is(answered, Len(waiters))
  BY <1>3
<1> DEFINE a == CHOOSE answered : Is(answered, Len(waiters))
<1>5. Is(a, Len(waiters))
  BY <1>4
<1>6. Answered(s, waiters) = a[Len(waiters)]
  BY DEF Answered
<1> HIDE DEF a
<1>7. QED
  BY <1>5, <1>6

-----------------------------------------------------------------------------
(* Lines and poses.                                                        *)

LEMMA Lines ==
    /\ Session \in Line /\ Recharge \in Line /\ Summary \in Line
    /\ Session # Summary /\ Recharge # Summary
    /\ \A n \in 1 .. MaxPoses : /\ Pose(n) \in Line /\ Pose(n) # Summary
                                /\ Pose(n) # Session /\ Pose(n) # Recharge
BY DEF Line, Session, Recharge, Summary, Pose

LEMMA ConcatLines ==
    ASSUME NEW f \in Seq(Line), NEW g \in Seq(Line)
    PROVE  /\ f \o g \in Seq(Line)
           /\ \A i \in DOMAIN f : i \in DOMAIN (f \o g) /\ (f \o g)[i] = f[i]
           /\ \A i \in DOMAIN g : Len(f) + i \in DOMAIN (f \o g) /\ (f \o g)[Len(f) + i] = g[i]
           /\ \A i \in DOMAIN (f \o g) : \/ i \in DOMAIN f /\ (f \o g)[i] = f[i]
                                         \/ i - Len(f) \in DOMAIN g /\ (f \o g)[i] = g[i - Len(f)]
           /\ Len(f \o g) = Len(f) + Len(g)
OBVIOUS

LEMMA ConcatPoses ==
    ASSUME NEW f \in Seq(Line), NEW g \in Seq(Line)
    PROVE  PosesIn(f \o g) = PosesIn(f) \cup PosesIn(g)
<1> DEFINE h == f \o g
<1>1. /\ \A i \in DOMAIN f : i \in DOMAIN h /\ h[i] = f[i]
      /\ \A i \in DOMAIN g : Len(f) + i \in DOMAIN h /\ h[Len(f) + i] = g[i]
      /\ \A i \in DOMAIN h : \/ i \in DOMAIN f /\ h[i] = f[i]
                             \/ i - Len(f) \in DOMAIN g /\ h[i] = g[i - Len(f)]
  BY ConcatLines
<1> HIDE DEF h
<1>2. PosesIn(h) = PosesIn(f) \cup PosesIn(g)
  BY <1>1 DEF PosesIn
<1>3. QED
  BY <1>2 DEF h

LEMMA OneLine ==
    ASSUME NEW l \in Line
    PROVE  <<l>> \in Seq(Line) /\ Len(<<l>>) = 1 /\ <<l>>[1] = l /\ DOMAIN <<l>> = {1}
OBVIOUS

LEMMA AppendLine ==
    ASSUME NEW f \in Seq(Line), NEW l \in Line
    PROVE  Append(f, l) = f \o <<l>>
OBVIOUS

(* What is left out of a file when it is merged is no pose.                *)
LEMMA BodyKeepsPoses ==
    ASSUME NEW f \in Seq(Line)
    PROVE  Body(f) \in Seq(Line) /\ PosesIn(f) \subseteq PosesIn(Body(f))
<1>1. PICK body :
        /\ body = [i \in 0 .. Len(f) |->
                     IF i = 0 THEN <<>>
                     ELSE IF f[i] = Session THEN body[i - 1] ELSE Append(body[i - 1], f[i])]
        /\ Body(f) = body[Len(f)]
  BY BodyIs
<1> DEFINE Upto(i) == {n \in 1 .. MaxPoses : \E j \in 1 .. i : f[j] = Pose(n)}
           S == {i \in Nat : body[i] \in Seq(Line) /\ Upto(i) \subseteq PosesIn(body[i])}
<1>2. 0 \in S
  <2>1. 0 \in 0 .. Len(f)
    OBVIOUS
  <2>2. body[0] = <<>>
    BY <1>1, <2>1
  <2>3. Upto(0) = {}
    OBVIOUS
  <2>4. body[0] \in Seq(Line)
    BY <2>2
  <2> HIDE DEF Upto
  <2>5. QED
    BY <2>3, <2>4
<1>3. ASSUME NEW i \in 0 .. Len(f), i # 0, i - 1 \in S
      PROVE  i \in S
  <2>1. i \in Nat /\ i \in 1 .. Len(f) /\ i \in DOMAIN f /\ f[i] \in Line /\ i - 1 \in Nat
    BY <1>3
  <2>2. body[i] = IF f[i] = Session THEN body[i - 1] ELSE Append(body[i - 1], f[i])
    BY <1>1, <1>3
  <2>3. body[i - 1] \in Seq(Line) /\ Upto(i - 1) \subseteq PosesIn(body[i - 1])
    BY <1>3
  <2>4. ASSUME NEW n \in Upto(i)
        PROVE  n \in Upto(i - 1) \/ f[i] = Pose(n)
    <3>1. PICK j \in 1 .. i : f[j] = Pose(n)
      OBVIOUS
    <3>2. j = i \/ j \in 1 .. i - 1
      BY <2>1
    <3>3. QED
      BY <3>1, <3>2
  <2>5. CASE f[i] = Session
    BY <2>1, <2>2, <2>3, <2>4, <2>5, Lines
  <2>6. CASE f[i] # Session
    <3>1. body[i] = body[i - 1] \o <<f[i]>> /\ <<f[i]>> \in Seq(Line)
      BY <2>1, <2>2, <2>3, <2>6, AppendLine, OneLine
    <3>2. body[i] \in Seq(Line)
      BY <3>1, <2>3, ConcatLines
    <3>3. PosesIn(body[i]) = PosesIn(body[i - 1]) \cup PosesIn(<<f[i]>>)
      BY <3>1, <2>3, ConcatPoses
    <3>4. ASSUME NEW n \in 1 .. MaxPoses, f[i] = Pose(n)
          PROVE  n \in PosesIn(<<f[i]>>)
      BY <3>4, OneLine, <2>1 DEF PosesIn
    <3> HIDE DEF Upto
    <3>5. Upto(i) \subseteq 1 .. MaxPoses
      BY DEF Upto
    <3>6. Upto(i) \subseteq PosesIn(body[i])
      BY <3>3, <3>4, <3>5, <2>3, <2>4
    <3>7. QED
      BY <3>2, <3>6, <2>1
  <2>7. QED
    BY <2>5, <2>6
<1>4. Len(f) \in S
  <2>1. \A i \in 0 .. Len(f) : i # 0 /\ i - 1 \in S => i \in S
    BY <1>3
  <2>2. 0 \in Nat /\ Len(f) \in Nat /\ Len(f) \in 0 .. Len(f)
    OBVIOUS
  <2> HIDE DEF S
  <2>3. \A i \in 0 .. Len(f) : i \in S
    BY <1>2, <2>1, <2>2, UpTo, Zenon
  <2>4. QED
    BY <2>2, <2>3
<1>5. Upto(Len(f)) = PosesIn(f)
  BY DEF PosesIn
<1> HIDE DEF Upto
<1>6. QED
  BY <1>1, <1>4, <1>5

(* Is a line of the file its summary?                                      *)
Unclosed(f) == \A i \in DOMAIN f : f[i] # Summary
StartsClosed(f) == 1 \in DOMAIN f /\ f[1] = Summary
ClosedOnce(f) == \A i \in DOMAIN f : f[i] = Summary => i = Len(f) \/ f[1] = Summary

LEMMA AppendOpen ==
    ASSUME NEW f \in Seq(Line), NEW g \in Seq(Line), Unclosed(g)
    PROVE  /\ Unclosed(f) <=> Unclosed(f \o g)
           /\ StartsClosed(f) => StartsClosed(f \o g)
<1> DEFINE h == f \o g
<1>1. /\ \A i \in DOMAIN f : i \in DOMAIN h /\ h[i] = f[i]
      /\ \A i \in DOMAIN h : \/ i \in DOMAIN f /\ h[i] = f[i]
                             \/ i - Len(f) \in DOMAIN g /\ h[i] = g[i - Len(f)]
  BY ConcatLines
<1> HIDE DEF h
<1>2. /\ Unclosed(f) <=> Unclosed(h)
      /\ StartsClosed(f) => StartsClosed(h)
  BY <1>1 DEF Unclosed, StartsClosed
<1>3. QED
  BY <1>2 DEF h

LEMMA AppendStart ==
    ASSUME NEW f \in Seq(Line), NEW g \in Seq(Line), StartsClosed(f)
    PROVE  StartsClosed(f \o g)
<1> DEFINE h == f \o g
<1>1. \A i \in DOMAIN f : i \in DOMAIN h /\ h[i] = f[i]
  BY ConcatLines
<1> HIDE DEF h
<1>2. StartsClosed(h)
  BY <1>1 DEF StartsClosed
<1>3. QED
  BY <1>2 DEF h

LEMMA FirstClosed ==
    ASSUME NEW f \in Seq(Line), Unclosed(f) \/ StartsClosed(f)
    PROVE  ClosedOnce(f)
BY DEF Unclosed, StartsClosed, ClosedOnce

(* A summary closes a file that is open, or that was closed at its start.  *)
LEMMA AppendSummary ==
    ASSUME NEW f \in Seq(Line), Unclosed(f) \/ StartsClosed(f)
    PROVE  /\ f \o <<Summary>> \in Seq(Line)
           /\ ClosedOnce(f \o <<Summary>>)
           /\ ~Unclosed(f \o <<Summary>>)
           /\ PosesIn(f) \subseteq PosesIn(f \o <<Summary>>)
<1> DEFINE g == <<Summary>>
           h == f \o g
<1>1. g \in Seq(Line) /\ Len(g) = 1 /\ g[1] = Summary /\ DOMAIN g = {1}
  BY OneLine, Lines
<1>2. h \in Seq(Line) /\ PosesIn(h) = PosesIn(f) \cup PosesIn(g)
  BY <1>1, ConcatLines, ConcatPoses
<1>3. /\ \A i \in DOMAIN f : i \in DOMAIN h /\ h[i] = f[i]
      /\ \A i \in DOMAIN h : \/ i \in DOMAIN f /\ h[i] = f[i]
                             \/ i - Len(f) \in DOMAIN g
      /\ Len(f) + 1 \in DOMAIN h /\ h[Len(f) + 1] = Summary
      /\ Len(h) = Len(f) + 1
  BY <1>1, ConcatLines
<1> HIDE DEF h, g
<1>4. Len(f) \in Nat /\ DOMAIN h = 1 .. Len(h)
  BY <1>2
<1>5. ~Unclosed(h)
  BY <1>3 DEF Unclosed
<1>6. ASSUME NEW i \in DOMAIN h, h[i] = Summary
      PROVE  i = Len(h) \/ h[1] = Summary
  <2>1. CASE i \in DOMAIN f /\ h[i] = f[i]
    BY <2>1, <1>3, <1>6 DEF Unclosed, StartsClosed
  <2>2. CASE i - Len(f) \in DOMAIN g
    BY <2>2, <1>1, <1>3, <1>4
  <2>3. QED
    BY <2>1, <2>2, <1>3
<1>7. QED
  BY <1>2, <1>5, <1>6 DEF ClosedOnce, h, g

(* A file that has no last line that is a summary can be closed again.     *)
LEMMA OpenEnd ==
    ASSUME NEW f \in Seq(Line)
    PROVE  /\ Unclosed(f) => LastLine(f, FALSE) # Summary
           /\ ClosedOnce(f) /\ LastLine(f, FALSE) # Summary => Unclosed(f) \/ StartsClosed(f)
<1>1. Len(f) \in Nat /\ DOMAIN f = 1 .. Len(f)
  OBVIOUS
<1>2. <<>> # Summary
  BY DEF Summary
<1>3. /\ Len(f) >= 2 => LastLine(f, FALSE) = f[Len(f)] /\ Len(f) \in DOMAIN f
      /\ ~(Len(f) >= 2) => LastLine(f, FALSE) = <<>>
  BY <1>1 DEF LastLine
<1>4. ASSUME Unclosed(f)
      PROVE  LastLine(f, FALSE) # Summary
  <2>1. CASE Len(f) >= 2
    <3>1. f[Len(f)] # Summary
      BY <2>1, <1>3, <1>4 DEF Unclosed
    <3>2. QED
      BY <3>1, <2>1, <1>3
  <2>2. CASE ~(Len(f) >= 2)
    BY <2>2, <1>2, <1>3, Zenon
  <2>3. QED
    BY <2>1, <2>2
<1>5. ASSUME ClosedOnce(f), LastLine(f, FALSE) # Summary, ~Unclosed(f)
      PROVE  StartsClosed(f)
  <2>1. PICK i \in DOMAIN f : f[i] = Summary
    BY <1>5 DEF Unclosed
  <2>2. i = Len(f) \/ f[1] = Summary
    BY <2>1, <1>5 DEF ClosedOnce
  <2>3. 1 \in DOMAIN f
    BY <2>1, <1>1
  <2>4. CASE i = Len(f)
    <3>1. ~(Len(f) >= 2)
      BY <2>1, <2>4, <1>3, <1>5, Zenon
    <3>2. i = 1
      BY <3>1, <2>1, <2>4, <1>1
    <3>3. QED
      BY <3>2, <2>1, <2>3 DEF StartsClosed
  <2>5. QED
    BY <2>2, <2>3, <2>4 DEF StartsClosed
<1>6. QED
  BY <1>4, <1>5

(* What the newer orphans hold comes into the oldest.                      *)
LEMMA MergedFacts ==
    ASSUME NEW s, NEW orphans, NEW target \in orphans, orphans \subseteq Epoch,
           \A e \in orphans : s.raw[e] \in Seq(Line) /\ target <= e
    PROVE  /\ Merged(s, orphans, target) \in Seq(Line)
           /\ StartsClosed(s.raw[target]) => StartsClosed(Merged(s, orphans, target))
           /\ \A e \in orphans : PosesIn(s.raw[e]) \subseteq PosesIn(Merged(s, orphans, target))
           /\ orphans = {target} => Merged(s, orphans, target) = s.raw[target]
<1>0. target \in Epoch /\ target \in Nat /\ LastEpoch \in Nat /\ LastEpoch \in target .. LastEpoch
  BY BoundsAssumption DEF Epoch, LastEpoch
<1>1. PICK merged :
        /\ \A e \in target .. LastEpoch :
              merged[e] = IF e = target THEN s.raw[target]
                          ELSE IF e \in orphans THEN merged[e - 1] \o Body(s.raw[e])
                          ELSE merged[e - 1]
        /\ Merged(s, orphans, target) = merged[LastEpoch]
  <2>1. target \in Epoch
    BY <1>0
  <2>2. QED
    BY <2>1, MergedIs
<1> DEFINE Fine(e) ==
             /\ merged[e] \in Seq(Line)
             /\ StartsClosed(s.raw[target]) => StartsClosed(merged[e])
             /\ \A d \in orphans : d <= e => PosesIn(s.raw[d]) \subseteq PosesIn(merged[e])
             /\ orphans = {target} => merged[e] = s.raw[target]
           S == {e \in Nat : Fine(e)}
<1>2. \A e \in orphans : e \in Nat /\ e <= LastEpoch
  BY <1>0 DEF Epoch
<1>3. target \in S
  <2>1. merged[target] = s.raw[target]
    BY <1>0, <1>1
  <2>2. \A d \in orphans : d <= target => d = target
    BY <1>0, <1>2
  <2>3. QED
    BY <2>1, <2>2, <1>0
<1>4. ASSUME NEW e \in target .. LastEpoch, e # target, e - 1 \in S
      PROVE  e \in S
  <2>1. e \in Nat /\ e - 1 \in Nat
    BY <1>4, <1>0
  <2>2. merged[e] = IF e \in orphans THEN merged[e - 1] \o Body(s.raw[e]) ELSE merged[e - 1]
    BY <1>1, <1>4
  <2>3. Fine(e - 1)
    BY <1>4
  <2>4. \A d \in orphans : d <= e => d <= e - 1 \/ d = e
    BY <2>1, <1>2
  <2>5. CASE e \in orphans
    <3>1. Body(s.raw[e]) \in Seq(Line) /\ PosesIn(s.raw[e]) \subseteq PosesIn(Body(s.raw[e]))
      BY <2>5, BodyKeepsPoses
    <3>2. merged[e] = merged[e - 1] \o Body(s.raw[e]) /\ merged[e - 1] \in Seq(Line)
      BY <2>2, <2>3, <2>5
    <3>3. /\ merged[e] \in Seq(Line)
          /\ PosesIn(merged[e]) = PosesIn(merged[e - 1]) \cup PosesIn(Body(s.raw[e]))
      BY <3>1, <3>2, ConcatLines, ConcatPoses
    <3>4. StartsClosed(merged[e - 1]) => StartsClosed(merged[e])
      BY <3>1, <3>2, AppendStart
    <3>5. \A d \in orphans : d <= e => PosesIn(s.raw[d]) \subseteq PosesIn(merged[e])
      BY <3>1, <3>3, <2>3, <2>4
    <3>6. orphans # {target}
      BY <2>5, <1>4
    <3>7. QED
      BY <2>1, <2>3, <3>3, <3>4, <3>5, <3>6
  <2>6. CASE e \notin orphans
    <3>1. merged[e] = merged[e - 1]
      BY <2>2, <2>6
    <3>2. \A d \in orphans : d <= e => d <= e - 1
      BY <2>4, <2>6
    <3>3. QED
      BY <2>1, <2>3, <3>1, <3>2
  <2>7. QED
    BY <2>5, <2>6
<1>5. LastEpoch \in S
  <2>1. \A e \in target .. LastEpoch : e # target /\ e - 1 \in S => e \in S
    BY <1>4
  <2> HIDE DEF S
  <2>2. \A e \in target .. LastEpoch : e \in S
    BY <1>0, <1>3, <2>1, UpTo, Zenon
  <2>3. QED
    BY <1>0, <2>2
<1>6. Fine(LastEpoch)
  BY <1>5
<1>7. QED
  BY <1>1, <1>2, <1>6

-----------------------------------------------------------------------------
(* The recorder and its files.                                             *)

Waiter == {"header", "summary"}
Ram == [prev: {"unknown", "cleaning", "other"}, recovered: BOOLEAN,
        fetch: {"none", "check", "state", "pos"},
        collecting: BOOLEAN, recharging: BOOLEAN, snaps: Nat,
        active: Epoch \cup {None}, open: BOOLEAN,
        buf: Seq({Pose(n) : n \in 1 .. MaxPoses}),
        motors: Seq(1 .. MaxPoses), charger: Seq(Waiter),
        guard: BOOLEAN, compressing: Epoch \cup {None}, inputDone: BOOLEAN,
        importing: BOOLEAN, pending: Meta, meta: [Name -> Meta \cup {None}]]
Raw == [Epoch -> Seq(Line) \cup {NoFile}]
Hs == [Epoch -> Compressed \cup {NoFile}]
Moment == [ram: Ram, raw: Raw, hs: Hs, dropped: SUBSET (1 .. MaxPoses), next: Nat]

Has(s, e) == s.raw[e] # NoFile
HasHs(s, e) == s.hs[e] # NoFile

(* What is asked for, and what a callback may still find.                  *)
Ends(r) == \E i \in DOMAIN r.charger : r.charger[i] = "summary"
Phases(r) ==
    /\ r.fetch = "check" => ~r.collecting
    /\ r.fetch \in {"state", "pos"} => r.collecting
    /\ r.fetch \in {"state", "pos"} => ~Ends(r)
    /\ r.compressing # None => ~r.collecting
    /\ r.compressing # None => r.fetch = "none"
    /\ \A i \in DOMAIN r.charger : r.charger[i] = "summary" => r.collecting /\ i = Len(r.charger)
    /\ r.open = r.collecting
    /\ r.collecting => r.recovered
    /\ ~r.recovered => r.prev = "unknown"

(* The file that is recorded, and the one that is compressed, are there.   *)
Recording(s) ==
    s.ram.collecting =>
        /\ s.ram.active \in Epoch
        /\ Has(s, s.ram.active) /\ ~HasHs(s, s.ram.active)
        /\ Unclosed(s.raw[s.ram.active]) \/ StartsClosed(s.raw[s.ram.active])
Compressing(s) ==
    s.ram.compressing # None =>
        /\ Has(s, s.ram.compressing)
        /\ HasHs(s, s.ram.compressing) /\ ~s.hs[s.ram.compressing].whole

(* A compressed file replaces the raw one, or it is being written, or the  *)
(* power failed before the raw one was removed.                            *)
Copies(s, torn) ==
    \A e \in Epoch : HasHs(s, e) =>
        \/ s.hs[e].whole /\ ~Has(s, e)
        \/ e \in torn
        \/ ~s.hs[e].whole /\ (s.ram.compressing = e \/ (s.ram.importing /\ e = Backup))

Numbered(s) ==
    /\ s.next >= Backup + 1
    /\ \A e \in Epoch : e >= s.next => ~Has(s, e) /\ ~HasHs(s, e)
    /\ ~Has(s, Backup)
    /\ InHs(s, Backup) = {}

Summaries(s) ==
    \A e \in Epoch : /\ Has(s, e) => ClosedOnce(s.raw[e])
                     /\ HasHs(s, e) => ClosedOnce(s.hs[e].lines)

(* Only the newest session can be open: it is recorded, or the power has   *)
(* failed and nothing was recorded since.                                  *)
OpenIsNewest(s) ==
    \A e \in Epoch : Has(s, e) /\ Unclosed(s.raw[e]) =>
        /\ ~HasHs(s, e)
        /\ \A d \in Epoch : d > e => ~Has(s, d) /\ ~HasHs(s, d)
        /\ s.ram.recovered => s.ram.collecting /\ s.ram.active = e

Sound(s, torn) ==
    /\ Recording(s)
    /\ Compressing(s)
    /\ Copies(s, torn)
    /\ Numbered(s)
    /\ Summaries(s)
    /\ OpenIsNewest(s)

(* No pose is lost from s to t.                                            *)
Keeps(s, t) == OnDisk(s) \cup s.dropped \subseteq OnDisk(t) \cup t.dropped

(* No file loses a pose, and no copy goes.                                 *)
Grows(s, t) ==
    \A e \in Epoch : InRaw(s, e) \subseteq InRaw(t, e) /\ (HasHs(s, e) => HasHs(t, e))

SameRole(q, r) ==
    /\ r.collecting = q.collecting /\ r.active = q.active /\ r.open = q.open
    /\ r.compressing = q.compressing /\ r.importing = q.importing
    /\ r.recovered = q.recovered

(* Nothing is open but what is recorded.                                   *)
OnlyRecorded(s) ==
    \A e \in Epoch : Has(s, e) /\ Unclosed(s.raw[e]) => s.ram.collecting /\ s.ram.active = e

LEMMA Names ==
    /\ Backup \in Epoch /\ Backup = 1 /\ LastEpoch \in Nat /\ Epoch \subseteq Nat
    /\ \A e \in Epoch : e >= 1 /\ e <= LastEpoch
    /\ None \notin Epoch /\ NoFile \notin Seq(Line) /\ NoFile \notin Compressed
BY BoundsAssumption, NoneAssumption, NoFileAssumption DEF Epoch, LastEpoch, Backup

LEMMA MomentFields ==
    ASSUME NEW s \in Moment
    PROVE  /\ s.ram \in Ram /\ s.raw \in Raw /\ s.hs \in Hs
           /\ s.dropped \subseteq 1 .. MaxPoses /\ s.next \in Nat
BY DEF Moment

LEMMA FileIs ==
    ASSUME NEW s \in Moment, NEW e \in Epoch
    PROVE  /\ Has(s, e) => s.raw[e] \in Seq(Line)
           /\ HasHs(s, e) => s.hs[e] \in Compressed
           /\ HasHs(s, e) => s.hs[e].lines \in Seq(Line) /\ s.hs[e].whole \in BOOLEAN
BY DEF Moment, Raw, Hs, Has, HasHs, Compressed

(* Nothing but the recorder's part in the files matters to them.           *)
LEMMA Frame ==
    ASSUME NEW s, NEW t, NEW torn, Sound(s, torn),
           t.raw = s.raw, t.hs = s.hs, t.next = s.next, t.dropped = s.dropped,
           SameRole(s.ram, t.ram)
    PROVE  Sound(t, torn) /\ Keeps(s, t)
<1>1. Recording(t) /\ Compressing(t)
  BY DEF Sound, Recording, Compressing, Has, HasHs, SameRole
<1>2. Copies(t, torn) /\ Summaries(t)
  BY DEF Sound, Copies, Summaries, Has, HasHs, SameRole
<1>3. Numbered(t)
  BY DEF Sound, Numbered, Has, HasHs, InHs
<1>4. OpenIsNewest(t)
  BY DEF Sound, OpenIsNewest, Has, HasHs, SameRole
<1>5. Keeps(s, t)
  BY DEF Keeps, OnDisk, InRaw, InHs
<1>6. QED
  BY <1>1, <1>2, <1>3, <1>4, <1>5 DEF Sound

(* From then on the recorder has recovered.                                *)
LEMMA Recovers ==
    ASSUME NEW s, NEW t, NEW torn, Sound(s, torn), OnlyRecorded(s),
           t.raw = s.raw, t.hs = s.hs, t.next = s.next, t.dropped = s.dropped,
           t.ram.collecting = s.ram.collecting, t.ram.active = s.ram.active,
           t.ram.compressing = s.ram.compressing, t.ram.importing = s.ram.importing
    PROVE  Sound(t, torn) /\ Keeps(s, t)
<1>1. Recording(t) /\ Compressing(t)
  BY DEF Sound, Recording, Compressing, Has, HasHs
<1>2. Copies(t, torn) /\ Summaries(t)
  BY DEF Sound, Copies, Summaries, Has, HasHs
<1>3. Numbered(t)
  BY DEF Sound, Numbered, Has, HasHs, InHs
<1>4. OpenIsNewest(t)
  BY DEF Sound, OpenIsNewest, OnlyRecorded, Has, HasHs
<1>5. Keeps(s, t)
  BY DEF Keeps, OnDisk, InRaw, InHs
<1>6. QED
  BY <1>1, <1>2, <1>3, <1>4, <1>5 DEF Sound

(* What is on the disk of t is known file by file.                         *)
LEMMA KeepsIf ==
    ASSUME NEW s, NEW t, s.dropped \subseteq t.dropped,
           \A e \in Epoch : InRaw(s, e) \subseteq OnDisk(t) \cup t.dropped,
           \A e \in Epoch : InHs(s, e) \subseteq OnDisk(t) \cup t.dropped
    PROVE  Keeps(s, t)
BY DEF Keeps, OnDisk

LEMMA OnDiskHas ==
    ASSUME NEW s, NEW e \in Epoch
    PROVE  InRaw(s, e) \subseteq OnDisk(s) /\ InHs(s, e) \subseteq OnDisk(s)
BY DEF OnDisk

LEMMA KeepsTrans ==
    ASSUME NEW s, NEW t, NEW u, Keeps(s, t), Keeps(t, u)
    PROVE  Keeps(s, u)
BY DEF Keeps

LEMMA GrowsTrans ==
    ASSUME NEW s, NEW t, NEW u, Grows(s, t), Grows(t, u)
    PROVE  Grows(s, u)
BY DEF Grows

(* A file that is open is an orphan until the recorder has recovered.      *)
LEMMA OpenIsOrphan ==
    ASSUME NEW s \in Moment, NEW torn, Sound(s, torn),
           NEW e \in Epoch, Has(s, e), Unclosed(s.raw[e])
    PROVE  e \in Orphans(s)
<1>1. /\ ~HasHs(s, e)
      /\ \A d \in Epoch : d > e => ~HasHs(s, d)
  BY DEF Sound, OpenIsNewest
<1>2. \A d \in Epoch : s.hs[d] # NoFile => d < e
  BY <1>1, Names DEF HasHs
<1>3. e \in Scanned(s) /\ e \notin Stale(s)
  BY <1>1, <1>2 DEF Scanned, Stale, Has, HasHs
<1>4. LastLine(s.raw[e], FALSE) # Summary
  BY FileIs, OpenEnd
<1>5. QED
  BY <1>3, <1>4 DEF Orphans

LEMMA OrphanIs ==
    ASSUME NEW s \in Moment, NEW torn, Sound(s, torn), NEW e \in Orphans(s)
    PROVE  /\ e \in Epoch /\ Has(s, e) /\ ~HasHs(s, e) /\ s.raw[e] \in Seq(Line)
           /\ Unclosed(s.raw[e]) \/ StartsClosed(s.raw[e])
           /\ e # Backup /\ e < s.next
<1>1. e \in Epoch /\ Has(s, e) /\ ~HasHs(s, e) /\ LastLine(s.raw[e], FALSE) # Summary
  BY DEF Orphans, Scanned, Stale, Has, HasHs
<1>2. s.raw[e] \in Seq(Line)
  BY <1>1, FileIs
<1>3. ClosedOnce(s.raw[e])
  BY <1>1 DEF Sound, Summaries
<1>4. Unclosed(s.raw[e]) \/ StartsClosed(s.raw[e])
  BY <1>1, <1>2, <1>3, OpenEnd
<1>5. e # Backup /\ e < s.next
  BY <1>1, Names, MomentFields DEF Sound, Numbered
<1>6. QED
  BY <1>1, <1>2, <1>4, <1>5

(* No raw file that is scanned has a copy.                                 *)
LEMMA NothingStale ==
    ASSUME NEW s \in Moment
    PROVE  Unstale(s) = s
<1>1. Stale(s) = {}
  <2>1. ASSUME NEW e \in Stale(s)
        PROVE  FALSE
    <3>1. e \in Epoch /\ e < e
      BY DEF Stale, Scanned
    <3>2. QED
      BY <3>1, Names
  <2>2. QED
    BY <2>1
<1>2. [e \in Epoch |-> IF e \in Stale(s) THEN NoFile ELSE s.raw[e]] = s.raw
  BY <1>1, MomentFields DEF Raw
<1>3. QED
  BY <1>2 DEF Unstale, Moment

-----------------------------------------------------------------------------
(* What the handlers do to the files.                                      *)

(* t is s but for the file of e, or its compressed one.                    *)
RawIs(s, t, e, f) == t = [s EXCEPT !.raw[e] = f]
HsIs(s, t, e, f) == t = [s EXCEPT !.hs[e] = f]

LEMMA RawChange ==
    ASSUME NEW s \in Moment, NEW e \in Epoch, NEW f \in Seq(Line) \cup {NoFile},
           NEW t, RawIs(s, t, e, f)
    PROVE  /\ t \in Moment
           /\ t.raw[e] = f /\ \A d \in Epoch : d # e => t.raw[d] = s.raw[d]
           /\ t.ram = s.ram /\ t.hs = s.hs /\ t.next = s.next /\ t.dropped = s.dropped
<1>1. s.raw \in Raw
  BY MomentFields
<1> DEFINE w == [s.raw EXCEPT ![e] = f]
<1>2. w \in Raw /\ w[e] = f /\ \A d \in Epoch : d # e => w[d] = s.raw[d]
  BY <1>1 DEF Raw
<1>3. t = [s EXCEPT !.raw = w]
  BY DEF Moment, RawIs
<1> HIDE DEF w
<1>4. t \in Moment /\ t.raw = w
  BY <1>2, <1>3 DEF Moment
<1>5. t.ram = s.ram /\ t.hs = s.hs /\ t.next = s.next /\ t.dropped = s.dropped
  BY <1>3 DEF Moment
<1>6. QED
  BY <1>2, <1>4, <1>5

LEMMA HsChange ==
    ASSUME NEW s \in Moment, NEW e \in Epoch, NEW f \in Compressed \cup {NoFile},
           NEW t, HsIs(s, t, e, f)
    PROVE  /\ t \in Moment
           /\ t.hs[e] = f /\ \A d \in Epoch : d # e => t.hs[d] = s.hs[d]
           /\ t.ram = s.ram /\ t.raw = s.raw /\ t.next = s.next /\ t.dropped = s.dropped
<1>1. s.hs \in Hs
  BY MomentFields
<1> DEFINE w == [s.hs EXCEPT ![e] = f]
<1>2. w \in Hs /\ w[e] = f /\ \A d \in Epoch : d # e => w[d] = s.hs[d]
  BY <1>1 DEF Hs
<1>3. t = [s EXCEPT !.hs = w]
  BY DEF Moment, HsIs
<1> HIDE DEF w
<1>4. t \in Moment /\ t.hs = w
  BY <1>2, <1>3 DEF Moment
<1>5. t.ram = s.ram /\ t.raw = s.raw /\ t.next = s.next /\ t.dropped = s.dropped
  BY <1>3 DEF Moment
<1>6. QED
  BY <1>2, <1>4, <1>5

(* Lines that close nothing are added to the file that is recorded.        *)
LEMMA WriteSound ==
    ASSUME NEW s \in Moment, NEW torn, Sound(s, torn), s.ram.open = s.ram.collecting,
           NEW g \in Seq(Line), Unclosed(g)
    PROVE  /\ Write(s, g) \in Moment /\ Sound(Write(s, g), torn) /\ Keeps(s, Write(s, g))
           /\ Write(s, g).ram = s.ram /\ Write(s, g).next = s.next
           /\ Write(s, g).hs = s.hs /\ Grows(s, Write(s, g))
           /\ OnlyRecorded(s) => OnlyRecorded(Write(s, g))
<1> DEFINE a == s.ram.active
           t == [s EXCEPT !.raw[a] = @ \o g]
<1>1. CASE ~(s.ram.open /\ s.raw[a] # NoFile)
  <2>1. Write(s, g) = s
    BY <1>1 DEF Write
  <2>2. QED
    BY <2>1 DEF Keeps, Grows
<1>2. CASE s.ram.open /\ s.raw[a] # NoFile
  <2>1. Write(s, g) = t
    BY <1>2 DEF Write
  <2>2. a \in Epoch /\ Has(s, a) /\ ~HasHs(s, a) /\ s.ram.collecting
        /\ (Unclosed(s.raw[a]) \/ StartsClosed(s.raw[a]))
    BY <1>2 DEF Sound, Recording
  <2> DEFINE f == s.raw[a] \o g
  <2>3. s.raw[a] \in Seq(Line) /\ s.raw \in Raw
    BY <2>2, FileIs, MomentFields
  <2>4. f \in Seq(Line) /\ PosesIn(f) = PosesIn(s.raw[a]) \cup PosesIn(g)
    BY <2>3, ConcatLines, ConcatPoses
  <2>5. /\ Unclosed(s.raw[a]) <=> Unclosed(f)
        /\ StartsClosed(s.raw[a]) => StartsClosed(f)
    BY <2>3, AppendOpen
  <2>6. f \in Seq(Line) \cup {NoFile} /\ RawIs(s, t, a, f)
    BY <2>4 DEF RawIs
  <2> HIDE DEF t, f, a
  <2>7. t \in Moment /\ t.ram = s.ram /\ t.hs = s.hs /\ t.next = s.next /\ t.dropped = s.dropped
    BY <2>2, <2>6, RawChange
  <2>8. t.raw[a] = f /\ \A e \in Epoch : e # a => t.raw[e] = s.raw[e]
    <3>1. a \in Epoch
      BY <2>2
    <3>2. f \in Seq(Line) \cup {NoFile}
      BY <2>6
    <3>3. RawIs(s, t, a, f)
      BY <2>6
    <3>4. t.raw[a] = f
      BY <3>1, <3>2, <3>3, RawChange
    <3>5. \A d \in Epoch : d # a => t.raw[d] = s.raw[d]
      BY <3>1, <3>2, <3>3, RawChange, SMTT(30)
    <3>6. QED
      BY <3>4, <3>5
  <2>9. f # NoFile
    BY <2>4, Names
  <2>10. \A e \in Epoch : (Has(t, e) <=> Has(s, e)) /\ (HasHs(t, e) <=> HasHs(s, e))
    BY <2>7, <2>8, <2>9, <2>2 DEF Has, HasHs
  <2>11. Recording(t)
    BY <2>2, <2>5, <2>7, <2>8, <2>10 DEF Sound, Recording, a
  <2>12. Compressing(t) /\ Copies(t, torn)
    <3>0. s.ram.compressing # None => s.ram.compressing \in Epoch
      BY MomentFields DEF Ram
    <3>1. s.ram.compressing # None => HasHs(t, s.ram.compressing) /\ Has(t, s.ram.compressing)
      BY <3>0, <2>10 DEF Sound, Compressing
    <3>2. Compressing(t)
      BY <3>1, <2>7 DEF Sound, Compressing
    <3>3. Copies(t, torn)
      BY <2>7, <2>10 DEF Sound, Copies
    <3>4. QED
      BY <3>2, <3>3
  <2>13. Numbered(t)
    BY <2>7, <2>10, Names DEF Sound, Numbered, InHs
  <2>14. Summaries(t)
    <3>1. ClosedOnce(f)
      BY <2>2, <2>4, <2>5, FirstClosed
    <3>2. QED
      BY <3>1, <2>7, <2>8, <2>10 DEF Sound, Summaries
  <2>15. OpenIsNewest(t) /\ (OnlyRecorded(s) => OnlyRecorded(t))
    <3>1. \A e \in Epoch : Has(t, e) /\ Unclosed(t.raw[e]) => Has(s, e) /\ Unclosed(s.raw[e])
      BY <2>5, <2>8, <2>10
    <3>2. QED
      BY <3>1, <2>7, <2>10 DEF Sound, OpenIsNewest, OnlyRecorded
  <2>16. Keeps(s, t) /\ Grows(s, t)
    <3>1. \A e \in Epoch : InRaw(s, e) \subseteq InRaw(t, e)
      BY <2>4, <2>8, <2>9 DEF InRaw
    <3>2. \A e \in Epoch : InHs(s, e) = InHs(t, e)
      BY <2>7 DEF InHs
    <3>3. Grows(s, t)
      BY <3>1, <2>10 DEF Grows
    <3>4. QED
      BY <3>1, <3>2, <3>3, <2>7, KeepsIf, OnDiskHas
  <2>17. QED
    BY <2>1, <2>7, <2>11, <2>12, <2>13, <2>14, <2>15, <2>16 DEF Sound
<1>3. QED
  BY <1>1, <1>2

(* The session is closed, and its compression starts.                      *)
LEMMA FinishSound ==
    ASSUME NEW s \in Moment, NEW torn, Sound(s, torn),
           s.ram.collecting, s.ram.open, s.ram.recovered, s.ram.compressing = None,
           NEW v, v = Finish(s)
    PROVE  /\ v \in Moment /\ Sound(v, torn) /\ Keeps(s, v) /\ Grows(s, v)
           /\ v.next = s.next /\ v.ram.collecting = FALSE /\ v.ram.open = FALSE
           /\ v.ram.fetch = s.ram.fetch /\ v.ram.charger = s.ram.charger
           /\ v.ram.prev = s.ram.prev /\ v.ram.recovered = s.ram.recovered
<1> DEFINE a == s.ram.active
           f == s.raw[a] \o <<Summary>>
           u == [s EXCEPT !.raw[a] = f]
           new == [lines |-> <<>>, whole |-> FALSE]
           r == [s.ram EXCEPT !.pending.summary = TRUE, !.open = FALSE, !.collecting = FALSE,
                              !.recharging = FALSE, !.compressing = a, !.inputDone = FALSE]
           x == [u EXCEPT !.ram = r]
           y == [x EXCEPT !.hs[a] = new]
<1>1. /\ a \in Epoch /\ Has(s, a) /\ ~HasHs(s, a)
      /\ Unclosed(s.raw[a]) \/ StartsClosed(s.raw[a])
  BY DEF Sound, Recording
<1>2. s.raw[a] \in Seq(Line) /\ s.raw \in Raw /\ s.ram \in Ram
  BY <1>1, FileIs, MomentFields
<1>3. /\ f \in Seq(Line) /\ ClosedOnce(f) /\ ~Unclosed(f)
      /\ PosesIn(s.raw[a]) \subseteq PosesIn(f)
  BY <1>1, <1>2, AppendSummary
<1>4. r \in Ram
  BY <1>1, <1>2, ZenonT(30) DEF Ram, Meta
<1>5. /\ r.compressing = a /\ r.importing = s.ram.importing
      /\ r.collecting = FALSE /\ r.open = FALSE
  BY <1>2 DEF Ram
<1>6. /\ r.fetch = s.ram.fetch /\ r.charger = s.ram.charger
      /\ r.prev = s.ram.prev /\ r.recovered = s.ram.recovered
  BY <1>2 DEF Ram
<1>7. v = y
  <2> DEFINE p == [s.ram EXCEPT !.pending.summary = TRUE]
             q == [p EXCEPT !.open = FALSE, !.collecting = FALSE, !.recharging = FALSE]
             w == [u EXCEPT !.ram = q]
  <2>1. Write(s, <<Summary>>) = u
    BY <1>1 DEF Write, Has
  <2>2. WriteSummary(s) = [u EXCEPT !.ram = p]
    BY <2>1 DEF WriteSummary, Moment
  <2>3. Finish(s) = StartCompression(w, a)
    BY <2>2 DEF Finish, Moment
  <2>4. w.raw[a] # NoFile
    BY <1>1, <1>2, <1>3, Names DEF Moment, Raw
  <2>5. r = [q EXCEPT !.compressing = a, !.inputDone = FALSE]
    BY <1>2 DEF Ram
  <2>6. StartCompression(w, a) = y
    BY <2>4, <2>5 DEF StartCompression, Moment
  <2>7. QED
    BY <2>3, <2>6
<1>8. new \in Compressed /\ new.lines = <<>> /\ ~new.whole
  BY DEF Compressed
<1>9. RawIs(s, u, a, f) /\ HsIs(x, y, a, new)
  BY DEF RawIs, HsIs
<1> HIDE DEF u, f, y, new
<1>10. u \in Moment /\ u.hs = s.hs /\ u.next = s.next /\ u.dropped = s.dropped
  BY <1>1, <1>3, <1>9, RawChange
<1>11. u.raw[a] = f
  BY <1>1, <1>3, <1>9, RawChange
<1>12. \A e \in Epoch : e # a => u.raw[e] = s.raw[e]
  BY <1>1, <1>3, <1>9, RawChange
<1> HIDE DEF r
<1>13. /\ x \in Moment /\ x.ram = r /\ x.raw = u.raw
       /\ x.hs = s.hs /\ x.next = s.next /\ x.dropped = s.dropped
  BY <1>4, <1>10 DEF Moment
<1> HIDE DEF x
<1>14. y \in Moment /\ y.ram = r /\ y.raw = u.raw /\ y.next = s.next /\ y.dropped = s.dropped
  BY <1>1, <1>8, <1>9, <1>13, HsChange
<1>15. y.hs[a] = new
  BY <1>1, <1>8, <1>9, <1>13, HsChange
<1>16. \A e \in Epoch : e # a => y.hs[e] = s.hs[e]
  BY <1>1, <1>8, <1>9, <1>13, HsChange
<1> HIDE DEF a
<1>17. y.raw[a] = f /\ \A e \in Epoch : e # a => y.raw[e] = s.raw[e]
  BY <1>11, <1>12, <1>14
<1>18. f # NoFile /\ new # NoFile
  BY <1>3, <1>8, Names
<1>19. /\ \A e \in Epoch : Has(y, e) <=> Has(s, e)
       /\ \A e \in Epoch : e # a => (HasHs(y, e) <=> HasHs(s, e))
       /\ Has(y, a) /\ HasHs(y, a)
  BY <1>1, <1>15, <1>16, <1>17, <1>18 DEF Has, HasHs
<1>20. Recording(y) /\ Compressing(y)
  BY <1>5, <1>8, <1>14, <1>15, <1>19 DEF Recording, Compressing
<1>21. Copies(y, torn)
  <2>1. ASSUME NEW e \in Epoch, HasHs(y, e), e # a
        PROVE  \/ y.hs[e].whole /\ ~Has(y, e)
               \/ e \in torn
               \/ ~y.hs[e].whole /\ y.ram.importing /\ e = Backup
    <3>1. s.ram.compressing # e
      BY Names
    <3>2. QED
      BY <2>1, <3>1, <1>5, <1>14, <1>16, <1>19 DEF Sound, Copies
  <2>2. y.ram.compressing = a /\ ~y.hs[a].whole
    BY <1>5, <1>8, <1>14, <1>15
  <2>3. QED
    BY <2>1, <2>2 DEF Copies
<1>22. Numbered(y)
  <2>1. a # Backup
    BY <1>1 DEF Sound, Numbered
  <2>2. a < s.next /\ a \in Nat /\ s.next \in Nat
    BY <1>1, Names, MomentFields DEF Sound, Numbered
  <2>3. y.hs[Backup] = s.hs[Backup] /\ InHs(y, Backup) = InHs(s, Backup)
    BY <2>1, <1>16, Names DEF InHs
  <2>4. \A e \in Epoch : e >= y.next => e # a
    BY <2>2, <1>14, Names
  <2>5. QED
    BY <2>3, <2>4, <1>14, <1>19, Names DEF Sound, Numbered
<1>23. Summaries(y)
  <2>1. ClosedOnce(new.lines)
    BY <1>8 DEF ClosedOnce
  <2>2. QED
    BY <2>1, <1>3, <1>15, <1>16, <1>17, <1>19 DEF Sound, Summaries
<1>24. OpenIsNewest(y)
  <2>1. ASSUME NEW e \in Epoch, Has(y, e), Unclosed(y.raw[e])
        PROVE  FALSE
    <3>1. e # a
      BY <2>1, <1>3, <1>17
    <3>2. Has(s, e) /\ Unclosed(s.raw[e])
      BY <2>1, <3>1, <1>17, <1>19
    <3>3. QED
      BY <3>1, <3>2 DEF Sound, OpenIsNewest, a
  <2>2. QED
    BY <2>1 DEF OpenIsNewest
<1>25. Keeps(s, y) /\ Grows(s, y)
  <2>1. \A e \in Epoch : InRaw(s, e) \subseteq InRaw(y, e)
    BY <1>3, <1>17, <1>18 DEF InRaw
  <2>2. InHs(s, a) = {}
    BY <1>1 DEF InHs, HasHs
  <2>3. \A e \in Epoch : InHs(s, e) \subseteq InHs(y, e)
    BY <2>2, <1>16 DEF InHs
  <2>4. Grows(s, y)
    BY <2>1, <1>19 DEF Grows
  <2>5. QED
    BY <2>1, <2>3, <2>4, <1>14, KeepsIf, OnDiskHas
<1>26. QED
  BY <1>5, <1>6, <1>7, <1>14, <1>20, <1>21, <1>22, <1>23, <1>24, <1>25 DEF Sound

(* Files are removed, but not those that are recorded or compressed.       *)
LEMMA Shrink ==
    ASSUME NEW s \in Moment, NEW t \in Moment, NEW torn, Sound(s, torn),
           t.next = s.next,
           t.ram.recovered = s.ram.recovered, t.ram.compressing = s.ram.compressing,
           \A e \in Epoch : t.raw[e] = s.raw[e] \/ t.raw[e] = NoFile,
           \A e \in Epoch : t.hs[e] = s.hs[e] \/ t.hs[e] = NoFile,
           t.ram.collecting =>
                /\ s.ram.collecting /\ t.ram.active = s.ram.active
                /\ t.raw[t.ram.active] = s.raw[t.ram.active],
           s.ram.collecting /\ ~t.ram.collecting => t.raw[s.ram.active] = NoFile,
           s.ram.compressing # None =>
                /\ t.raw[s.ram.compressing] = s.raw[s.ram.compressing]
                /\ t.hs[s.ram.compressing] = s.hs[s.ram.compressing],
           t.ram.importing = s.ram.importing \/ t.hs[Backup] = NoFile
    PROVE  Sound(t, torn)
<1>1. /\ \A e \in Epoch : Has(t, e) => Has(s, e) /\ t.raw[e] = s.raw[e]
      /\ \A e \in Epoch : HasHs(t, e) => HasHs(s, e) /\ t.hs[e] = s.hs[e]
  BY DEF Has, HasHs
<1>2. Recording(t)
  BY <1>1 DEF Sound, Recording, Has
<1>3. Compressing(t)
  BY DEF Sound, Compressing, Has, HasHs
<1>4. Copies(t, torn)
  <2>1. ASSUME NEW e \in Epoch, HasHs(t, e)
        PROVE  \/ t.hs[e].whole /\ ~Has(t, e)
               \/ e \in torn
               \/ ~t.hs[e].whole /\ (t.ram.compressing = e \/ (t.ram.importing /\ e = Backup))
    <3>1. e = Backup => t.ram.importing = s.ram.importing
      BY <2>1 DEF HasHs
    <3>2. QED
      BY <2>1, <3>1, <1>1 DEF Sound, Copies
  <2>2. QED
    BY <2>1 DEF Copies
<1>5. Numbered(t)
  <2>1. InHs(t, Backup) \subseteq InHs(s, Backup)
    BY Names DEF InHs
  <2>2. QED
    BY <2>1, <1>1, Names DEF Sound, Numbered
<1>6. Summaries(t)
  BY <1>1 DEF Sound, Summaries
<1>7. OpenIsNewest(t)
  <2>1. ASSUME NEW e \in Epoch, Has(t, e), Unclosed(t.raw[e])
        PROVE  /\ ~HasHs(t, e)
               /\ \A d \in Epoch : d > e => ~Has(t, d) /\ ~HasHs(t, d)
               /\ t.ram.recovered => t.ram.collecting /\ t.ram.active = e
    <3>1. Has(s, e) /\ Unclosed(s.raw[e])
      BY <2>1, <1>1
    <3>2. /\ ~HasHs(s, e)
          /\ \A d \in Epoch : d > e => ~Has(s, d) /\ ~HasHs(s, d)
          /\ s.ram.recovered => s.ram.collecting /\ s.ram.active = e
      BY <3>1 DEF Sound, OpenIsNewest
    <3>3. t.ram.recovered => t.ram.collecting /\ t.ram.active = e
      BY <3>2, <2>1 DEF Has
    <3>4. QED
      BY <3>2, <3>3, <1>1
  <2>2. QED
    BY <2>1 DEF OpenIsNewest
<1>8. QED
  BY <1>2, <1>3, <1>4, <1>5, <1>6, <1>7 DEF Sound

LEMMA RemoveRawIs ==
    ASSUME NEW s \in Moment, NEW e \in Epoch, NEW t, t = RemoveRaw(s, e)
    PROVE  /\ t \in Moment /\ Keeps(s, t)
           /\ t.raw[e] = NoFile /\ \A d \in Epoch : d # e => t.raw[d] = s.raw[d]
           /\ t.ram = s.ram /\ t.hs = s.hs /\ t.next = s.next
<1> DEFINE w == [s EXCEPT !.dropped = @ \cup InRaw(s, e)]
<1>1. s.dropped \cup InRaw(s, e) \subseteq 1 .. MaxPoses
  BY MomentFields DEF InRaw, PosesIn
<1>2. /\ w \in Moment /\ w.raw = s.raw /\ w.ram = s.ram /\ w.hs = s.hs /\ w.next = s.next
      /\ w.dropped = s.dropped \cup InRaw(s, e)
  BY <1>1 DEF Moment
<1>3. RawIs(w, t, e, NoFile)
  BY DEF RemoveRaw, RawIs, Moment
<1> HIDE DEF w
<1>4. NoFile \in Seq(Line) \cup {NoFile}
  OBVIOUS
<1>5. t \in Moment /\ t.ram = s.ram /\ t.hs = s.hs /\ t.next = s.next /\ t.dropped = w.dropped
  BY <1>2, <1>3, <1>4, RawChange, SMTT(30)
<1>6. t.raw[e] = NoFile
  BY <1>2, <1>3, <1>4, RawChange
<1>7. \A d \in Epoch : d # e => t.raw[d] = s.raw[d]
  BY <1>2, <1>3, <1>4, RawChange
<1>8. Keeps(s, t)
  <2>1. \A d \in Epoch : InHs(s, d) = InHs(t, d)
    BY <1>5 DEF InHs
  <2>2. \A d \in Epoch : d # e => InRaw(s, d) = InRaw(t, d)
    BY <1>7 DEF InRaw
  <2>3. InRaw(s, e) \subseteq t.dropped /\ s.dropped \subseteq t.dropped
    BY <1>2, <1>5
  <2>4. QED
    BY <2>1, <2>2, <2>3, KeepsIf, OnDiskHas
<1>9. QED
  BY <1>5, <1>6, <1>7, <1>8

LEMMA RemoveHsIs ==
    ASSUME NEW s \in Moment, NEW e \in Epoch, NEW t, t = RemoveHs(s, e)
    PROVE  /\ t \in Moment /\ Keeps(s, t)
           /\ t.hs[e] = NoFile /\ \A d \in Epoch : d # e => t.hs[d] = s.hs[d]
           /\ t.ram = s.ram /\ t.raw = s.raw /\ t.next = s.next
<1> DEFINE w == [s EXCEPT !.dropped = @ \cup InHs(s, e)]
<1>1. s.dropped \cup InHs(s, e) \subseteq 1 .. MaxPoses
  BY MomentFields DEF InHs, PosesIn
<1>2. /\ w \in Moment /\ w.raw = s.raw /\ w.ram = s.ram /\ w.hs = s.hs /\ w.next = s.next
      /\ w.dropped = s.dropped \cup InHs(s, e)
  BY <1>1 DEF Moment
<1>3. HsIs(w, t, e, NoFile)
  BY DEF RemoveHs, HsIs, Moment
<1> HIDE DEF w
<1>4. NoFile \in Compressed \cup {NoFile}
  OBVIOUS
<1>5. t \in Moment /\ t.ram = s.ram /\ t.raw = s.raw /\ t.next = s.next /\ t.dropped = w.dropped
  BY <1>2, <1>3, <1>4, HsChange
<1>6. t.hs[e] = NoFile
  BY <1>2, <1>3, <1>4, HsChange
<1>7. \A d \in Epoch : d # e => t.hs[d] = s.hs[d]
  BY <1>2, <1>3, <1>4, HsChange
<1>8. Keeps(s, t)
  <2>1. \A d \in Epoch : InRaw(s, d) = InRaw(t, d)
    BY <1>5 DEF InRaw
  <2>2. \A d \in Epoch : d # e => InHs(s, d) = InHs(t, d)
    BY <1>7 DEF InHs
  <2>3. InHs(s, e) \subseteq t.dropped /\ s.dropped \subseteq t.dropped
    BY <1>2, <1>5
  <2>4. QED
    BY <2>1, <2>2, <2>3, KeepsIf, OnDiskHas
<1>9. QED
  BY <1>5, <1>6, <1>7, <1>8

LEMMA RemoveSound ==
    ASSUME NEW s \in Moment, NEW torn, Sound(s, torn), NEW n \in Name,
           s.ram.compressing # n[1],
           ~(s.ram.collecting /\ n = <<s.ram.active, "raw">>),
           NEW t, t = RemoveFile(s, n)
    PROVE  /\ t \in Moment /\ Sound(t, torn) /\ Keeps(s, t)
           /\ t.ram = s.ram /\ t.next = s.next
<1>1. n[1] \in Epoch /\ n[2] \in {"raw", "hs"} /\ n = <<n[1], n[2]>>
  BY DEF Name
<1>2. /\ s.ram.compressing # None => s.ram.compressing \in Epoch
      /\ s.ram.collecting => s.ram.active \in Epoch
  BY MomentFields DEF Ram, Sound, Recording
<1>3. CASE n[2] = "raw"
  <2>1. t = RemoveRaw(s, n[1])
    BY <1>3 DEF RemoveFile
  <2>2. t \in Moment /\ Keeps(s, t) /\ t.ram = s.ram /\ t.hs = s.hs /\ t.next = s.next
    BY <2>1, <1>1, RemoveRawIs
  <2>3. t.raw[n[1]] = NoFile /\ \A d \in Epoch : d # n[1] => t.raw[d] = s.raw[d]
    BY <2>1, <1>1, RemoveRawIs
  <2>4. s.ram.collecting => t.raw[s.ram.active] = s.raw[s.ram.active]
    BY <2>3, <1>1, <1>2, <1>3
  <2>5. s.ram.compressing # None => t.raw[s.ram.compressing] = s.raw[s.ram.compressing]
    BY <2>3, <1>1, <1>2
  <2>6. \A e \in Epoch : t.raw[e] = s.raw[e] \/ t.raw[e] = NoFile
    BY <2>3
  <2>7. Sound(t, torn)
    BY <2>2, <2>4, <2>5, <2>6, Shrink
  <2>8. QED
    BY <2>2, <2>7
<1>4. CASE n[2] = "hs"
  <2>1. t = RemoveHs(s, n[1])
    BY <1>4 DEF RemoveFile
  <2>2. t \in Moment /\ Keeps(s, t) /\ t.ram = s.ram /\ t.raw = s.raw /\ t.next = s.next
    BY <2>1, <1>1, RemoveHsIs
  <2>3. t.hs[n[1]] = NoFile /\ \A d \in Epoch : d # n[1] => t.hs[d] = s.hs[d]
    BY <2>1, <1>1, RemoveHsIs
  <2>4. s.ram.compressing # None => t.hs[s.ram.compressing] = s.hs[s.ram.compressing]
    BY <2>3, <1>1, <1>2
  <2>5. \A e \in Epoch : t.hs[e] = s.hs[e] \/ t.hs[e] = NoFile
    BY <2>3
  <2>6. Sound(t, torn)
    BY <2>2, <2>4, <2>5, Shrink
  <2>7. QED
    BY <2>2, <2>6
<1>5. QED
  BY <1>1, <1>3, <1>4

(* What the recorder waits for.                                            *)
SameTalk(q, r) == r.fetch = q.fetch /\ r.charger = q.charger /\ r.prev = q.prev

LEMMA FilesAreNames ==
    ASSUME NEW s
    PROVE  /\ Files(s) \subseteq Name
           /\ \A e \in Epoch : (<<e, "raw">> \in Files(s) <=> Has(s, e))
                               /\ (<<e, "hs">> \in Files(s) <=> HasHs(s, e))
BY DEF Files, Name, Has, HasHs

LEMMA OldestFile ==
    ASSUME NEW s, Files(s) # {}
    PROVE  \E n \in Files(s) : \A m \in Files(s) \ {n} : Older(n, m)
<1> DEFINE E == {e \in Epoch : Has(s, e) \/ HasHs(s, e)}
<1>1. E # {} /\ E \subseteq Nat
  BY Names DEF Files, Has, HasHs
<1>2. PICK e \in E : \A d \in E : e <= d
  BY <1>1, LeastNumber
<1>3. e \in Epoch /\ (Has(s, e) \/ HasHs(s, e))
  BY <1>2
<1>4. \A m \in Files(s) : /\ m = <<m[1], m[2]>> /\ m[1] \in E /\ m[2] \in {"raw", "hs"}
                          /\ m[2] = "raw" => Has(s, m[1])
  BY DEF Files, Has, HasHs
<1> HIDE DEF E
<1>5. \A m \in Files(s) : e < m[1] \/ (e = m[1])
  BY <1>1, <1>2, <1>4
<1>6. CASE Has(s, e)
  <2>1. <<e, "raw">> \in Files(s)
    BY <1>3, <1>6, FilesAreNames
  <2>2. ASSUME NEW m \in Files(s), m # <<e, "raw">>
        PROVE  Older(<<e, "raw">>, m)
    BY <2>2, <1>4, <1>5 DEF Older
  <2>3. QED
    BY <2>1, <2>2
<1>7. CASE ~Has(s, e)
  <2>1. <<e, "hs">> \in Files(s)
    BY <1>3, <1>7, FilesAreNames
  <2>2. ASSUME NEW m \in Files(s), m # <<e, "hs">>
        PROVE  Older(<<e, "hs">>, m)
    BY <2>2, <1>4, <1>5, <1>7 DEF Older
  <2>3. QED
    BY <2>1, <2>2
<1>8. QED
  BY <1>6, <1>7

LEMMA ForgetIs ==
    ASSUME NEW s \in Moment, NEW n \in Name, NEW t, t = [s EXCEPT !.ram.meta[n] = None]
    PROVE  /\ t \in Moment /\ SameRole(s.ram, t.ram) /\ SameTalk(s.ram, t.ram)
           /\ t.raw = s.raw /\ t.hs = s.hs /\ t.next = s.next /\ t.dropped = s.dropped
<1> DEFINE r == [s.ram EXCEPT !.meta[n] = None]
<1>1. s.ram \in Ram
  BY MomentFields
<1>2. r \in Ram
  BY <1>1 DEF Ram
<1>3. SameRole(s.ram, r) /\ SameTalk(s.ram, r)
  BY <1>1 DEF Ram, SameRole, SameTalk
<1>4. t = [s EXCEPT !.ram = r]
  BY DEF Moment
<1> HIDE DEF r
<1>5. t \in Moment /\ t.ram = r
  BY <1>2, <1>4 DEF Moment
<1>6. t.raw = s.raw /\ t.hs = s.hs /\ t.next = s.next /\ t.dropped = s.dropped
  BY <1>4 DEF Moment
<1>7. QED
  BY <1>3, <1>5, <1>6

(* The oldest file may go, unless it is recorded or compressed.            *)
LEMMA EnforceSound ==
    ASSUME NEW s \in Moment, NEW torn, Sound(s, torn),
           \A n \in Files(s) : (\A m \in Files(s) \ {n} : Older(n, m)) =>
                /\ s.ram.compressing # n[1]
                /\ ~(s.ram.collecting /\ n = <<s.ram.active, "raw">>),
           NEW t, t = EnforceLimits(s)
    PROVE  /\ t \in Moment /\ Sound(t, torn) /\ Keeps(s, t) /\ t.next = s.next
           /\ SameRole(s.ram, t.ram) /\ SameTalk(s.ram, t.ram)
<1>1. CASE ~(Cardinality(Files(s)) > MaxFiles)
  <2>1. t = s
    BY <1>1 DEF EnforceLimits
  <2>2. QED
    BY <2>1 DEF Keeps, SameRole, SameTalk
<1>2. CASE Cardinality(Files(s)) > MaxFiles
  <2> DEFINE n == CHOOSE x \in Files(s) : \A m \in Files(s) \ {x} : Older(x, m)
             u == RemoveFile(s, n)
  <2>1. Files(s) # {}
    BY <1>2, FS_EmptySet, BoundsAssumption
  <2>2. n \in Files(s) /\ \A m \in Files(s) \ {n} : Older(n, m)
    BY <2>1, OldestFile
  <2>3. t = [u EXCEPT !.ram.meta[n] = None]
    BY <1>2 DEF EnforceLimits
  <2> HIDE DEF n
  <2>4. n \in Name /\ s.ram.compressing # n[1]
        /\ ~(s.ram.collecting /\ n = <<s.ram.active, "raw">>)
    BY <2>2, FilesAreNames
  <2>5. u \in Moment /\ Sound(u, torn) /\ Keeps(s, u) /\ u.ram = s.ram /\ u.next = s.next
    BY <2>4, RemoveSound
  <2> HIDE DEF u
  <2>6. /\ t \in Moment /\ SameRole(u.ram, t.ram) /\ SameTalk(u.ram, t.ram)
        /\ t.raw = u.raw /\ t.hs = u.hs /\ t.next = u.next /\ t.dropped = u.dropped
    BY <2>3, <2>4, <2>5, ForgetIs
  <2>7. Sound(t, torn) /\ Keeps(u, t)
    BY <2>5, <2>6, Frame
  <2>8. QED
    BY <2>5, <2>6, <2>7, KeepsTrans
<1>3. QED
  BY <1>1, <1>2

LEMMA HeaderSound ==
    ASSUME NEW s \in Moment, NEW torn, Sound(s, torn), s.ram.open = s.ram.collecting,
           NEW t, t = WriteHeader(s)
    PROVE  /\ t \in Moment /\ Sound(t, torn) /\ Keeps(s, t) /\ t.next = s.next
           /\ SameRole(s.ram, t.ram) /\ SameTalk(s.ram, t.ram) /\ Grows(s, t)
           /\ OnlyRecorded(s) => OnlyRecorded(t)
<1> DEFINE w == Write(s, <<Session>>)
           r == [w.ram EXCEPT !.pending.header = TRUE]
<1>1. <<Session>> \in Seq(Line) /\ Unclosed(<<Session>>)
  BY Lines, OneLine DEF Unclosed
<1>2. /\ w \in Moment /\ Sound(w, torn) /\ Keeps(s, w) /\ w.ram = s.ram /\ w.next = s.next
      /\ OnlyRecorded(s) => OnlyRecorded(w)
      /\ Grows(s, w)
  BY <1>1, WriteSound
<1>3. t = [w EXCEPT !.ram = r]
  BY <1>2 DEF WriteHeader, Moment
<1> HIDE DEF w
<1>4. w.ram \in Ram
  BY <1>2, MomentFields
<1>5. r \in Ram /\ SameRole(w.ram, r) /\ SameTalk(w.ram, r)
  BY <1>4 DEF Ram, Meta, SameRole, SameTalk
<1> HIDE DEF r
<1>6. t \in Moment /\ t.ram = r
  BY <1>2, <1>3, <1>5 DEF Moment
<1>7. t.raw = w.raw /\ t.hs = w.hs /\ t.next = w.next /\ t.dropped = w.dropped
  BY <1>2, <1>3 DEF Moment
<1>8. Sound(t, torn) /\ Keeps(w, t)
  BY <1>2, <1>5, <1>6, <1>7, Frame
<1>9. OnlyRecorded(w) => OnlyRecorded(t)
  BY <1>5, <1>6, <1>7 DEF OnlyRecorded, Has, SameRole
<1>10. Grows(s, t)
  BY <1>2, <1>7 DEF Grows, InRaw, HasHs
<1>11. QED
  BY <1>2, <1>5, <1>6, <1>7, <1>8, <1>9, <1>10, KeepsTrans

(* A new session is the only one that is open.                             *)
LEMMA StartSound ==
    ASSUME NEW s \in Moment, NEW torn, Sound(s, torn),
           ~s.ram.collecting, s.ram.compressing = None,
           s.ram.recovered \/ Orphans(s) = {}, s.next \in Epoch,
           NEW cached, NEW t, t = StartCollection(s, cached)
    PROVE  /\ t \in Moment /\ Sound(t, torn) /\ Keeps(s, t) /\ t.next = s.next + 1
           /\ OnlyRecorded(t)
           /\ t.ram.collecting /\ t.ram.open /\ t.ram.compressing = None
           /\ t.ram.fetch = s.ram.fetch
           /\ t.ram.charger \in {s.ram.charger, Append(s.ram.charger, "header")}
<1> DEFINE e == s.next
           q == [s.ram EXCEPT !.snaps = 0, !.recharging = FALSE,
                              !.pending = [header |-> FALSE, summary |-> FALSE],
                              !.collecting = TRUE, !.active = e, !.open = TRUE, !.guard = TRUE]
           x == [s EXCEPT !.ram = q, !.next = e + 1]
           f == <<>>
           v == [x EXCEPT !.raw[e] = f]
<1>1. s.ram \in Ram /\ e \in Nat /\ e + 1 \in Nat
  BY MomentFields
<1>2. q \in Ram
  BY <1>1, ZenonT(30) DEF Ram, Meta
<1>3. /\ q.collecting /\ q.open /\ q.active = e /\ q.compressing = None
      /\ q.fetch = s.ram.fetch /\ q.charger = s.ram.charger /\ q.importing = s.ram.importing
  BY <1>1 DEF Ram
<1>0. f \in Seq(Line) /\ Unclosed(f) /\ ClosedOnce(f)
  BY DEF Unclosed, ClosedOnce
<1>4. t = GetCharger(v, "header", cached)
  BY ZenonT(30) DEF StartCollection, ResetSession, Moment, Ram
<1>5. RawIs(x, v, e, f)
  BY DEF RawIs
<1> HIDE DEF v, q, f
<1>6. /\ x \in Moment /\ x.ram = q /\ x.next = e + 1
      /\ x.raw = s.raw /\ x.hs = s.hs /\ x.dropped = s.dropped
  BY <1>1, <1>2 DEF Moment
<1> HIDE DEF x
<1>7. f \in Seq(Line) \cup {NoFile} /\ f # NoFile
  BY <1>0, Names
<1>8. v \in Moment /\ v.ram = q /\ v.hs = s.hs /\ v.next = e + 1 /\ v.dropped = s.dropped
  BY <1>5, <1>6, <1>7, RawChange
<1>9. v.raw[e] = f
  BY <1>5, <1>6, <1>7, RawChange
<1>10. \A d \in Epoch : d # e => v.raw[d] = s.raw[d]
  BY <1>5, <1>6, <1>7, RawChange
<1>11. /\ ~Has(s, e) /\ ~HasHs(s, e)
       /\ \A d \in Epoch : d >= e => ~Has(s, d) /\ ~HasHs(s, d)
       /\ e >= Backup + 1 /\ e # Backup
  BY <1>1, Names DEF Sound, Numbered
<1> HIDE DEF e
<1>12. /\ \A d \in Epoch : d # e => (Has(v, d) <=> Has(s, d))
       /\ \A d \in Epoch : HasHs(v, d) <=> HasHs(s, d)
       /\ Has(v, e) /\ v.raw[e] = f
  BY <1>7, <1>8, <1>9, <1>10 DEF Has, HasHs
<1>14. e \in Epoch
  BY DEF e
<1>15. OnlyRecorded(v)
  <2>1. ASSUME NEW d \in Epoch, Has(s, d), Unclosed(s.raw[d])
        PROVE  FALSE
    <3>1. d \in Orphans(s)
      BY <2>1, OpenIsOrphan
    <3>2. s.ram.recovered
      BY <3>1
    <3>3. QED
      BY <2>1, <3>2 DEF Sound, OpenIsNewest
  <2>2. \A d \in Epoch : Has(v, d) /\ Unclosed(v.raw[d]) => d = e
    BY <2>1, <1>10, <1>12
  <2>3. QED
    BY <2>2, <1>3, <1>8 DEF OnlyRecorded
<1>16. Recording(v)
  BY <1>3, <1>8, <1>11, <1>12, <1>0, <1>14 DEF Recording
<1>17. Compressing(v)
  BY <1>3, <1>8 DEF Compressing
<1>18. Copies(v, torn)
  <2>1. ASSUME NEW d \in Epoch, HasHs(v, d)
        PROVE  d # e /\ s.ram.compressing # d
    BY <2>1, <1>11, <1>12, Names
  <2>2. QED
    BY <2>1, <1>3, <1>8, <1>12 DEF Sound, Copies
<1>19. Numbered(v)
  <2>1. InHs(v, Backup) = InHs(s, Backup)
    BY <1>8 DEF InHs
  <2>2. ASSUME NEW d \in Epoch, d >= e + 1
        PROVE  d >= e /\ d # e
    <3>1. d \in Nat /\ e \in Nat
      BY <1>14, Names
    <3>2. QED
      BY <2>2, <3>1
  <2>3. v.next >= Backup + 1
    BY <1>1, <1>8, <1>11, <1>14, Names
  <2>4. QED
    BY <2>1, <2>2, <2>3, <1>8, <1>11, <1>12, Names DEF Sound, Numbered
<1>20. Summaries(v)
  BY <1>8, <1>10, <1>12, <1>0 DEF Sound, Summaries
<1>21. OpenIsNewest(v)
  <2>1. \A d \in Epoch : d > e => d >= e /\ d # e
    BY <1>14, Names
  <2>2. ASSUME NEW d \in Epoch, Has(v, d), Unclosed(v.raw[d])
        PROVE  d = e
    BY <2>2, <1>3, <1>8, <1>15 DEF OnlyRecorded
  <2>3. ~HasHs(v, e) /\ \A d \in Epoch : d > e => ~Has(v, d) /\ ~HasHs(v, d)
    BY <2>1, <1>11, <1>12, <1>14
  <2>4. v.ram.collecting /\ v.ram.active = e
    BY <1>3, <1>8
  <2>5. QED
    BY <2>2, <2>3, <2>4 DEF OpenIsNewest
<1>22. Keeps(s, v)
  <2>1. \A d \in Epoch : InRaw(s, d) \subseteq InRaw(v, d)
    BY <1>10, <1>11 DEF InRaw, Has
  <2>2. \A d \in Epoch : InHs(s, d) = InHs(v, d)
    BY <1>8 DEF InHs
  <2>3. QED
    BY <2>1, <2>2, <1>8, KeepsIf, OnDiskHas
<1>23. Sound(v, torn)
  BY <1>16, <1>17, <1>18, <1>19, <1>20, <1>21 DEF Sound
<1>24. CASE cached
  <2>1. t = WriteHeader(v)
    BY <1>4, <1>24 DEF GetCharger, WithBattery
  <2>2. /\ t \in Moment /\ Sound(t, torn) /\ Keeps(v, t) /\ t.next = v.next
        /\ SameRole(v.ram, t.ram) /\ SameTalk(v.ram, t.ram)
        /\ OnlyRecorded(v) => OnlyRecorded(t)
    BY <2>1, <1>3, <1>8, <1>23, HeaderSound
  <2>3. QED
    BY <2>2, <1>3, <1>8, <1>15, <1>22, KeepsTrans DEF SameRole, SameTalk, e
<1>25. CASE ~cached
  <2> DEFINE r == [v.ram EXCEPT !.charger = Append(@, "header")]
  <2>1. t = [v EXCEPT !.ram = r]
    BY <1>4, <1>8, <1>25 DEF GetCharger, Moment
  <2>2. v.ram \in Ram /\ v.ram.charger \in Seq(Waiter)
    BY <1>8, MomentFields DEF Ram
  <2>3. Append(v.ram.charger, "header") \in Seq(Waiter)
    BY <2>2 DEF Waiter
  <2>4. /\ r \in Ram /\ SameRole(v.ram, r) /\ r.fetch = v.ram.fetch
        /\ r.charger = Append(v.ram.charger, "header")
    BY <2>2, <2>3 DEF Ram, SameRole
  <2> HIDE DEF r
  <2>5. t \in Moment /\ t.ram = r
    BY <2>1, <2>4, <1>8 DEF Moment
  <2>6. t.raw = v.raw /\ t.hs = v.hs /\ t.next = v.next /\ t.dropped = v.dropped
    BY <2>1, <1>8 DEF Moment
  <2>7. Sound(t, torn) /\ Keeps(v, t)
    BY <2>4, <2>5, <2>6, <1>23, Frame
  <2>8. OnlyRecorded(t)
    BY <2>4, <2>5, <2>6, <1>15 DEF OnlyRecorded, Has, SameRole
  <2>9. QED
    BY <2>4, <2>5, <2>6, <2>7, <2>8, <1>3, <1>8, <1>22, KeepsTrans DEF SameRole, e
<1>26. QED
  BY <1>24, <1>25

LEMMA FlushSound ==
    ASSUME NEW s \in Moment, NEW torn, Sound(s, torn), s.ram.open = s.ram.collecting,
           NEW t, t = FlushWriteBuffer(s)
    PROVE  /\ t \in Moment /\ Sound(t, torn) /\ Keeps(s, t) /\ t.next = s.next
           /\ SameRole(s.ram, t.ram) /\ SameTalk(s.ram, t.ram)
           /\ t.hs = s.hs /\ Grows(s, t)
<1> DEFINE g == s.ram.buf
           w == Write(s, g)
           b == IF s.ram.open THEN <<>> ELSE g
           r == [w.ram EXCEPT !.buf = b]
           P == {Pose(n) : n \in 1 .. MaxPoses}
<1>1. g \in Seq(P)
  BY MomentFields DEF Ram
<1>2. P \subseteq Line /\ Summary \notin P
  BY Lines DEF Line
<1> HIDE DEF P
<1>3. g \in Seq(Line) /\ Unclosed(g)
  <2>1. \A i \in DOMAIN g : g[i] \in P
    BY <1>1
  <2>2. g \in Seq(Line)
    BY <1>1, <1>2
  <2>3. QED
    BY <2>1, <2>2, <1>2 DEF Unclosed
<1>4. /\ w \in Moment /\ Sound(w, torn) /\ Keeps(s, w) /\ w.ram = s.ram /\ w.next = s.next
      /\ w.hs = s.hs /\ Grows(s, w)
  BY <1>3, WriteSound
<1>5. b \in Seq(P)
  BY <1>1
<1>6. t = [w EXCEPT !.ram = r]
  BY <1>4 DEF FlushWriteBuffer, Moment
<1> HIDE DEF w, b
<1>7. w.ram \in Ram
  BY <1>4, MomentFields
<1>8. r \in Ram
  BY <1>5, <1>7 DEF Ram, P
<1>9. SameRole(w.ram, r) /\ SameTalk(w.ram, r)
  BY <1>7 DEF Ram, SameRole, SameTalk
<1> HIDE DEF r
<1>10. t \in Moment /\ t.ram = r
  BY <1>4, <1>6, <1>8 DEF Moment
<1>11. t.raw = w.raw /\ t.hs = w.hs /\ t.next = w.next /\ t.dropped = w.dropped
  BY <1>4, <1>6 DEF Moment
<1>12. Sound(t, torn) /\ Keeps(w, t)
  BY <1>4, <1>9, <1>10, <1>11, Frame
<1>13. Grows(s, t)
  BY <1>4, <1>11 DEF Grows, InRaw, HasHs
<1>14. QED
  BY <1>4, <1>9, <1>10, <1>11, <1>12, <1>13, KeepsTrans

(* The end of a session: it is too short, or it is closed now, or when the *)
(* charger answers.                                                        *)
LEMMA StopSound ==
    ASSUME NEW s \in Moment, NEW torn, Sound(s, torn), Phases(s.ram),
           s.ram.collecting, s.ram.fetch = "none", ~Ends(s.ram),
           NEW cached, cached => s.ram.charger = <<>>,
           NEW t, t = StopCollection(s, cached)
    PROVE  /\ t \in Moment /\ Sound(t, torn) /\ Keeps(s, t) /\ t.next = s.next
           /\ Phases(t.ram)
<1> DEFINE g == [s.ram EXCEPT !.guard = FALSE]
           v == [s EXCEPT !.ram = g]
           u == FlushWriteBuffer(v)
           a == u.ram.active
<1>1. s.ram \in Ram
  BY MomentFields
<1>2. g \in Ram /\ SameRole(s.ram, g) /\ SameTalk(s.ram, g)
  BY <1>1 DEF Ram, SameRole, SameTalk
<1>3. /\ v \in Moment /\ v.ram = g /\ v.raw = s.raw /\ v.hs = s.hs
      /\ v.next = s.next /\ v.dropped = s.dropped
  BY <1>2 DEF Moment
<1>4. [s EXCEPT !.ram.guard = FALSE] = v
  BY DEF Moment
<1> HIDE DEF v, g
<1>5. Sound(v, torn) /\ Keeps(s, v)
  BY <1>2, <1>3, Frame
<1>6. v.ram.open = v.ram.collecting
  BY <1>2, <1>3 DEF Phases, SameRole
<1>7. /\ u \in Moment /\ Sound(u, torn) /\ Keeps(v, u) /\ u.next = v.next
      /\ SameRole(v.ram, u.ram) /\ SameTalk(v.ram, u.ram)
  BY <1>3, <1>5, <1>6, FlushSound
<1>8. /\ u.ram.collecting /\ u.ram.open /\ u.ram.recovered
      /\ u.ram.compressing = None /\ u.ram.fetch = "none"
      /\ u.ram.charger = s.ram.charger
      /\ Keeps(s, u) /\ u.next = s.next
  BY <1>1, <1>2, <1>3, <1>5, <1>7, KeepsTrans DEF SameRole, SameTalk, Phases
<1>9. t = IF u.ram.snaps < MinSnapshots
          THEN [RemoveRaw(u, a) EXCEPT
                  !.ram.open = FALSE, !.ram.collecting = FALSE, !.ram.recharging = FALSE]
          ELSE GetCharger(u, "summary", cached)
  BY <1>4 DEF StopCollection
<1> HIDE DEF u
<1>10. \A i \in DOMAIN u.ram.charger : u.ram.charger[i] # "summary"
  BY <1>8 DEF Ends
<1>11. CASE u.ram.snaps < MinSnapshots
  <2> DEFINE w == RemoveRaw(u, a)
             r == [w.ram EXCEPT !.open = FALSE, !.collecting = FALSE, !.recharging = FALSE]
  <2>1. a \in Epoch
    BY <1>7, <1>8 DEF Sound, Recording
  <2>2. w \in Moment /\ Keeps(u, w) /\ w.ram = u.ram /\ w.hs = u.hs /\ w.next = u.next
    BY <2>1, <1>7, RemoveRawIs
  <2>3. w.raw[a] = NoFile /\ \A d \in Epoch : d # a => w.raw[d] = u.raw[d]
    BY <2>1, <1>7, RemoveRawIs
  <2>4. t = [w EXCEPT !.ram = r]
    BY <1>9, <1>11, <2>2 DEF Moment
  <2> HIDE DEF w
  <2>5. w.ram \in Ram
    BY <2>2, MomentFields
  <2>6. r \in Ram /\ r.open = FALSE /\ r.collecting = FALSE /\ SameTalk(w.ram, r)
        /\ r.compressing = w.ram.compressing /\ r.importing = w.ram.importing
        /\ r.recovered = w.ram.recovered
    BY <2>5 DEF Ram, SameTalk
  <2> HIDE DEF r
  <2>7. t \in Moment /\ t.ram = r
    BY <2>2, <2>4, <2>6 DEF Moment
  <2>8. t.raw = w.raw /\ t.hs = w.hs /\ t.next = w.next /\ t.dropped = w.dropped
    BY <2>2, <2>4 DEF Moment
  <2>9. \A e \in Epoch : t.raw[e] = u.raw[e] \/ t.raw[e] = NoFile
    BY <2>3, <2>8
  <2>10. Sound(t, torn)
    BY <1>7, <1>8, <2>2, <2>3, <2>6, <2>7, <2>8, <2>9, Shrink
  <2>11. Keeps(u, t)
    <3>1. Keeps(w, t)
      BY <2>8 DEF Keeps, OnDisk, InRaw, InHs
    <3>2. QED
      BY <3>1, <2>2, KeepsTrans
  <2>12. Phases(t.ram)
    BY <1>8, <1>10, <2>2, <2>6, <2>7, ZenonT(30) DEF Phases, SameTalk, Ends
  <2>13. QED
    BY <2>2, <2>7, <2>8, <2>10, <2>11, <2>12, <1>8, KeepsTrans
<1>12. CASE ~(u.ram.snaps < MinSnapshots) /\ cached
  <2>1. t = Finish(u)
    BY <1>9, <1>12 DEF GetCharger, WithBattery
  <2>2. /\ t \in Moment /\ Sound(t, torn) /\ Keeps(u, t)
        /\ t.next = u.next /\ t.ram.collecting = FALSE /\ t.ram.open = FALSE
        /\ t.ram.fetch = u.ram.fetch /\ t.ram.charger = u.ram.charger
        /\ t.ram.prev = u.ram.prev /\ t.ram.recovered = u.ram.recovered
    BY <2>1, <1>7, <1>8, FinishSound
  <2>3. Phases(t.ram)
    BY <2>2, <1>8, <1>10 DEF Phases, Ends
  <2>4. QED
    BY <2>2, <2>3, <1>8, KeepsTrans
<1>13. CASE ~(u.ram.snaps < MinSnapshots) /\ ~cached
  <2> DEFINE r == [u.ram EXCEPT !.charger = Append(@, "summary")]
  <2>1. t = [u EXCEPT !.ram = r]
    BY <1>7, <1>9, <1>13 DEF GetCharger, Moment
  <2>2. u.ram \in Ram /\ u.ram.charger \in Seq(Waiter)
    BY <1>7, MomentFields DEF Ram
  <2>3. Append(u.ram.charger, "summary") \in Seq(Waiter)
    BY <2>2 DEF Waiter
  <2>4. /\ r \in Ram /\ SameRole(u.ram, r) /\ r.fetch = u.ram.fetch /\ r.prev = u.ram.prev
        /\ r.charger = Append(u.ram.charger, "summary")
    BY <2>2, <2>3 DEF Ram, SameRole
  <2> HIDE DEF r
  <2>5. t \in Moment /\ t.ram = r
    BY <2>1, <2>4, <1>7 DEF Moment
  <2>6. t.raw = u.raw /\ t.hs = u.hs /\ t.next = u.next /\ t.dropped = u.dropped
    BY <2>1, <1>7 DEF Moment
  <2>7. Sound(t, torn) /\ Keeps(u, t)
    BY <2>4, <2>5, <2>6, <1>7, Frame
  <2>8. \A i \in DOMAIN r.charger : r.charger[i] = "summary" => i = Len(r.charger)
    BY <2>2, <2>4, <1>10
  <2>9. Phases(t.ram)
    BY <2>4, <2>5, <2>8, <1>8 DEF Phases, SameRole
  <2>10. QED
    BY <2>5, <2>6, <2>7, <2>9, <1>8, KeepsTrans
<1>14. QED
  BY <1>11, <1>12, <1>13

-----------------------------------------------------------------------------
(* Boot.                                                                   *)

LEMMA CountIs ==
    ASSUME NEW f \in Seq(Line)
    PROVE  Count(f) \in Nat
<1> DEFINE S == {i \in DOMAIN f : f[i][1] = "pose"}
<1>1. S \subseteq 1 .. Len(f) /\ Len(f) \in Nat
  OBVIOUS
<1>2. IsFiniteSet(1 .. Len(f))
  BY <1>1, FS_Interval
<1>3. IsFiniteSet(S)
  BY <1>1, <1>2, FS_Subset
<1> HIDE DEF S
<1>4. Cardinality(S) \in Nat
  BY <1>3, FS_CardinalityType
<1>5. QED
  BY <1>4 DEF Count, S

LEMMA OldestIs ==
    ASSUME NEW O, O \subseteq Epoch, O # {}
    PROVE  Oldest(O) \in O /\ \A d \in O : Oldest(O) <= d
<1>1. O \subseteq Nat
  BY Names
<1>2. \E e \in O : \A d \in O : e <= d
  BY <1>1, LeastNumber
<1>3. QED
  BY <1>2 DEF Oldest

LEMMA NewestIs ==
    ASSUME NEW O, O \subseteq Epoch, O # {}
    PROVE  Newest(O) \in O /\ \A d \in O : d <= Newest(O)
<1> DEFINE S == {LastEpoch - e : e \in O}
<1>1. \A e \in O : e \in Nat /\ LastEpoch \in Nat /\ e <= LastEpoch
  BY Names
<1>2. S \subseteq Nat /\ S # {}
  BY <1>1
<1>3. PICK n \in S : \A m \in S : n <= m
  BY <1>2, LeastNumber
<1>4. PICK e \in O : n = LastEpoch - e
  BY <1>3
<1>5. \A d \in O : d <= e
  <2>1. ASSUME NEW d \in O
        PROVE  d <= e
    <3>1. n <= LastEpoch - d
      BY <1>3
    <3>2. QED
      BY <3>1, <1>1, <1>4
  <2>2. QED
    BY <2>1
<1>6. \E x \in O : \A d \in O : d <= x
  BY <1>5
<1>7. QED
  BY <1>6 DEF Newest

(* Every orphan is closed, so that nothing is open any more.               *)
LEMMA FinalizeSound ==
    ASSUME NEW s \in Moment, NEW torn, Sound(s, torn),
           ~s.ram.collecting, s.ram.compressing = None,
           NEW t, t = FinalizeOrphans(s)
    PROVE  /\ t \in Moment /\ Sound(t, torn) /\ Keeps(s, t) /\ t.next = s.next
           /\ OnlyRecorded(t)
           /\ t.ram.collecting = s.ram.collecting /\ t.ram.open = s.ram.open
           /\ SameTalk(s.ram, t.ram)
<1> DEFINE O == Orphans(s)
<1>1. \A e \in O : /\ e \in Epoch /\ Has(s, e) /\ ~HasHs(s, e) /\ s.raw[e] \in Seq(Line)
                   /\ Unclosed(s.raw[e]) \/ StartsClosed(s.raw[e])
                   /\ e # Backup /\ e < s.next
  BY OrphanIs
<1>2. \A e \in Epoch : Has(s, e) /\ Unclosed(s.raw[e]) => e \in O
  BY OpenIsOrphan
<1>3. Unstale(s) = s
  BY NothingStale
<1>4. CASE O = {}
  <2>1. t = s
    BY <1>3, <1>4 DEF FinalizeOrphans
  <2>2. OnlyRecorded(s)
    BY <1>2, <1>4 DEF OnlyRecorded
  <2>3. QED
    BY <2>1, <2>2 DEF Keeps, SameTalk
<1>5. CASE O # {}
  <2> DEFINE n == Newest(O)
             f(e) == Append(s.raw[e], Summary)
             w == [e \in Epoch |-> IF e \in O THEN f(e) ELSE s.raw[e]]
             c == Count(s.raw[Oldest(O)])
             new == [lines |-> <<>>, whole |-> FALSE]
             q == [s.ram EXCEPT !.snaps = 0, !.recharging = FALSE,
                                !.pending = [header |-> FALSE, summary |-> FALSE]]
             p == [q EXCEPT !.snaps = c, !.pending.summary = TRUE]
             r == [p EXCEPT !.compressing = n, !.inputDone = FALSE]
             y == [s EXCEPT !.ram = q]
             x == [y EXCEPT !.raw = w, !.ram = r]
             v == [x EXCEPT !.hs[n] = new]
  <2>1. O \subseteq Epoch
    BY <1>1
  <2>2. n \in O /\ n \in Epoch /\ Oldest(O) \in O
    BY <2>1, <1>5, NewestIs, OldestIs
  <2>3. c \in Nat
    BY <2>2, <1>1, CountIs
  <2>4. \A e \in O : /\ f(e) \in Seq(Line) /\ ClosedOnce(f(e)) /\ ~Unclosed(f(e))
                     /\ PosesIn(s.raw[e]) \subseteq PosesIn(f(e))
    BY <1>1, AppendSummary, AppendLine, Lines
  <2>5. /\ \A e \in O : w[e] = f(e) /\ w[e] # NoFile
        /\ \A e \in Epoch : e \notin O => w[e] = s.raw[e]
    BY <2>1, <2>4, Names
  <2>6. s.ram \in Ram
    BY MomentFields
  <2>7. w \in Raw
    BY <2>4, <2>5, MomentFields DEF Raw
  <2>8. q \in Ram
    BY <2>6, ZenonT(30) DEF Ram, Meta
  <2>9. p \in Ram
    BY <2>3, <2>8 DEF Ram, Meta
  <2>10. r \in Ram
    BY <2>2, <2>9 DEF Ram
  <2>11. /\ r.collecting = s.ram.collecting /\ r.open = s.ram.open /\ r.active = s.ram.active
         /\ r.importing = s.ram.importing /\ r.recovered = s.ram.recovered
         /\ r.compressing = n
    BY <2>6 DEF Ram
  <2>12. SameTalk(s.ram, r)
    BY <2>6 DEF Ram, SameTalk
  <2> HIDE DEF w, c, n
  <2>13. t = v
    <3>1. ResetSession(s) = y
      BY DEF ResetSession, Moment
    <3>2. t = StartCompression(
                [y EXCEPT !.raw = w, !.ram.snaps = c, !.ram.pending.summary = TRUE], n)
      <4>1. y.raw = s.raw
        BY DEF Moment
      <4>2. QED
        BY <3>1, <4>1, <1>3, <1>5, Zenon DEF FinalizeOrphans, w, c, n
    <3> HIDE DEF q, r
    <3>3. y.ram = q /\ y \in Moment
      BY <2>8 DEF Moment
    <3> HIDE DEF y
    <3> DEFINE z == [y EXCEPT !.raw = w, !.ram.snaps = c]
    <3>4. [y EXCEPT !.raw = w, !.ram.snaps = c, !.ram.pending.summary = TRUE]
            = [z EXCEPT !.ram.pending.summary = TRUE]
      BY <3>3 DEF Moment
    <3>5. z = [y EXCEPT !.raw = w, !.ram = [q EXCEPT !.snaps = c]]
      BY <3>3 DEF Moment
    <3>6. p = [[q EXCEPT !.snaps = c] EXCEPT !.pending.summary = TRUE]
      BY <2>8 DEF Ram
    <3> HIDE DEF z, p
    <3>7. [z EXCEPT !.ram.pending.summary = TRUE] = [y EXCEPT !.raw = w, !.ram = p]
      BY <3>3, <3>5, <3>6, ZenonT(30) DEF Moment
    <3> DEFINE u == [y EXCEPT !.raw = w, !.ram = p]
    <3>8. u.raw[n] # NoFile /\ u \in Moment /\ u.ram = p
      BY <2>2, <2>5, <2>7, <2>9, <3>3 DEF Moment
    <3>9. x = [u EXCEPT !.ram = r]
      BY <3>3 DEF Moment
    <3> HIDE DEF u
    <3>10. StartCompression(u, n)
             = [u EXCEPT !.hs[n] = new, !.ram = [p EXCEPT !.compressing = n, !.inputDone = FALSE]]
      BY <3>8 DEF StartCompression, Moment
    <3>11. StartCompression(u, n) = v
      BY <3>8, <3>9, <3>10 DEF Moment, r
    <3>12. QED
      BY <3>2, <3>4, <3>7, <3>11 DEF u
  <2> HIDE DEF q, p, r
  <2>14. y \in Moment /\ y.hs = s.hs /\ y.next = s.next /\ y.dropped = s.dropped
    BY <2>8 DEF Moment
  <2> HIDE DEF y
  <2>15. /\ x \in Moment /\ x.ram = r /\ x.raw = w /\ x.hs = s.hs /\ x.next = s.next
         /\ x.dropped = s.dropped
    BY <2>7, <2>10, <2>14 DEF Moment
  <2>16. new \in Compressed /\ new.lines = <<>> /\ new.whole = FALSE
    BY DEF Compressed
  <2>17. HsIs(x, v, n, new)
    BY DEF HsIs
  <2> HIDE DEF x, v, new
  <2>18. /\ v \in Moment /\ v.ram = r /\ v.raw = w /\ v.next = s.next
         /\ v.dropped = s.dropped
    BY <2>2, <2>15, <2>16, <2>17, HsChange
  <2>19. v.hs[n] = new
    BY <2>2, <2>15, <2>16, <2>17, HsChange
  <2>20. \A e \in Epoch : e # n => v.hs[e] = s.hs[e]
    BY <2>2, <2>15, <2>16, <2>17, HsChange
  <2>21. new # NoFile
    BY <2>16, Names
  <2>22. /\ \A e \in Epoch : Has(v, e) <=> Has(s, e)
         /\ \A e \in Epoch : e # n => (HasHs(v, e) <=> HasHs(s, e))
         /\ HasHs(v, n) /\ Has(v, n)
    BY <1>1, <2>2, <2>5, <2>18, <2>19, <2>20, <2>21 DEF Has, HasHs
  <2>23. Recording(v) /\ Compressing(v)
    BY <2>11, <2>16, <2>18, <2>19, <2>22 DEF Recording, Compressing
  <2>24. Copies(v, torn)
    <3>1. ASSUME NEW e \in Epoch, HasHs(v, e), e # n
          PROVE  \/ v.hs[e].whole /\ ~Has(v, e)
                 \/ e \in torn
                 \/ ~v.hs[e].whole /\ v.ram.importing /\ e = Backup
      <4>1. s.ram.compressing # e
        BY Names
      <4>2. QED
        BY <3>1, <4>1, <2>11, <2>18, <2>20, <2>22 DEF Sound, Copies
    <3>2. v.ram.compressing = n /\ ~v.hs[n].whole
      BY <2>11, <2>16, <2>18, <2>19
    <3>3. QED
      BY <3>1, <3>2 DEF Copies
  <2>25. Numbered(v)
    <3>1. n # Backup /\ n < s.next /\ n \in Nat /\ s.next \in Nat
      BY <1>1, <2>2, Names, MomentFields
    <3>2. InHs(v, Backup) = InHs(s, Backup)
      BY <3>1, <2>20, Names DEF InHs
    <3>3. \A e \in Epoch : e >= v.next => e # n
      BY <3>1, <2>18, Names
    <3>4. QED
      BY <3>2, <3>3, <2>18, <2>22, Names DEF Sound, Numbered
  <2>26. Summaries(v)
    <3>1. ClosedOnce(new.lines)
      BY <2>16 DEF ClosedOnce
    <3>2. \A e \in Epoch : Has(v, e) => ClosedOnce(v.raw[e])
      BY <2>4, <2>5, <2>18, <2>22 DEF Sound, Summaries
    <3>3. \A e \in Epoch : HasHs(v, e) => ClosedOnce(v.hs[e].lines)
      BY <3>1, <2>19, <2>20, <2>22 DEF Sound, Summaries
    <3>4. QED
      BY <3>2, <3>3 DEF Summaries
  <2>27. ASSUME NEW e \in Epoch, Has(v, e), Unclosed(v.raw[e])
         PROVE  FALSE
    <3>1. e \notin O
      BY <2>4, <2>5, <2>18, <2>27
    <3>2. Has(s, e) /\ Unclosed(s.raw[e])
      BY <3>1, <2>5, <2>18, <2>22, <2>27
    <3>3. QED
      BY <1>2, <3>1, <3>2
  <2>28. OpenIsNewest(v) /\ OnlyRecorded(v)
    BY <2>27 DEF OpenIsNewest, OnlyRecorded
  <2>29. Keeps(s, v)
    <3>1. \A e \in Epoch : InRaw(s, e) \subseteq InRaw(v, e)
      BY <2>4, <2>5, <2>18 DEF InRaw
    <3>2. InHs(s, n) = {}
      BY <1>1, <2>2 DEF InHs, HasHs
    <3>3. \A e \in Epoch : InHs(s, e) \subseteq InHs(v, e)
      BY <3>2, <2>20 DEF InHs
    <3>4. QED
      BY <3>1, <3>3, <2>18, KeepsIf, OnDiskHas
  <2>30. QED
    BY <2>11, <2>12, <2>13, <2>18, <2>23, <2>24, <2>25, <2>26, <2>28, <2>29 DEF Sound
<1>6. QED
  BY <1>4, <1>5

(* The orphans become one session, which is recorded on.                   *)
LEMMA RecoverSound ==
    ASSUME NEW s \in Moment, NEW torn, Sound(s, torn), Orphans(s) # {},
           ~s.ram.collecting, s.ram.compressing = None,
           NEW t, t = RecoverCollection(s)
    PROVE  /\ t \in Moment /\ Sound(t, torn) /\ Keeps(s, t) /\ t.next = s.next
           /\ OnlyRecorded(t)
           /\ t.ram.collecting = TRUE /\ t.ram.open = TRUE /\ t.ram.compressing = None
           /\ t.ram.fetch = s.ram.fetch /\ t.ram.charger = s.ram.charger
<1> DEFINE O == Orphans(s)
           n == Oldest(O)
           f == Merged(s, O, n)
           w == [e \in Epoch |-> IF e = n THEN f ELSE IF e \in O THEN NoFile ELSE s.raw[e]]
           c == Count(f)
           q == [s.ram EXCEPT !.snaps = 0, !.recharging = FALSE,
                              !.pending = [header |-> FALSE, summary |-> FALSE]]
           r == [q EXCEPT !.active = n, !.open = TRUE, !.collecting = TRUE,
                          !.guard = TRUE, !.snaps = c]
           x == [s EXCEPT !.raw = w]
           v == [x EXCEPT !.ram = r]
<1>1. \A e \in O : /\ e \in Epoch /\ Has(s, e) /\ ~HasHs(s, e) /\ s.raw[e] \in Seq(Line)
                   /\ Unclosed(s.raw[e]) \/ StartsClosed(s.raw[e])
                   /\ e # Backup /\ e < s.next
  BY OrphanIs
<1>2. \A e \in Epoch : Has(s, e) /\ Unclosed(s.raw[e]) => e \in O
  BY OpenIsOrphan
<1>3. Unstale(s) = s
  BY NothingStale
<1>4. O \subseteq Epoch /\ n \in O /\ n \in Epoch /\ \A e \in O : n <= e
  BY <1>1, OldestIs
<1>5. /\ f \in Seq(Line)
      /\ StartsClosed(s.raw[n]) => StartsClosed(f)
      /\ \A e \in O : PosesIn(s.raw[e]) \subseteq PosesIn(f)
      /\ O = {n} => f = s.raw[n]
  BY <1>1, <1>4, MergedFacts
<1>6. c \in Nat /\ f # NoFile
  BY <1>5, CountIs, Names
<1>7. t = IF Session \in ToSet(f) THEN v ELSE WriteHeader(v)
  <2> DEFINE u == [Unstale(s) EXCEPT !.raw =
                [e \in Epoch |-> IF e = n THEN f ELSE IF e \in O THEN NoFile ELSE @[e]]]
             y == [ResetSession(u) EXCEPT
                      !.ram.active = n, !.ram.open = TRUE, !.ram.collecting = TRUE,
                      !.ram.guard = TRUE, !.ram.snaps = c]
  <2>1. t = IF Session \in ToSet(f) THEN y ELSE WriteHeader(y)
    BY DEF RecoverCollection
  <2>2. u = x
    BY <1>3
  <2> HIDE DEF w, f, n, c
  <2>3. ResetSession(x) = [x EXCEPT !.ram = q]
    BY DEF ResetSession, Moment
  <2>4. y = v
    BY <2>2, <2>3 DEF Moment
  <2>5. QED
    BY <2>1, <2>4
<1>8. /\ w[n] = f /\ \A e \in O : e # n => w[e] = NoFile
      /\ \A e \in Epoch : e \notin O => w[e] = s.raw[e]
  BY <1>4
<1>9. w \in Raw /\ s.ram \in Ram
  BY <1>5, MomentFields DEF Raw
<1>10. q \in Ram
  BY <1>9, ZenonT(30) DEF Ram, Meta
<1> HIDE DEF f, w, c, n
<1>11. r \in Ram
  <2>1. n \in Epoch \cup {None} /\ c \in Nat
    BY <1>4, <1>6
  <2> HIDE DEF q
  <2>2. QED
    BY <2>1, <1>10 DEF Ram
<1>12. /\ r.collecting = TRUE /\ r.open = TRUE /\ r.active = n /\ r.compressing = None
       /\ r.importing = s.ram.importing /\ r.fetch = s.ram.fetch /\ r.charger = s.ram.charger
  BY <1>9 DEF Ram
<1> HIDE DEF r, q
<1>13. /\ v \in Moment /\ v.ram = r /\ v.raw = w /\ v.hs = s.hs /\ v.next = s.next
       /\ v.dropped = s.dropped
  BY <1>9, <1>11 DEF Moment
<1> HIDE DEF v
<1>14. /\ \A e \in Epoch : Has(v, e) => Has(s, e)
       /\ \A e \in Epoch : Has(v, e) /\ e # n => v.raw[e] = s.raw[e] /\ e \notin O
       /\ \A e \in Epoch : HasHs(v, e) <=> HasHs(s, e)
       /\ Has(v, n) /\ v.raw[n] = f
  BY <1>1, <1>4, <1>6, <1>8, <1>13 DEF Has, HasHs
<1>15. \A e \in Epoch : Has(v, e) /\ Unclosed(v.raw[e]) => e = n
  BY <1>2, <1>14
<1>16. Unclosed(s.raw[n]) => f = s.raw[n] /\ \A d \in Epoch : d > n => ~Has(s, d) /\ ~HasHs(s, d)
  <2>1. SUFFICES ASSUME Unclosed(s.raw[n])
                 PROVE  f = s.raw[n] /\ \A d \in Epoch : d > n => ~Has(s, d) /\ ~HasHs(s, d)
    OBVIOUS
  <2>2. \A d \in Epoch : d > n => ~Has(s, d) /\ ~HasHs(s, d)
    BY <2>1, <1>1, <1>4 DEF Sound, OpenIsNewest
  <2>3. \A e \in O : ~(e > n)
    BY <2>2, <1>1
  <2>4. \A e \in O : e = n
    BY <2>3, <1>4, Names
  <2>5. O = {n}
    BY <2>4, <1>4
  <2>6. QED
    BY <2>2, <2>5, <1>5
<1>17. Unclosed(f) \/ StartsClosed(f)
  BY <1>1, <1>4, <1>5, <1>16
<1>18. Unclosed(f) => Unclosed(s.raw[n])
  BY <1>1, <1>4, <1>5 DEF Unclosed, StartsClosed
<1>19. Recording(v) /\ Compressing(v)
  BY <1>1, <1>4, <1>12, <1>13, <1>14, <1>17 DEF Recording, Compressing
<1>20. Copies(v, torn)
  <2>1. \A e \in Epoch : s.ram.compressing # e
    BY Names
  <2>2. QED
    BY <2>1, <1>12, <1>13, <1>14 DEF Sound, Copies
<1>21. Numbered(v)
  <2>1. InHs(v, Backup) = InHs(s, Backup)
    BY <1>13 DEF InHs
  <2>2. QED
    BY <2>1, <1>13, <1>14, Names DEF Sound, Numbered
<1>22. Summaries(v)
  <2>1. ClosedOnce(f)
    BY <1>5, <1>17, FirstClosed
  <2>2. \A e \in Epoch : Has(v, e) => ClosedOnce(v.raw[e])
    BY <2>1, <1>14 DEF Sound, Summaries
  <2>3. \A e \in Epoch : HasHs(v, e) => ClosedOnce(v.hs[e].lines)
    BY <1>13, <1>14 DEF Sound, Summaries
  <2>4. QED
    BY <2>2, <2>3 DEF Summaries
<1>23. OnlyRecorded(v)
  BY <1>12, <1>13, <1>15 DEF OnlyRecorded
<1>24. OpenIsNewest(v)
  <2>1. ASSUME NEW e \in Epoch, Has(v, e), Unclosed(v.raw[e])
        PROVE  /\ e = n /\ ~HasHs(v, e)
               /\ \A d \in Epoch : d > e => ~Has(v, d) /\ ~HasHs(v, d)
    <3>1. e = n /\ Unclosed(f)
      BY <2>1, <1>14, <1>15
    <3>2. \A d \in Epoch : d > n => ~Has(s, d) /\ ~HasHs(s, d)
      BY <3>1, <1>16, <1>18
    <3>3. QED
      BY <3>1, <3>2, <1>1, <1>4, <1>14
  <2>2. QED
    BY <2>1, <1>12, <1>13 DEF OpenIsNewest
<1>25. Keeps(s, v)
  <2>1. \A e \in O : InRaw(s, e) \subseteq InRaw(v, n)
    BY <1>1, <1>5, <1>6, <1>14 DEF InRaw, Has
  <2>2. \A e \in Epoch : e \notin O => InRaw(v, e) = InRaw(s, e)
    BY <1>8, <1>13 DEF InRaw
  <2>3. \A e \in Epoch : InRaw(s, e) \subseteq OnDisk(v)
    BY <2>1, <2>2, <1>4, OnDiskHas
  <2>4. \A e \in Epoch : InHs(s, e) = InHs(v, e)
    BY <1>13 DEF InHs
  <2>5. QED
    BY <2>3, <2>4, <1>13, KeepsIf, OnDiskHas
<1>26. Sound(v, torn)
  BY <1>19, <1>20, <1>21, <1>22, <1>24 DEF Sound
<1>27. CASE Session \in ToSet(f)
  BY <1>7, <1>27, <1>12, <1>13, <1>23, <1>25, <1>26
<1>28. CASE Session \notin ToSet(f)
  <2>1. t = WriteHeader(v)
    BY <1>7, <1>28
  <2>2. /\ t \in Moment /\ Sound(t, torn) /\ Keeps(v, t) /\ t.next = v.next
        /\ SameRole(v.ram, t.ram) /\ SameTalk(v.ram, t.ram)
        /\ OnlyRecorded(v) => OnlyRecorded(t)
    BY <2>1, <1>12, <1>13, <1>26, HeaderSound
  <2>3. QED
    BY <2>2, <1>12, <1>13, <1>23, <1>25, KeepsTrans DEF SameRole, SameTalk
<1>29. QED
  BY <1>27, <1>28

(* The charger's answer: headers first, and at most one end of a session.  *)
LEMMA AnsweredSound ==
    ASSUME NEW s \in Moment, NEW torn, Sound(s, torn), Phases(s.ram), s.ram.charger = <<>>,
           NEW waiters \in Seq(Waiter),
           \A i \in DOMAIN waiters : waiters[i] = "summary" =>
                i = Len(waiters) /\ s.ram.collecting /\ s.ram.fetch = "none",
           NEW t, t = Answered(s, waiters)
    PROVE  /\ t \in Moment /\ Sound(t, torn) /\ Keeps(s, t) /\ t.next = s.next
           /\ Phases(t.ram) /\ t.ram.charger = <<>> /\ Grows(s, t)
           /\ \/ t.ram.collecting = s.ram.collecting
              \/ \E i \in DOMAIN waiters : waiters[i] = "summary"
<1> DEFINE l == Len(waiters)
<1>1. l \in Nat /\ DOMAIN waiters = 1 .. l /\ \A i \in 1 .. l : waiters[i] \in Waiter
  OBVIOUS
<1>2. PICK answered :
        /\ \A i \in 0 .. Len(waiters) :
              answered[i] = IF i = 0 THEN s ELSE WithBattery(answered[i - 1], waiters[i])
        /\ Answered(s, waiters) = answered[Len(waiters)]
  BY <1>1, AnsweredIs
<1> DEFINE Fine(u) == /\ u \in Moment /\ Sound(u, torn) /\ Keeps(s, u) /\ u.next = s.next
                      /\ SameRole(s.ram, u.ram) /\ SameTalk(s.ram, u.ram) /\ Grows(s, u)
           S == {i \in Nat : Fine(answered[i])}
<1>3. 0 \in S
  <2>1. 0 \in 0 .. Len(waiters)
    BY <1>1
  <2>2. answered[0] = s
    BY <1>2, <2>1
  <2>3. QED
    BY <2>2 DEF Keeps, SameRole, SameTalk, Grows
<1>4. ASSUME NEW i \in 0 .. l, i # 0, i - 1 \in S, waiters[i] = "header"
      PROVE  i \in S
  <2>1. i \in Nat /\ Fine(answered[i - 1])
    BY <1>4
  <2>2. answered[i] = WriteHeader(answered[i - 1])
    BY <1>2, <1>4 DEF WithBattery
  <2>3. answered[i - 1].ram.open = answered[i - 1].ram.collecting
    BY <2>1 DEF SameRole, Phases
  <2> DEFINE u == answered[i - 1]
             v == answered[i]
  <2> HIDE DEF u, v
  <2>4. /\ v \in Moment /\ Sound(v, torn) /\ Keeps(u, v) /\ v.next = u.next
        /\ SameRole(u.ram, v.ram) /\ SameTalk(u.ram, v.ram) /\ Grows(u, v)
    BY <2>1, <2>2, <2>3, HeaderSound DEF u, v
  <2>5. Keeps(s, v) /\ Grows(s, v)
    BY <2>1, <2>4, KeepsTrans, GrowsTrans DEF u
  <2>6. Fine(v)
    BY <2>1, <2>4, <2>5 DEF SameRole, SameTalk, u
  <2>7. QED
    BY <2>1, <2>6 DEF v
<1>5. CASE \A i \in DOMAIN waiters : waiters[i] # "summary"
  <2>1. \A i \in 0 .. l : i # 0 /\ i - 1 \in S => i \in S
    BY <1>1, <1>4, <1>5 DEF Waiter
  <2>2. 0 \in Nat /\ l \in Nat /\ l \in 0 .. l
    BY <1>1
  <2> HIDE DEF S, l
  <2>3. \A i \in 0 .. l : i \in S
    BY <1>3, <2>1, <2>2, UpTo, Zenon
  <2>4. Fine(t)
    BY <1>2, <2>2, <2>3 DEF S, l
  <2>5. Phases(t.ram)
    BY <2>4 DEF Phases, SameRole, SameTalk, Ends
  <2>6. QED
    BY <2>4, <2>5 DEF SameRole, SameTalk
<1>6. CASE \E i \in DOMAIN waiters : waiters[i] = "summary"
  <2>1. l \in 1 .. l /\ waiters[l] = "summary" /\ l - 1 \in Nat /\ l # 0
        /\ s.ram.collecting /\ s.ram.fetch = "none"
    BY <1>1, <1>6
  <2>2. ASSUME NEW i \in 0 .. l - 1, i # 0, i - 1 \in S
        PROVE  i \in S
    <3>1. i \in Nat /\ i \in 1 .. l /\ i \in 0 .. l /\ i # l
      BY <2>1, <2>2, <1>1
    <3>2. waiters[i] \in Waiter /\ waiters[i] # "summary"
      BY <3>1, <1>1
    <3>3. waiters[i] = "header"
      BY <3>2 DEF Waiter
    <3>4. QED
      BY <3>1, <3>3, <2>2, <1>4
  <2>3. \A i \in 0 .. l - 1 : i # 0 /\ i - 1 \in S => i \in S
    BY <2>2
  <2>4. 0 \in Nat /\ l - 1 \in 0 .. l - 1
    BY <2>1
  <2>5. answered[l] = Finish(answered[l - 1])
    BY <1>1, <1>2, <2>1 DEF WithBattery
  <2>6. answered[l] = t
    BY <1>2
  <2> HIDE DEF S, l
  <2>7. \A i \in 0 .. l - 1 : i \in S
    BY <1>3, <2>1, <2>3, <2>4, UpTo, ZenonT(30)
  <2> DEFINE u == answered[l - 1]
  <2>8. Fine(u)
    BY <2>4, <2>7 DEF S
  <2> HIDE DEF u
  <2>9. /\ u.ram.collecting /\ u.ram.open /\ u.ram.recovered /\ u.ram.compressing = None
        /\ u.ram.charger = <<>> /\ u.ram.fetch = "none"
    BY <2>1, <2>8 DEF Phases, SameRole, SameTalk
  <2>10. t = Finish(u)
    BY <2>5, <2>6 DEF u
  <2>11. /\ t \in Moment /\ Sound(t, torn) /\ Keeps(u, t) /\ Grows(u, t)
         /\ t.next = u.next /\ t.ram.collecting = FALSE /\ t.ram.open = FALSE
         /\ t.ram.fetch = u.ram.fetch /\ t.ram.charger = u.ram.charger
         /\ t.ram.prev = u.ram.prev /\ t.ram.recovered = u.ram.recovered
    BY <2>8, <2>9, <2>10, FinishSound
  <2>12. Phases(t.ram)
    <3>1. DOMAIN t.ram.charger = {}
      BY <2>9, <2>11
    <3>2. t.ram.recovered /\ t.ram.fetch = "none"
      BY <2>9, <2>11
    <3>3. QED
      BY <2>11, <3>1, <3>2 DEF Phases, Ends
  <2>13. QED
    BY <1>6, <2>8, <2>9, <2>11, <2>12, KeepsTrans, GrowsTrans
<1>7. QED
  BY <1>5, <1>6

-----------------------------------------------------------------------------
(* The invariant.                                                          *)

(* There is a number left for every session that is still to be recorded.  *)
Numbers(r, n) ==
    /\ n - 2 <= cleans + cuts
    /\ ui # "idle" /\ (~r.collecting \/ Ends(r)) => n - 2 < cleans + cuts

Bounds ==
    /\ ui \in Ui
    /\ cleans \in 0 .. MaxCleans
    /\ cuts \in 0 .. MaxCuts
    /\ poses \in 0 .. MaxPoses

Log == [saved: SUBSET (1 .. MaxPoses), dropped: SUBSET (1 .. MaxPoses),
        torn: SUBSET Epoch, unmerged: SUBSET (1 .. MaxPoses), next: Nat]

HInv ==
    /\ Bounds
    /\ log \in Log
    /\ Now \in Moment
    /\ Sound(Now, log.torn)
    /\ Phases(ram)
    /\ Numbers(ram, log.next)
    /\ NothingFlushedIsLost

LEMMA NowFields ==
    /\ Now.ram = ram /\ Now.raw = raw /\ Now.hs = hs
    /\ Now.dropped = log.dropped /\ Now.next = log.next
BY DEF Now

(* What a handler may make of the recorder.                                *)
May(s) ==
    /\ s \in Moment
    /\ Sound(s, log.torn)
    /\ Keeps(Now, s)
    /\ Phases(s.ram)
    /\ Numbers(s.ram, s.next)

LEMMA OnDiskIsPoses ==
    ASSUME NEW s
    PROVE  OnDisk(s) \subseteq 1 .. MaxPoses
BY DEF OnDisk, InRaw, InHs, PosesIn

LEMMA BecomesMay ==
    ASSUME HInv, NEW s, Becomes(s), May(s), ui' = ui, cleans' = cleans, cuts' = cuts,
           poses' \in 0 .. MaxPoses
    PROVE  HInv'
<1>1. /\ ram' = s.ram /\ raw' = s.raw /\ hs' = s.hs
      /\ log' = [log EXCEPT !.dropped = s.dropped, !.next = s.next,
                            !.saved = @ \cup OnDisk(s),
                            !.torn = @ \cap Torn(s)]
  BY DEF Becomes
<1> DEFINE torn == log.torn \cap Torn(s)
           saved == log.saved \cup OnDisk(s)
<1>2. log \in Log /\ s \in Moment
  BY DEF HInv, May
<1>3. /\ log'.dropped = s.dropped /\ log'.next = s.next
      /\ log'.saved = saved /\ log'.torn = torn /\ log'.unmerged = log.unmerged
  BY <1>1, <1>2 DEF Log
<1>4. saved \subseteq 1 .. MaxPoses /\ torn \subseteq Epoch
  BY <1>2, OnDiskIsPoses DEF Log
<1>5. s.dropped \subseteq 1 .. MaxPoses /\ s.next \in Nat
  BY <1>2, MomentFields
<1> HIDE DEF torn, saved
<1>6. log' \in Log
  <2>1. log' = [log EXCEPT !.dropped = s.dropped, !.next = s.next, !.saved = saved, !.torn = torn]
    BY <1>1 DEF torn, saved
  <2>2. QED
    BY <2>1, <1>2, <1>4, <1>5 DEF Log
<1>7. Now' = s
  BY <1>1, <1>2, <1>3 DEF Now, Moment
<1>8. Sound(s, torn)
  <2>1. Copies(s, torn)
    BY DEF May, Sound, Copies, Has, HasHs, Torn, torn
  <2>2. QED
    BY <2>1 DEF May, Sound
<1>9. NothingFlushedIsLost'
  <2>1. log.saved \subseteq OnDisk(Now) \cup log.dropped \cup log.unmerged
    BY DEF HInv, NothingFlushedIsLost
  <2>2. OnDisk(Now) \cup log.dropped \subseteq OnDisk(s) \cup s.dropped
    BY NowFields DEF May, Keeps
  <2>3. saved \subseteq OnDisk(s) \cup s.dropped \cup log.unmerged
    BY <2>1, <2>2 DEF saved
  <2>4. NothingFlushedIsLost' <=>
            log'.saved \subseteq OnDisk(Now') \cup log'.dropped \cup log'.unmerged
    BY DEF NothingFlushedIsLost, OnDisk, InRaw, InHs, PosesIn
  <2>5. QED
    BY <2>3, <2>4, <1>3, <1>7
<1>10. Sound(Now, log.torn)' <=> Sound(Now', log'.torn)
  BY DEF Sound, Recording, Compressing, Copies, Numbered, Summaries, OpenIsNewest,
         Has, HasHs, InHs, Unclosed, StartsClosed, ClosedOnce, PosesIn
<1>11. Phases(ram)' /\ Numbers(ram, log.next)'
  BY <1>1, <1>3 DEF May, Phases, Numbers, Ends
<1>12. Bounds' /\ (log \in Log)' /\ (Now \in Moment)'
  BY <1>2, <1>6, <1>7 DEF HInv, Bounds, Log, Moment
<1>13. QED
  BY <1>3, <1>7, <1>8, <1>9, <1>10, <1>11, <1>12 DEF HInv

(* Only the recorder's memory changes, and nothing of its part in the      *)
(* files.                                                                  *)
LEMMA RamMay ==
    ASSUME HInv, NEW r \in Ram, SameRole(ram, r), Phases(r), Ends(r) => Ends(ram)
    PROVE  May([Now EXCEPT !.ram = r])
<1> DEFINE s == [Now EXCEPT !.ram = r]
<1>1. Now \in Moment /\ Sound(Now, log.torn)
  BY DEF HInv
<1>2. /\ s \in Moment /\ s.ram = r /\ s.raw = Now.raw /\ s.hs = Now.hs
      /\ s.next = Now.next /\ s.dropped = Now.dropped
  BY <1>1 DEF Moment
<1> HIDE DEF s
<1>3. Sound(s, log.torn) /\ Keeps(Now, s)
  BY <1>1, <1>2, NowFields, Frame
<1>4. Numbers(r, log.next)
  BY DEF HInv, Numbers, SameRole
<1>5. May(s)
  BY <1>2, <1>3, <1>4, NowFields DEF May
<1>6. QED
  BY <1>5 DEF s

LEMMA InvRam ==
    ASSUME HInv
    PROVE  /\ ram \in Ram /\ Now \in Moment /\ Sound(Now, log.torn) /\ Phases(ram)
           /\ raw \in Raw /\ hs \in Hs /\ log.next \in Nat
           /\ log.dropped \subseteq 1 .. MaxPoses
BY NowFields, MomentFields DEF HInv, Log

(* The robot, and the clock, stand still.                                  *)
Quiet == ui' = ui /\ cleans' = cleans /\ cuts' = cuts /\ poses' = poses

LEMMA QuietStep ==
    ASSUME HInv, NEW s, Becomes(s), May(s), Quiet
    PROVE  HInv'
<1>1. poses' \in 0 .. MaxPoses
  BY DEF HInv, Bounds, Quiet
<1>2. QED
  BY <1>1, BecomesMay DEF Quiet

LEMMA RamStep ==
    ASSUME HInv, NEW r \in Ram, SameRole(ram, r), Phases(r), Ends(r) => Ends(ram),
           Becomes([Now EXCEPT !.ram = r]), Quiet
    PROVE  HInv'
<1> DEFINE s == [Now EXCEPT !.ram = r]
<1>1. May(s) /\ Becomes(s)
  BY RamMay
<1> HIDE DEF s
<1>2. QED
  BY <1>1, QuietStep

LEMMA CompressReadKeeps ==
    ASSUME HInv, CompressRead
    PROVE  HInv'
<1> DEFINE r == [ram EXCEPT !.inputDone = TRUE]
           s == [Now EXCEPT !.ram = r]
<1>1. ram \in Ram
  BY InvRam
<1>2. r \in Ram /\ SameRole(ram, r) /\ SameTalk(ram, r)
  BY <1>1 DEF Ram, SameRole, SameTalk
<1>3. Phases(r) /\ (Ends(r) => Ends(ram))
  BY <1>2, InvRam DEF Phases, Ends, SameRole, SameTalk
<1>4. [Now EXCEPT !.ram.inputDone = TRUE] = s
  BY NowFields, InvRam DEF Moment
<1> HIDE DEF r
<1>5. Becomes(s) /\ Quiet
  BY <1>4 DEF CompressRead, Quiet
<1>6. QED
  BY <1>2, <1>3, <1>5, RamStep

(* The compressed file takes the place of the raw one.                     *)
LEMMA CompressEndKeeps ==
    ASSUME HInv, CompressEnd, ~DiskMayFill
    PROVE  HInv'
<1> DEFINE e == ram.compressing
           src == IF raw[e] = NoFile THEN <<>> ELSE raw[e]
           new == [lines |-> src, whole |-> TRUE]
           r == [ram EXCEPT !.compressing = None, !.meta[<<e, "hs">>] = ram.pending,
                            !.pending = [header |-> FALSE, summary |-> FALSE]]
           x == [Now EXCEPT !.ram = r]
           y == [x EXCEPT !.raw[e] = NoFile]
           s == [y EXCEPT !.hs[e] = new]
<1>1. /\ ram \in Ram /\ Now \in Moment /\ Sound(Now, log.torn) /\ Phases(ram)
      /\ raw \in Raw /\ hs \in Hs
  BY InvRam
<1>2. e # None /\ e \in Epoch
  BY <1>1 DEF CompressEnd, Ram
<1>3. Has(Now, e) /\ HasHs(Now, e) /\ ~hs[e].whole
  BY <1>1, <1>2, NowFields DEF Sound, Compressing
<1>4. src = raw[e] /\ src \in Seq(Line)
  BY <1>1, <1>2, <1>3, NowFields, FileIs DEF Has
<1>5. /\ Becomes([Now EXCEPT
                !.hs[e] = [lines |-> IF TRUE THEN src ELSE <<>>, whole |-> TRUE],
                !.raw[e] = NoFile,
                !.ram.compressing = None,
                !.ram.meta[<<e, "hs">>] = ram.pending,
                !.ram.pending = [header |-> FALSE, summary |-> FALSE]])
      /\ ui' = ui /\ cleans' = cleans /\ cuts' = cuts /\ poses' = poses
  BY DEF CompressEnd
<1>6. [Now EXCEPT
                !.hs[e] = [lines |-> IF TRUE THEN src ELSE <<>>, whole |-> TRUE],
                !.raw[e] = NoFile,
                !.ram.compressing = None,
                !.ram.meta[<<e, "hs">>] = ram.pending,
                !.ram.pending = [header |-> FALSE, summary |-> FALSE]] = s
  <2> DEFINE z == [Now EXCEPT !.hs[e] = new, !.raw[e] = NoFile]
  <2> HIDE DEF e, src
  <2>1. [Now EXCEPT
                !.hs[e] = [lines |-> IF TRUE THEN src ELSE <<>>, whole |-> TRUE],
                !.raw[e] = NoFile,
                !.ram.compressing = None,
                !.ram.meta[<<e, "hs">>] = ram.pending,
                !.ram.pending = [header |-> FALSE, summary |-> FALSE]]
         = [z EXCEPT !.ram.compressing = None, !.ram.meta[<<e, "hs">>] = ram.pending,
                     !.ram.pending = [header |-> FALSE, summary |-> FALSE]]
    OBVIOUS
  <2>2. z.ram = ram /\ DOMAIN z = {"ram", "raw", "hs", "dropped", "next"}
    BY DEF Now
  <2>3. s = [z EXCEPT !.ram = r]
    BY ZenonT(30) DEF Now
  <2> HIDE DEF z, s
  <2>4. [z EXCEPT !.ram.compressing = None, !.ram.meta[<<e, "hs">>] = ram.pending,
                  !.ram.pending = [header |-> FALSE, summary |-> FALSE]] = [z EXCEPT !.ram = r]
    BY <2>2, <1>1 DEF Ram
  <2>5. QED
    BY <2>1, <2>3, <2>4
<1>7. /\ r \in Ram /\ r.collecting = ram.collecting /\ r.open = ram.open
      /\ r.importing = ram.importing /\ r.recovered = ram.recovered
      /\ r.compressing = None /\ SameTalk(ram, r)
  <2>1. <<e, "hs">> \in Name /\ ram.pending \in Meta
    BY <1>1, <1>2 DEF Name, Ram
  <2>2. [ram.meta EXCEPT ![<<e, "hs">>] = ram.pending] \in [Name -> Meta \cup {None}]
    BY <2>1, <1>1 DEF Ram
  <2>3. [header |-> FALSE, summary |-> FALSE] \in Meta
    BY DEF Meta
  <2>4. r = [ram EXCEPT !.compressing = None, !.meta = [@ EXCEPT ![<<e, "hs">>] = ram.pending],
                        !.pending = [header |-> FALSE, summary |-> FALSE]]
    BY <1>1 DEF Ram
  <2>5. r \in Ram
    BY <2>2, <2>3, <2>4, <1>1 DEF Ram
  <2>6. QED
    BY <2>4, <2>5, <1>1 DEF Ram, SameTalk
<1>8. ram.collecting = FALSE /\ ram.fetch = "none"
  BY <1>1, <1>2 DEF Phases, Ram
<1>9. Phases(r) /\ (Ends(r) => Ends(ram))
  BY <1>1, <1>7, <1>8 DEF Phases, Ends, SameTalk
<1>10. new \in Compressed /\ new.lines = src /\ new.whole = TRUE
  BY <1>4 DEF Compressed
<1>11. RawIs(x, y, e, NoFile) /\ HsIs(y, s, e, new)
  BY DEF RawIs, HsIs
<1> HIDE DEF r, s, y, new
<1>12. /\ x \in Moment /\ x.ram = r /\ x.raw = raw /\ x.hs = hs /\ x.next = log.next
       /\ x.dropped = log.dropped
  BY <1>1, <1>7, NowFields DEF Moment
<1> HIDE DEF x
<1>13. NoFile \in Seq(Line) \cup {NoFile} /\ e \in Epoch
  BY <1>2
<1> HIDE DEF e, src
<1>14. y \in Moment /\ y.ram = r /\ y.hs = hs /\ y.next = log.next /\ y.dropped = log.dropped
  BY <1>11, <1>12, <1>13, RawChange
<1>15. y.raw[e] = NoFile
  BY <1>11, <1>12, <1>13, RawChange
<1>16. \A d \in Epoch : d # e => y.raw[d] = raw[d]
  BY <1>11, <1>12, <1>13, RawChange
<1>17. /\ s \in Moment /\ s.ram = r /\ s.raw = y.raw /\ s.next = log.next
       /\ s.dropped = log.dropped
  BY <1>2, <1>10, <1>11, <1>14, HsChange
<1>18. s.hs[e] = new
  BY <1>2, <1>10, <1>11, <1>14, HsChange
<1>19. \A d \in Epoch : d # e => s.hs[d] = hs[d]
  BY <1>2, <1>10, <1>11, <1>14, HsChange
<1>20. new # NoFile
  BY <1>10, Names
<1>21. /\ ~Has(s, e) /\ HasHs(s, e) /\ s.hs[e].whole
       /\ \A d \in Epoch : Has(s, d) => Has(Now, d) /\ s.raw[d] = raw[d] /\ d # e
       /\ \A d \in Epoch : HasHs(s, d) <=> HasHs(Now, d)
  BY <1>3, <1>10, <1>15, <1>16, <1>17, <1>18, <1>19, <1>20, NowFields DEF Has, HasHs
<1>22. Recording(s) /\ Compressing(s)
  BY <1>7, <1>8, <1>17 DEF Recording, Compressing
<1>23. Copies(s, log.torn)
  <2>1. ASSUME NEW d \in Epoch, HasHs(s, d), d # e
        PROVE  \/ s.hs[d].whole /\ ~Has(s, d)
               \/ d \in log.torn
               \/ ~s.hs[d].whole /\ s.ram.importing /\ d = Backup
    <3>1. ram.compressing # d /\ hs[d] = s.hs[d] /\ HasHs(Now, d)
      BY <2>1, <1>19, <1>21 DEF e
    <3>2. Has(s, d) => Has(Now, d)
      BY <1>21
    <3>3. QED
      BY <3>1, <3>2, <1>1, <1>7, <1>17, NowFields DEF Sound, Copies
  <2>2. QED
    BY <2>1, <1>21 DEF Copies
<1>24. Numbered(s)
  <2>1. e # Backup
    BY <1>1, <1>3 DEF Sound, Numbered
  <2>2. InHs(s, Backup) = InHs(Now, Backup)
    BY <2>1, <1>19, Names, NowFields DEF InHs
  <2>3. QED
    BY <2>2, <1>1, <1>17, <1>21, Names, NowFields DEF Sound, Numbered
<1>25. Summaries(s)
  <2>1. ClosedOnce(raw[e])
    BY <1>1, <1>2, <1>3, NowFields DEF Sound, Summaries
  <2>2. \A d \in Epoch : Has(s, d) => ClosedOnce(s.raw[d])
    BY <1>1, <1>21, NowFields DEF Sound, Summaries
  <2>3. \A d \in Epoch : HasHs(s, d) => ClosedOnce(s.hs[d].lines)
    BY <2>1, <1>1, <1>4, <1>10, <1>18, <1>19, <1>21, NowFields DEF Sound, Summaries
  <2>4. QED
    BY <2>2, <2>3 DEF Summaries
<1>26. OpenIsNewest(s)
  <2>1. ASSUME NEW d \in Epoch, Has(s, d), Unclosed(s.raw[d])
        PROVE  /\ ~HasHs(s, d)
               /\ \A c \in Epoch : c > d => ~Has(s, c) /\ ~HasHs(s, c)
               /\ s.ram.recovered => s.ram.collecting /\ s.ram.active = d
    <3>1. Has(Now, d) /\ Unclosed(Now.raw[d])
      BY <2>1, <1>21, NowFields
    <3>2. /\ ~HasHs(Now, d)
          /\ \A c \in Epoch : c > d => ~Has(Now, c) /\ ~HasHs(Now, c)
          /\ ~ram.recovered
      BY <3>1, <1>1, <1>8, NowFields DEF Sound, OpenIsNewest
    <3>3. QED
      BY <3>2, <1>7, <1>17, <1>21
  <2>2. QED
    BY <2>1 DEF OpenIsNewest
<1>27. Keeps(Now, s)
  <2>1. InRaw(Now, e) = InHs(s, e)
    BY <1>3, <1>4, <1>10, <1>18, <1>20, NowFields DEF InRaw, InHs, Has
  <2>2. InHs(Now, e) = {}
    BY <1>3, NowFields DEF InHs
  <2>3. \A d \in Epoch : d # e => InRaw(Now, d) = InRaw(s, d) /\ InHs(Now, d) = InHs(s, d)
    BY <1>16, <1>17, <1>19, NowFields DEF InRaw, InHs
  <2>4. QED
    BY <2>1, <2>2, <2>3, <1>2, <1>17, NowFields, KeepsIf, OnDiskHas
<1>28. Numbers(r, log.next)
  BY <1>7, <1>9 DEF HInv, Numbers
<1>29. May(s)
  BY <1>9, <1>17, <1>22, <1>23, <1>24, <1>25, <1>26, <1>27, <1>28 DEF May, Sound
<1>30. Becomes(s)
  BY <1>5, <1>6
<1>31. poses' \in 0 .. MaxPoses
  BY <1>5 DEF HInv, Bounds
<1>32. QED
  BY <1>5, <1>29, <1>30, <1>31, BecomesMay

LEMMA CheckStateKeeps ==
    ASSUME HInv, CheckState
    PROVE  HInv'
<1> DEFINE r == [ram EXCEPT !.fetch = "check"]
           x == [Now EXCEPT !.ram = r]
           s == EnforceLimits(x)
<1>1. ram \in Ram /\ Phases(ram)
  BY InvRam
<1>2. ram.compressing = None /\ ram.collecting = FALSE
  BY <1>1 DEF CheckState, Ready, Ram
<1>3. /\ r \in Ram /\ SameRole(ram, r) /\ r.fetch = "check" /\ r.charger = ram.charger
      /\ r.prev = ram.prev
  BY <1>1 DEF Ram, SameRole
<1>4. Phases(r) /\ (Ends(r) => Ends(ram))
  BY <1>1, <1>2, <1>3 DEF Phases, Ends, SameRole
<1>5. [Now EXCEPT !.ram.fetch = "check"] = x
  BY NowFields, InvRam DEF Moment
<1> HIDE DEF r
<1>6. May(x) /\ x.ram = r
  BY <1>3, <1>4, RamMay, NowFields, InvRam DEF Moment
<1> HIDE DEF x
<1>7. x \in Moment /\ Sound(x, log.torn) /\ Keeps(Now, x)
  BY <1>6 DEF May
<1>8. \A n \in Files(x) : x.ram.compressing # n[1]
  <2>1. \A n \in Files(x) : n[1] \in Epoch
    BY FilesAreNames DEF Name
  <2>2. x.ram.compressing = None
    BY <1>2, <1>3, <1>6 DEF SameRole
  <2>3. QED
    BY <2>1, <2>2, Names
<1>9. x.ram.collecting = FALSE
  BY <1>2, <1>3, <1>6 DEF SameRole
<1>10. /\ s \in Moment /\ Sound(s, log.torn) /\ Keeps(x, s) /\ s.next = x.next
       /\ SameRole(x.ram, s.ram) /\ SameTalk(x.ram, s.ram)
  BY <1>7, <1>8, <1>9, EnforceSound
<1> HIDE DEF s
<1>11. Phases(s.ram) /\ Numbers(s.ram, s.next)
  BY <1>6, <1>10 DEF May, Phases, Numbers, Ends, SameRole, SameTalk
<1>12. May(s)
  BY <1>7, <1>10, <1>11, KeepsTrans DEF May
<1>13. Becomes(s) /\ Quiet
  BY <1>5 DEF CheckState, Quiet, s
<1>14. QED
  BY <1>12, <1>13, QuietStep

LEMMA CollectSnapshotKeeps ==
    ASSUME HInv, CollectSnapshot, ~SlowCharger
    PROVE  HInv'
<1>1. ram \in Ram /\ Phases(ram) /\ Now \in Moment /\ Sound(Now, log.torn)
  BY InvRam
<1>2. /\ ram.compressing = None /\ ram.fetch = "none" /\ ram.collecting
      /\ "summary" \notin ToSet(ram.charger)
      /\ Quiet
  BY DEF CollectSnapshot, Ready, Quiet
<1>3. ~Ends(ram)
  BY <1>1, <1>2 DEF Ends, ToSet, Ram
<1>4. PICK due \in {FALSE, ram.buf # <<>>} :
        Becomes([IF due THEN FlushWriteBuffer(Now) ELSE Now EXCEPT !.ram.fetch = "state"])
  BY DEF CollectSnapshot
<1> DEFINE x == IF due THEN FlushWriteBuffer(Now) ELSE Now
           r == [x.ram EXCEPT !.fetch = "state"]
           s == [x EXCEPT !.ram = r]
<1>5. ram.open = ram.collecting
  BY <1>1 DEF Phases
<1>6. /\ x \in Moment /\ Sound(x, log.torn) /\ Keeps(Now, x) /\ x.next = log.next
      /\ SameRole(ram, x.ram) /\ SameTalk(ram, x.ram)
  <2>1. CASE due
    BY <2>1, <1>1, <1>5, NowFields, FlushSound
  <2>2. CASE ~due
    BY <2>2, <1>1, NowFields DEF Keeps, SameRole, SameTalk
  <2>3. QED
    BY <2>1, <2>2
<1> HIDE DEF x
<1>7. x.ram \in Ram
  BY <1>6, MomentFields
<1>8. /\ r \in Ram /\ SameRole(x.ram, r) /\ r.fetch = "state" /\ r.charger = x.ram.charger
      /\ r.prev = x.ram.prev
  BY <1>7 DEF Ram, SameRole
<1>9. [x EXCEPT !.ram.fetch = "state"] = s
  BY <1>6 DEF Moment
<1> HIDE DEF r
<1>10. /\ s \in Moment /\ s.ram = r /\ s.raw = x.raw /\ s.hs = x.hs
       /\ s.next = x.next /\ s.dropped = x.dropped
  BY <1>6, <1>8 DEF Moment
<1> HIDE DEF s
<1>11. Sound(s, log.torn) /\ Keeps(x, s)
  BY <1>6, <1>8, <1>10, Frame
<1>12. ~Ends(r)
  BY <1>3, <1>6, <1>8 DEF Ends, SameTalk
<1>13. Phases(r) /\ Numbers(r, log.next)
  BY <1>1, <1>2, <1>6, <1>8, <1>12 DEF HInv, Phases, Numbers, Ends, SameRole, SameTalk
<1>14. May(s)
  BY <1>6, <1>10, <1>11, <1>13, KeepsTrans DEF May
<1>15. Becomes(s)
  BY <1>4, <1>9 DEF x
<1>16. QED
  BY <1>2, <1>14, <1>15, QuietStep

LEMMA FailsKeeps ==
    ASSUME HInv, CheckFails \/ PosFails
    PROVE  HInv'
<1> DEFINE r == [ram EXCEPT !.fetch = "none"]
           s == [Now EXCEPT !.ram = r]
<1>1. ram \in Ram
  BY InvRam
<1>2. r \in Ram /\ SameRole(ram, r) /\ r.fetch = "none" /\ r.charger = ram.charger
      /\ r.prev = ram.prev
  BY <1>1 DEF Ram, SameRole
<1>3. Phases(r) /\ (Ends(r) => Ends(ram))
  BY <1>2, InvRam DEF Phases, Ends, SameRole
<1>4. [Now EXCEPT !.ram.fetch = "none"] = s
  BY NowFields, InvRam DEF Moment
<1> HIDE DEF r
<1>5. Becomes(s) /\ Quiet
  BY <1>4 DEF CheckFails, PosFails, Quiet
<1>6. QED
  BY <1>2, <1>3, <1>5, RamStep

LEMMA StateFailsKeeps ==
    ASSUME HInv, StateFails
    PROVE  HInv'
<1> DEFINE f == IF ram.recharging THEN "none" ELSE "pos"
           r == [ram EXCEPT !.fetch = f]
           s == [Now EXCEPT !.ram = r]
<1>1. ram \in Ram /\ Phases(ram) /\ ram.fetch = "state"
  BY InvRam DEF StateFails
<1>2. f \in {"none", "pos"}
  OBVIOUS
<1>3. AskPos(Now) = s
  BY NowFields, InvRam DEF Moment, AskPos
<1> HIDE DEF f
<1>4. r \in Ram /\ SameRole(ram, r) /\ r.fetch = f /\ r.charger = ram.charger
      /\ r.prev = ram.prev
  BY <1>1, <1>2 DEF Ram, SameRole
<1>5. Phases(r) /\ (Ends(r) => Ends(ram))
  BY <1>1, <1>2, <1>4 DEF Phases, Ends, SameRole
<1> HIDE DEF r
<1>6. Becomes(s) /\ Quiet
  BY <1>3 DEF StateFails, Quiet
<1>7. QED
  BY <1>4, <1>5, <1>6, RamStep

LEMMA PosReadKeeps ==
    ASSUME HInv, PosRead
    PROVE  HInv'
<1> DEFINE m == Append(ram.motors, poses + 1)
           r == [ram EXCEPT !.fetch = "none", !.motors = m]
           s == [Now EXCEPT !.ram = r]
<1>1. ram \in Ram /\ Phases(ram)
  BY InvRam
<1>2. poses + 1 \in 1 .. MaxPoses /\ poses' \in 0 .. MaxPoses
  BY BoundsAssumption DEF HInv, Bounds, PosRead
<1>3. ram.motors \in Seq(1 .. MaxPoses)
  BY <1>1 DEF Ram
<1>4. m \in Seq(1 .. MaxPoses)
  BY <1>2, <1>3
<1>5. [Now EXCEPT !.ram.fetch = "none", !.ram.motors = Append(@, poses + 1)] = s
  BY NowFields, InvRam DEF Moment, Ram
<1> HIDE DEF m
<1>6. r \in Ram /\ SameRole(ram, r) /\ r.fetch = "none" /\ r.charger = ram.charger
      /\ r.prev = ram.prev
  BY <1>1, <1>4 DEF Ram, SameRole
<1>7. Phases(r) /\ (Ends(r) => Ends(ram))
  BY <1>1, <1>6 DEF Phases, Ends, SameRole
<1> HIDE DEF r
<1>8. May(s)
  BY <1>6, <1>7, RamMay
<1>9. Becomes(s) /\ ui' = ui /\ cleans' = cleans /\ cuts' = cuts
  BY <1>5 DEF PosRead
<1> HIDE DEF s
<1>10. QED
  BY <1>2, <1>8, <1>9, BecomesMay

LEMMA MotorsReadKeeps ==
    ASSUME HInv, MotorsRead
    PROVE  HInv'
<1> DEFINE m == Tail(ram.motors)
           n == Head(ram.motors)
           b == IF ram.open THEN Append(ram.buf, Pose(n)) ELSE ram.buf
           c == ram.snaps + 1
           q == [ram EXCEPT !.motors = m]
           r == [q EXCEPT !.buf = b, !.snaps = c]
           x == [Now EXCEPT !.ram = q]
           s == [Now EXCEPT !.ram = r]
           P == {Pose(k) : k \in 1 .. MaxPoses}
<1>1. ram \in Ram /\ Phases(ram) /\ Now \in Moment /\ ram.motors # <<>>
  BY InvRam DEF MotorsRead
<1>2. ram.motors \in Seq(1 .. MaxPoses) /\ ram.snaps \in Nat /\ ram.buf \in Seq(P)
  BY <1>1 DEF Ram
<1>3. m \in Seq(1 .. MaxPoses) /\ n \in 1 .. MaxPoses
  <2>1. ram.motors \in Seq(1 .. MaxPoses) /\ ram.motors # <<>>
    BY <1>1, <1>2
  <2>2. QED
    BY <2>1, HeadTailProperties
<1>4. Pose(n) \in P
  BY <1>3
<1> HIDE DEF P
<1>5. b \in Seq(P) /\ c \in Nat
  BY <1>2, <1>4
<1>6. [Now EXCEPT !.ram.motors = Tail(@)] = x
  BY <1>1, NowFields DEF Moment, Ram
<1>7. WriteSnapshot(x, n) = s
  <2>1. x.ram = q /\ q.open = ram.open /\ q.buf = ram.buf /\ q.snaps = ram.snaps
    BY <1>1 DEF Moment, Ram
  <2>2. WriteSnapshot(x, n) = [x EXCEPT !.ram.buf = b, !.ram.snaps = c]
    BY <2>1, ZenonT(30) DEF WriteSnapshot
  <2> HIDE DEF b, c, m, n
  <2>3. QED
    BY <2>2, <1>1 DEF Moment, Ram
<1> HIDE DEF m, n, b, c
<1>8. q \in Ram /\ SameRole(ram, q) /\ SameTalk(ram, q)
  BY <1>1, <1>3 DEF Ram, SameRole, SameTalk
<1> HIDE DEF q
<1>9. r \in Ram /\ SameRole(ram, r) /\ SameTalk(ram, r)
  BY <1>5, <1>8 DEF Ram, SameRole, SameTalk, P
<1> HIDE DEF r
<1>10. Phases(q) /\ (Ends(q) => Ends(ram)) /\ Phases(r) /\ (Ends(r) => Ends(ram))
  BY <1>1, <1>8, <1>9 DEF Phases, Ends, SameRole, SameTalk
<1>11. (Becomes(x) \/ Becomes(s)) /\ Quiet
  <2>1. PICK jump \in {FALSE, ram.snaps > 0} :
          Becomes(IF jump THEN x ELSE WriteSnapshot(x, n))
    BY <1>6 DEF MotorsRead, n
  <2> HIDE DEF x, s
  <2>2. QED
    BY <2>1, <1>7 DEF MotorsRead, Quiet
<1>12. QED
  BY <1>8, <1>9, <1>10, <1>11, RamStep

LEMMA ChargerReadKeeps ==
    ASSUME HInv, ChargerRead
    PROVE  HInv'
<1> DEFINE none == <<>>
           r == [ram EXCEPT !.charger = none]
           x == [Now EXCEPT !.ram = r]
           s == Answered(x, ram.charger)
<1>1. ram \in Ram /\ Phases(ram) /\ Now \in Moment /\ Sound(Now, log.torn)
  BY InvRam
<1>2. ram.charger \in Seq(Waiter)
  BY <1>1 DEF Ram
<1>3. /\ r \in Ram /\ SameRole(ram, r) /\ r.fetch = ram.fetch /\ r.prev = ram.prev
      /\ r.charger = <<>>
  <2>1. none \in Seq(Waiter) /\ none = <<>>
    OBVIOUS
  <2> HIDE DEF none
  <2>2. QED
    BY <1>1, <2>1 DEF Ram, SameRole
<1>4. DOMAIN r.charger = {}
  BY <1>3
<1>5. Phases(r) /\ ~Ends(r)
  BY <1>1, <1>3, <1>4 DEF Phases, Ends, SameRole
<1>6. [Now EXCEPT !.ram.charger = <<>>] = x
  BY <1>1, NowFields DEF Moment
<1> HIDE DEF r
<1>7. May(x) /\ x.ram = r /\ x.next = log.next
  BY <1>1, <1>3, <1>5, RamMay, NowFields DEF Moment
<1> HIDE DEF x
<1>8. x \in Moment /\ Sound(x, log.torn) /\ Keeps(Now, x)
  BY <1>7 DEF May
<1>9. \A i \in DOMAIN ram.charger : ram.charger[i] = "summary" =>
            i = Len(ram.charger) /\ x.ram.collecting /\ x.ram.fetch = "none"
  <2>1. ASSUME NEW i \in DOMAIN ram.charger, ram.charger[i] = "summary"
        PROVE  i = Len(ram.charger) /\ ram.collecting /\ ram.fetch = "none"
    <3>1. Ends(ram) /\ i = Len(ram.charger) /\ ram.collecting
      BY <2>1, <1>1 DEF Phases, Ends
    <3>2. ram.fetch \in {"none", "check", "state", "pos"}
      BY <1>1 DEF Ram
    <3>3. QED
      BY <3>1, <3>2, <1>1 DEF Phases
  <2>2. QED
    BY <2>1, <1>3, <1>7 DEF SameRole
<1>10. /\ s \in Moment /\ Sound(s, log.torn) /\ Keeps(x, s) /\ s.next = x.next
       /\ Phases(s.ram) /\ s.ram.charger = <<>>
       /\ s.ram.collecting = x.ram.collecting \/ Ends(ram)
  <2>1. Phases(x.ram) /\ x.ram.charger = <<>>
    BY <1>3, <1>5, <1>7
  <2>2. QED
    BY <2>1, <1>2, <1>8, <1>9, AnsweredSound DEF Ends
<1> HIDE DEF s
<1>11. Numbers(s.ram, s.next)
  <2>1. ~Ends(s.ram)
    BY <1>10 DEF Ends
  <2>2. QED
    BY <2>1, <1>3, <1>7, <1>10 DEF HInv, Numbers, SameRole
<1>12. May(s)
  BY <1>8, <1>10, <1>11, KeepsTrans DEF May
<1>13. Becomes(s) /\ Quiet
  BY <1>6 DEF ChargerRead, Quiet, s
<1>14. QED
  BY <1>12, <1>13, QuietStep

(* What checkState() remembers at its end.                                 *)
Remembers(t, u, k, b) == u = [t EXCEPT !.ram.prev = k, !.ram.recovered = b]
Checked(t, u, torn, k, b) ==
    /\ u \in Moment /\ Sound(u, torn) /\ Keeps(t, u) /\ u.next = t.next
    /\ u.ram.collecting = t.ram.collecting /\ u.ram.open = t.ram.open
    /\ u.ram.compressing = t.ram.compressing
    /\ u.ram.fetch = t.ram.fetch /\ u.ram.charger = t.ram.charger
    /\ u.ram.prev = k /\ u.ram.recovered = b

LEMMA AfterCheck ==
    ASSUME NEW t \in Moment, NEW torn, Sound(t, torn),
           NEW k \in {"cleaning", "other"}, NEW b \in BOOLEAN,
           b = t.ram.recovered \/ OnlyRecorded(t),
           NEW u, Remembers(t, u, k, b)
    PROVE  Checked(t, u, torn, k, b)
<1> DEFINE r == [t.ram EXCEPT !.prev = k, !.recovered = b]
<1>1. t.ram \in Ram
  BY MomentFields
<1>2. /\ r \in Ram /\ r.collecting = t.ram.collecting /\ r.open = t.ram.open
      /\ r.compressing = t.ram.compressing /\ r.importing = t.ram.importing
      /\ r.active = t.ram.active
      /\ r.fetch = t.ram.fetch /\ r.charger = t.ram.charger
      /\ r.prev = k /\ r.recovered = b
  BY <1>1 DEF Ram
<1>3. u = [t EXCEPT !.ram = r]
  BY DEF Moment, Remembers
<1> HIDE DEF r
<1>4. /\ u \in Moment /\ u.ram = r /\ u.raw = t.raw /\ u.hs = t.hs
      /\ u.next = t.next /\ u.dropped = t.dropped
  BY <1>2, <1>3 DEF Moment
<1>5. CASE b = t.ram.recovered
  <2>1. SameRole(t.ram, u.ram)
    BY <1>2, <1>4, <1>5 DEF SameRole
  <2>2. QED
    BY <2>1, <1>2, <1>4, Frame DEF Checked
<1>6. CASE OnlyRecorded(t)
  <2>1. Sound(u, torn) /\ Keeps(t, u)
    BY <1>2, <1>4, <1>6, Recovers
  <2>2. QED
    BY <2>1, <1>2, <1>4 DEF Checked
<1>7. QED
  BY <1>5, <1>6

LEMMA CheckedStateKeeps ==
    ASSUME HInv, CheckedState
    PROVE  HInv'
<1> DEFINE q == [ram EXCEPT !.fetch = "none"]
           s == [Now EXCEPT !.ram = q]
           recovers == Starts /\ ~ram.recovered /\ Orphans(s) # {}
           after(t) == [t EXCEPT !.ram.prev = Kind(ui),
                                 !.ram.recovered = @ \/ IdleAtBoot \/ Starts]
<1>1. /\ ram \in Ram /\ Phases(ram) /\ Now \in Moment /\ Sound(Now, log.torn)
      /\ log.next \in Nat
  BY InvRam
<1>2. ram.fetch = "check" /\ Quiet
  BY DEF CheckedState, Quiet
<1>3. /\ ram.collecting = FALSE /\ ram.open = FALSE /\ ram.compressing = None
      /\ \A i \in DOMAIN ram.charger : ram.charger[i] # "summary"
  BY <1>1, <1>2, Names DEF Phases, Ram
<1>4. /\ q \in Ram /\ SameRole(ram, q) /\ q.fetch = "none" /\ q.charger = ram.charger
      /\ q.prev = ram.prev
  BY <1>1 DEF Ram, SameRole
<1>5. [Now EXCEPT !.ram.fetch = "none"] = s
  BY <1>1, NowFields DEF Moment
<1>6. \/ IdleAtBoot /\ Becomes(after(FinalizeOrphans(s)))
      \/ recovers /\ Becomes(after(RecoverCollection(s)))
      \/ /\ Starts /\ ~recovers
         /\ \E cached \in {FALSE, ram.charger = <<>>} :
              Becomes(after(StartCollection(IF ram.recovered THEN s ELSE Unstale(s), cached)))
      \/ ~IdleAtBoot /\ ~Starts /\ Becomes(after(s))
  BY <1>5 DEF CheckedState
<1> HIDE DEF q
<1>7. /\ s \in Moment /\ s.ram = q /\ s.raw = Now.raw /\ s.hs = Now.hs
      /\ s.next = Now.next /\ s.dropped = Now.dropped
  BY <1>1, <1>4 DEF Moment
<1> HIDE DEF s
<1>8. Sound(s, log.torn) /\ Keeps(Now, s) /\ s.next = log.next
  BY <1>1, <1>4, <1>7, NowFields, Frame
<1>9. /\ s.ram.collecting = FALSE /\ s.ram.open = FALSE /\ s.ram.compressing = None
      /\ s.ram.fetch = "none" /\ s.ram.charger = ram.charger
      /\ s.ram.recovered = ram.recovered
  BY <1>3, <1>4, <1>7 DEF SameRole
<1>10. Kind(ui) \in {"cleaning", "other"} /\ ram.recovered \in BOOLEAN
  BY <1>1 DEF Kind, Ram
<1> HIDE DEF recovers
<1>11. ASSUME IdleAtBoot, Becomes(after(FinalizeOrphans(s)))
       PROVE  HInv'
  <2> DEFINE t == FinalizeOrphans(s)
             b == t.ram.recovered \/ IdleAtBoot \/ Starts
             u == [t EXCEPT !.ram.prev = Kind(ui), !.ram.recovered = b]
  <2>1. /\ t \in Moment /\ Sound(t, log.torn) /\ Keeps(s, t) /\ t.next = s.next
        /\ OnlyRecorded(t)
        /\ t.ram.collecting = s.ram.collecting /\ t.ram.open = s.ram.open
        /\ SameTalk(s.ram, t.ram)
    BY <1>7, <1>8, <1>9, FinalizeSound
  <2>2. Becomes(u)
    BY <1>11
  <2> HIDE DEF t
  <2>3. b = TRUE
    BY <1>11
  <2> HIDE DEF b
  <2>4. Checked(t, u, log.torn, Kind(ui), b)
    <3>1. Remembers(t, u, Kind(ui), b)
      BY DEF Remembers
    <3> HIDE DEF u
    <3>2. QED
      BY <3>1, <2>1, <2>3, <1>10, AfterCheck
  <2> HIDE DEF u
  <2>5. /\ u.ram.collecting = FALSE /\ u.ram.open = FALSE /\ u.ram.fetch = "none"
        /\ u.ram.charger = ram.charger /\ u.ram.recovered = TRUE
    BY <1>9, <2>1, <2>3, <2>4 DEF SameTalk, Checked
  <2>6. Phases(u.ram) /\ Numbers(u.ram, u.next)
    BY <1>3, <1>8, <2>1, <2>4, <2>5 DEF HInv, Phases, Numbers, Ends, Checked
  <2>7. May(u)
    BY <1>8, <2>1, <2>4, <2>6, KeepsTrans DEF May, Checked
  <2>8. QED
    BY <1>2, <2>2, <2>7, QuietStep
<1>12. ASSUME recovers, Becomes(after(RecoverCollection(s)))
       PROVE  HInv'
  <2> DEFINE t == RecoverCollection(s)
             b == t.ram.recovered \/ IdleAtBoot \/ Starts
             u == [t EXCEPT !.ram.prev = Kind(ui), !.ram.recovered = b]
  <2>1. Starts /\ Orphans(s) # {}
    BY <1>12 DEF recovers
  <2>2. /\ t \in Moment /\ Sound(t, log.torn) /\ Keeps(s, t) /\ t.next = s.next
        /\ OnlyRecorded(t)
        /\ t.ram.collecting = TRUE /\ t.ram.open = TRUE /\ t.ram.compressing = None
        /\ t.ram.fetch = s.ram.fetch /\ t.ram.charger = s.ram.charger
    BY <1>7, <1>8, <1>9, <2>1, RecoverSound
  <2>3. Becomes(u)
    BY <1>12
  <2> HIDE DEF t
  <2>4. b = TRUE
    BY <2>1
  <2> HIDE DEF b
  <2>5. Checked(t, u, log.torn, Kind(ui), b)
    <3>1. Remembers(t, u, Kind(ui), b)
      BY DEF Remembers
    <3> HIDE DEF u
    <3>2. QED
      BY <3>1, <2>2, <2>4, <1>10, AfterCheck
  <2> HIDE DEF u
  <2>6. /\ u.ram.collecting = TRUE /\ u.ram.open = TRUE /\ u.ram.fetch = "none"
        /\ u.ram.compressing = None
        /\ u.ram.charger = ram.charger /\ u.ram.recovered = TRUE
    BY <1>9, <2>2, <2>4, <2>5 DEF Checked
  <2>7. Phases(u.ram) /\ Numbers(u.ram, u.next)
    BY <1>3, <1>8, <2>2, <2>5, <2>6 DEF HInv, Phases, Numbers, Ends, Checked
  <2>8. May(u)
    BY <1>8, <2>2, <2>5, <2>7, KeepsTrans DEF May, Checked
  <2>9. QED
    BY <1>2, <2>3, <2>8, QuietStep
<1>13. ASSUME Starts, ~recovers, NEW cached \in {FALSE, ram.charger = <<>>},
              Becomes(after(StartCollection(IF ram.recovered THEN s ELSE Unstale(s), cached)))
       PROVE  HInv'
  <2> DEFINE t == StartCollection(s, cached)
             b == t.ram.recovered \/ IdleAtBoot \/ Starts
             u == [t EXCEPT !.ram.prev = Kind(ui), !.ram.recovered = b]
  <2>1. s.ram.recovered \/ Orphans(s) = {}
    BY <1>9, <1>13 DEF recovers
  <2>2. (IF ram.recovered THEN s ELSE Unstale(s)) = s
    BY <1>7, NothingStale
  <2>3. log.next - 2 < cleans + cuts
    <3>1. ui # "idle"
      BY <1>13 DEF Starts, MidClean, IsCleaning, IsSuspended
    <3>2. QED
      BY <3>1, <1>3 DEF HInv, Numbers
  <2>4. s.next \in Epoch
    <3>1. /\ cleans \in Nat /\ cleans <= MaxCleans /\ MaxCleans \in Nat
          /\ cuts \in Nat /\ cuts <= MaxCuts /\ MaxCuts \in Nat
      BY BoundsAssumption DEF HInv, Bounds
    <3>2. log.next \in Nat /\ log.next >= 2
      BY <1>1, NowFields, Names DEF Sound, Numbered
    <3>3. log.next <= 1 + MaxCleans + MaxCuts
      BY <3>1, <3>2, <2>3
    <3>4. QED
      BY <3>1, <3>2, <3>3, <1>8 DEF Epoch, LastEpoch
  <2>5. /\ t \in Moment /\ Sound(t, log.torn) /\ Keeps(s, t) /\ t.next = s.next + 1
        /\ OnlyRecorded(t)
        /\ t.ram.collecting /\ t.ram.open /\ t.ram.compressing = None
        /\ t.ram.fetch = s.ram.fetch
        /\ t.ram.charger \in {s.ram.charger, Append(s.ram.charger, "header")}
    BY <1>7, <1>8, <1>9, <2>1, <2>4, StartSound
  <2>6. Becomes(u)
    BY <1>13, <2>2
  <2> HIDE DEF t
  <2>7. b = TRUE
    BY <1>13
  <2> HIDE DEF b
  <2>8. Checked(t, u, log.torn, Kind(ui), b)
    <3>1. Remembers(t, u, Kind(ui), b)
      BY DEF Remembers
    <3> HIDE DEF u
    <3>2. QED
      BY <3>1, <2>5, <2>7, <1>10, AfterCheck
  <2> HIDE DEF u
  <2>9. ~Ends(t.ram)
    <3>1. ram.charger \in Seq(Waiter)
      BY <1>1 DEF Ram
    <3>2. CASE t.ram.charger = ram.charger
      BY <3>2, <1>3 DEF Ends
    <3>3. CASE t.ram.charger = Append(ram.charger, "header")
      BY <3>1, <3>3, <1>3 DEF Ends
    <3>4. QED
      BY <3>2, <3>3, <2>5, <1>9
  <2>10. /\ u.ram.collecting = TRUE /\ u.ram.open = TRUE /\ u.ram.fetch = "none"
         /\ u.ram.compressing = None /\ u.ram.recovered = TRUE
    <3>1. t.ram \in Ram
      BY <2>5, MomentFields
    <3>2. QED
      BY <3>1, <1>9, <2>5, <2>7, <2>8 DEF Ram, Checked
  <2>11. ~Ends(u.ram)
    BY <2>8, <2>9 DEF Ends, Checked
  <2>12. Phases(u.ram)
    BY <2>10, <2>11 DEF Phases, Ends
  <2>13. Numbers(u.ram, u.next)
    <3>1. u.next = log.next + 1
      BY <1>8, <2>5, <2>8 DEF Checked
    <3>2. cleans \in Nat /\ cuts \in Nat
      BY DEF HInv, Bounds
    <3>3. u.next - 2 <= cleans + cuts
      BY <3>1, <3>2, <1>1, <2>3
    <3>4. QED
      BY <3>3, <2>10, <2>11 DEF Numbers
  <2>14. May(u)
    BY <1>8, <2>5, <2>8, <2>12, <2>13, KeepsTrans DEF May, Checked
  <2>15. QED
    BY <1>2, <2>6, <2>14, QuietStep
<1>14. ASSUME ~IdleAtBoot, ~Starts, Becomes(after(s))
       PROVE  HInv'
  <2> DEFINE b == s.ram.recovered \/ IdleAtBoot \/ Starts
             u == [s EXCEPT !.ram.prev = Kind(ui), !.ram.recovered = b]
  <2>1. ram.recovered = TRUE
    <3>1. ram.recovered \/ ram.prev = "unknown"
      BY <1>1 DEF Phases
    <3>2. QED
      BY <3>1, <1>10, <1>14 DEF IdleAtBoot, Starts
  <2>2. b = TRUE /\ s.ram.recovered = TRUE
    BY <2>1, <1>9
  <2>3. Becomes(u)
    BY <1>14
  <2> HIDE DEF b
  <2>4. Checked(s, u, log.torn, Kind(ui), b)
    <3>1. Remembers(s, u, Kind(ui), b)
      BY DEF Remembers
    <3> HIDE DEF u
    <3>2. QED
      BY <3>1, <1>7, <1>8, <1>10, <2>2, AfterCheck
  <2> HIDE DEF u
  <2>5. Phases(u.ram) /\ Numbers(u.ram, u.next)
    BY <1>3, <1>8, <1>9, <2>2, <2>4 DEF HInv, Phases, Numbers, Ends, Checked
  <2>6. May(u)
    BY <1>8, <2>4, <2>5, KeepsTrans DEF May, Checked
  <2>7. QED
    BY <1>2, <2>3, <2>6, QuietStep
<1>15. QED
  BY <1>6, <1>11, <1>12, <1>13, <1>14

(* While a session is recorded and nothing is asked, what the recorder     *)
(* remembers of the robot does not matter.                                 *)
LEMMA SteadyMay ==
    ASSUME HInv, ram.collecting, ~Ends(ram), NEW t \in Moment,
           Sound(t, log.torn), Keeps(Now, t), t.next = log.next,
           SameRole(ram, t.ram), t.ram.charger = ram.charger,
           t.ram.fetch \in {"none", "state", "pos"}
    PROVE  May(t)
<1>1. ram \in Ram /\ Phases(ram)
  BY InvRam
<1>2. ~Ends(t.ram)
  BY DEF Ends
<1>3. Phases(t.ram)
  BY <1>1, <1>2 DEF Phases, Ends, SameRole
<1>4. Numbers(t.ram, t.next)
  BY <1>2 DEF HInv, Numbers, SameRole
<1>5. QED
  BY <1>3, <1>4 DEF May

LEMMA StateReadKeeps ==
    ASSUME HInv, NEW maneuver, StateRead(maneuver)
    PROVE  HInv'
<1> DEFINE seen == IF maneuver THEN "paused" ELSE ui
           q == [ram EXCEPT !.prev = Kind(seen), !.fetch = "none"]
           s == [Now EXCEPT !.ram = q]
           recharge == (IsDocking(seen) \/ IsSuspended(seen)) /\ IsCharging(seen)
           over == ~IsCleaning(seen) /\ ~IsDocking(seen) /\ ~IsSuspended(seen)
           marked == IF s.ram.snaps > 0 /\ ~s.ram.recharging THEN Write(s, <<Recharge>>) ELSE s
           resumed == [s EXCEPT !.ram.recharging = @ /\ ~IsCleaning(seen)]
<1>1. /\ ram \in Ram /\ Phases(ram) /\ Now \in Moment /\ Sound(Now, log.torn)
      /\ log.next \in Nat
  BY InvRam
<1>2. ram.fetch = "state" /\ Quiet
  BY DEF StateRead, Quiet
<1>3. /\ ram.collecting = TRUE /\ ram.open = TRUE /\ ram.compressing = None
      /\ ram.recovered /\ ~Ends(ram)
  BY <1>1, <1>2 DEF Phases, Ram
<1>4. Kind(seen) \in {"cleaning", "other"}
  BY DEF Kind
<1>5. /\ q \in Ram /\ SameRole(ram, q) /\ q.fetch = "none" /\ q.charger = ram.charger
  BY <1>1, <1>4 DEF Ram, SameRole
<1>6. [Now EXCEPT !.ram.prev = Kind(seen), !.ram.fetch = "none"] = s
  BY <1>1, NowFields DEF Moment
<1>7. PICK cached \in {FALSE, ram.charger = <<>>} :
         \/ maneuver /\ Becomes(s)
         \/ ~maneuver /\ recharge /\ Becomes([marked EXCEPT !.ram.recharging = TRUE])
         \/ ~maneuver /\ over /\ Becomes(StopCollection(s, cached))
         \/ ~maneuver /\ ~recharge /\ seen = "paused" /\ Becomes(resumed)
         \/ /\ ~maneuver /\ ~recharge /\ ~over /\ seen # "paused"
            /\ Becomes(AskPos(resumed))
  BY <1>6 DEF StateRead
<1> HIDE DEF q
<1>8. /\ s \in Moment /\ s.ram = q /\ s.raw = Now.raw /\ s.hs = Now.hs
      /\ s.next = Now.next /\ s.dropped = Now.dropped
  BY <1>1, <1>5 DEF Moment
<1> HIDE DEF s
<1>9. Sound(s, log.torn) /\ Keeps(Now, s) /\ s.next = log.next
  BY <1>1, <1>5, <1>8, NowFields, Frame
<1> HIDE DEF recharge, over
<1>10. ASSUME Becomes(s)
       PROVE  HInv'
  <2>1. May(s)
    BY <1>3, <1>5, <1>8, <1>9, SteadyMay
  <2>2. QED
    BY <2>1, <1>2, <1>10, QuietStep
<1>11. ASSUME Becomes([marked EXCEPT !.ram.recharging = TRUE])
       PROVE  HInv'
  <2> DEFINE r == [marked.ram EXCEPT !.recharging = TRUE]
             t == [marked EXCEPT !.ram = r]
  <2>1. /\ marked \in Moment /\ Sound(marked, log.torn) /\ Keeps(s, marked)
        /\ marked.ram = s.ram /\ marked.next = s.next
    <3>1. <<Recharge>> \in Seq(Line) /\ Unclosed(<<Recharge>>)
      BY Lines, OneLine DEF Unclosed
    <3>2. s.ram.open = s.ram.collecting
      BY <1>3, <1>5, <1>8 DEF SameRole
    <3>3. CASE s.ram.snaps > 0 /\ ~s.ram.recharging
      <4>1. marked = Write(s, <<Recharge>>)
        BY <3>3
      <4>2. QED
        BY <4>1, <3>1, <3>2, <1>8, <1>9, WriteSound
    <3>4. CASE ~(s.ram.snaps > 0 /\ ~s.ram.recharging)
      BY <3>4, <1>8, <1>9 DEF Keeps
    <3>5. QED
      BY <3>3, <3>4
  <2> HIDE DEF marked
  <2>2. [marked EXCEPT !.ram.recharging = TRUE] = t
    BY <2>1 DEF Moment
  <2>3. marked.ram \in Ram
    BY <2>1, MomentFields
  <2>4. r \in Ram /\ SameRole(marked.ram, r) /\ SameTalk(marked.ram, r)
    BY <2>3 DEF Ram, SameRole, SameTalk
  <2> HIDE DEF r
  <2>5. /\ t \in Moment /\ t.ram = r /\ t.raw = marked.raw /\ t.hs = marked.hs
        /\ t.next = marked.next /\ t.dropped = marked.dropped
    BY <2>1, <2>4 DEF Moment
  <2> HIDE DEF t
  <2>6. Sound(t, log.torn) /\ Keeps(marked, t)
    BY <2>1, <2>4, <2>5, Frame
  <2>7. Keeps(Now, t)
    BY <1>9, <2>1, <2>6, KeepsTrans
  <2>8. SameRole(ram, t.ram) /\ t.ram.charger = ram.charger /\ t.ram.fetch = "none"
    BY <1>5, <1>8, <2>1, <2>4, <2>5 DEF SameRole, SameTalk
  <2>9. May(t)
    BY <1>3, <1>9, <2>1, <2>5, <2>6, <2>7, <2>8, SteadyMay
  <2>10. Becomes(t)
    BY <1>11, <2>2
  <2>11. QED
    BY <2>9, <2>10, <1>2, QuietStep
<1>12. ASSUME ~maneuver, over, Becomes(StopCollection(s, cached))
       PROVE  HInv'
  <2> DEFINE t == StopCollection(s, cached)
  <2>1. ui = "idle"
    <3>1. ui \in Ui
      BY DEF HInv, Bounds
    <3>2. QED
      BY <3>1, <1>12 DEF over, IsCleaning, IsDocking, IsSuspended, Ui
  <2>2. Phases(s.ram) /\ ~Ends(s.ram)
    BY <1>1, <1>3, <1>5, <1>8 DEF Phases, Ends, SameRole
  <2>3. s.ram.collecting /\ s.ram.fetch = "none" /\ (cached => s.ram.charger = <<>>)
    BY <1>3, <1>5, <1>8 DEF SameRole
  <2>4. /\ t \in Moment /\ Sound(t, log.torn) /\ Keeps(s, t) /\ t.next = s.next
        /\ Phases(t.ram)
    BY <2>2, <2>3, <1>8, <1>9, StopSound
  <2> HIDE DEF t
  <2>5. Numbers(t.ram, t.next)
    BY <2>1, <2>4, <1>9 DEF HInv, Numbers
  <2>6. May(t)
    BY <2>4, <2>5, <1>9, KeepsTrans DEF May
  <2>7. Becomes(t)
    BY <1>12 DEF t
  <2>8. QED
    BY <2>6, <2>7, <1>2, QuietStep
<1>13. ASSUME Becomes(resumed) \/ Becomes(AskPos(resumed))
       PROVE  HInv'
  <2> DEFINE b == q.recharging /\ ~IsCleaning(seen)
             r == [q EXCEPT !.recharging = b]
             f == IF b THEN "none" ELSE "pos"
             p == [r EXCEPT !.fetch = f]
             t == [s EXCEPT !.ram = r]
             u == [s EXCEPT !.ram = p]
  <2>1. b \in BOOLEAN /\ f \in {"none", "pos"}
    OBVIOUS
  <2>2. resumed = t
    BY <1>8 DEF Moment
  <2>3. r.recharging = b
    BY <1>5 DEF Ram
  <2>4. AskPos(t) = u
    <3>1. t.ram.recharging = b
      BY <2>3, <1>8 DEF Moment
    <3>2. AskPos(t) = [t EXCEPT !.ram.fetch = f]
      BY <3>1 DEF AskPos
    <3> HIDE DEF f, b
    <3>3. QED
      BY <3>2, <1>8 DEF Moment
  <2> HIDE DEF b, f
  <2>5. r \in Ram /\ SameRole(q, r) /\ SameTalk(q, r)
    BY <1>5, <2>1 DEF Ram, SameRole, SameTalk
  <2> HIDE DEF r
  <2>6. p \in Ram /\ SameRole(q, p) /\ p.charger = q.charger /\ p.fetch = f
    BY <2>1, <2>5 DEF Ram, SameRole, SameTalk
  <2> HIDE DEF p
  <2>7. /\ t \in Moment /\ t.ram = r /\ t.raw = s.raw /\ t.hs = s.hs
        /\ t.next = s.next /\ t.dropped = s.dropped
    BY <1>8, <2>5 DEF Moment
  <2>8. /\ u \in Moment /\ u.ram = p /\ u.raw = s.raw /\ u.hs = s.hs
        /\ u.next = s.next /\ u.dropped = s.dropped
    BY <1>8, <2>6 DEF Moment
  <2> HIDE DEF t, u, resumed
  <2>9. Sound(t, log.torn) /\ Keeps(s, t) /\ Sound(u, log.torn) /\ Keeps(s, u)
    BY <1>8, <1>9, <2>5, <2>6, <2>7, <2>8, Frame
  <2>10. Keeps(Now, t) /\ Keeps(Now, u)
    BY <1>9, <2>9, KeepsTrans
  <2>11. /\ SameRole(ram, t.ram) /\ t.ram.charger = ram.charger /\ t.ram.fetch = "none"
         /\ SameRole(ram, u.ram) /\ u.ram.charger = ram.charger
         /\ u.ram.fetch \in {"none", "pos"}
    BY <1>5, <2>1, <2>5, <2>6, <2>7, <2>8 DEF SameRole, SameTalk
  <2>12. May(t) /\ May(u)
    BY <1>3, <1>9, <2>7, <2>8, <2>9, <2>10, <2>11, SteadyMay
  <2>13. Becomes(t) \/ Becomes(u)
    BY <1>13, <2>2, <2>4
  <2>14. QED
    BY <2>12, <2>13, <1>2, QuietStep
<1>14. QED
  BY <1>7, <1>10, <1>11, <1>12, <1>13

-----------------------------------------------------------------------------
(* The web server's requests.                                              *)

LEMMA SameMay ==
    ASSUME HInv, NEW t \in Moment, Sound(t, log.torn), Keeps(Now, t), t.next = log.next,
           t.ram.collecting = ram.collecting, t.ram.open = ram.open,
           t.ram.compressing = ram.compressing, t.ram.recovered = ram.recovered,
           SameTalk(ram, t.ram)
    PROVE  May(t)
<1>1. Phases(ram)
  BY InvRam
<1>2. Ends(t.ram) <=> Ends(ram)
  BY DEF Ends, SameTalk
<1>3. Phases(t.ram)
  BY <1>1, <1>2 DEF Phases, SameTalk
<1>4. Numbers(t.ram, t.next)
  BY <1>2 DEF HInv, Numbers
<1>5. QED
  BY <1>3, <1>4 DEF May

LEMMA ListKeeps ==
    ASSUME HInv, List
    PROVE  HInv'
<1> DEFINE m == [n \in Name |->
                    IF n \in Listed /\ ram.meta[n] = None THEN MetaOf(Now, n) ELSE ram.meta[n]]
           r == [ram EXCEPT !.meta = m]
<1>1. ram \in Ram /\ Phases(ram)
  BY InvRam
<1>2. m \in [Name -> Meta \cup {None}]
  <2>1. \A n \in Name : MetaOf(Now, n) \in Meta
    BY DEF MetaOf, Meta
  <2>2. \A n \in Name : ram.meta[n] \in Meta \cup {None}
    BY <1>1 DEF Ram
  <2>3. QED
    BY <2>1, <2>2
<1>3. [Now EXCEPT !.ram.meta =
            [n \in Name |-> IF n \in Listed /\ @[n] = None THEN MetaOf(Now, n) ELSE @[n]]]
      = [Now EXCEPT !.ram = r]
  BY NowFields, InvRam DEF Moment
<1> HIDE DEF m
<1>4. r \in Ram /\ SameRole(ram, r) /\ SameTalk(ram, r)
  BY <1>1, <1>2 DEF Ram, SameRole, SameTalk
<1> HIDE DEF r
<1>5. Phases(r) /\ (Ends(r) => Ends(ram))
  BY <1>1, <1>4 DEF Phases, Ends, SameRole, SameTalk
<1>6. Becomes([Now EXCEPT !.ram = r]) /\ Quiet
  BY <1>3 DEF List, Quiet
<1>7. QED
  BY <1>4, <1>5, <1>6, RamStep

LEMMA DeleteSessionKeeps ==
    ASSUME HInv, DeleteSession, ~DeleteBusy
    PROVE  HInv'
<1>1. PICK n \in Files(Now) :
        ~Busy(n) /\ Becomes([RemoveFile(Now, n) EXCEPT !.ram.meta[n] = None])
  BY DEF DeleteSession
<1>2. Quiet
  BY DEF DeleteSession, Quiet
<1> DEFINE u == RemoveFile(Now, n)
           t == [u EXCEPT !.ram.meta[n] = None]
<1>3. Now \in Moment /\ Sound(Now, log.torn) /\ n \in Name
  BY InvRam, FilesAreNames
<1>4. Now.ram.compressing # n[1] /\ ~(Now.ram.collecting /\ n = <<Now.ram.active, "raw">>)
  BY <1>1, NowFields DEF Busy
<1>5. /\ u \in Moment /\ Sound(u, log.torn) /\ Keeps(Now, u)
      /\ u.ram = ram /\ u.next = log.next
  BY <1>3, <1>4, RemoveSound, NowFields
<1>6. Becomes(t)
  BY <1>1
<1> HIDE DEF u
<1>7. /\ t \in Moment /\ SameRole(u.ram, t.ram) /\ SameTalk(u.ram, t.ram)
      /\ t.raw = u.raw /\ t.hs = u.hs /\ t.next = u.next /\ t.dropped = u.dropped
  BY <1>3, <1>5, ForgetIs
<1> HIDE DEF t
<1>8. Sound(t, log.torn) /\ Keeps(Now, t)
  BY <1>5, <1>7, Frame, KeepsTrans
<1>9. May(t)
  BY <1>5, <1>7, <1>8, SameMay DEF SameRole
<1>10. QED
  BY <1>2, <1>6, <1>9, QuietStep

LEMMA DeleteAllSessionsKeeps ==
    ASSUME HInv, DeleteAllSessions, ~DeleteBusy
    PROVE  HInv'
<1> DEFINE w == [e \in Epoch |-> NoFile]
           m == [n \in Name |-> None]
           d == log.dropped \cup OnDisk(Now)
           r == [ram EXCEPT !.meta = m]
           t == [Now EXCEPT !.raw = w, !.hs = w, !.dropped = d, !.ram = r]
<1>1. ram \in Ram /\ Now \in Moment /\ Sound(Now, log.torn) /\ log.dropped \subseteq 1 .. MaxPoses
  BY InvRam
<1>2. ~ram.collecting /\ ram.compressing = None /\ Quiet
  BY DEF DeleteAllSessions, Quiet
<1>3. w \in Raw /\ w \in Hs /\ \A e \in Epoch : w[e] = NoFile
  BY DEF Raw, Hs
<1>4. m \in [Name -> Meta \cup {None}]
  OBVIOUS
<1>5. d \subseteq 1 .. MaxPoses
  BY <1>1, OnDiskIsPoses
<1>6. Becomes(t)
  <2>1. [Now EXCEPT !.raw = w, !.hs = w, !.dropped = @ \cup OnDisk(Now), !.ram.meta = m]
        = [Now EXCEPT !.raw = w, !.hs = w, !.dropped = d, !.ram.meta = m]
    BY NowFields, <1>1 DEF Moment
  <2> DEFINE z == [Now EXCEPT !.raw = w, !.hs = w, !.dropped = d]
  <2>2. [Now EXCEPT !.raw = w, !.hs = w, !.dropped = d, !.ram.meta = m]
        = [z EXCEPT !.ram.meta = m]
    OBVIOUS
  <2>3. z.ram = ram /\ DOMAIN z = {"ram", "raw", "hs", "dropped", "next"}
    BY DEF Now
  <2>4. t = [z EXCEPT !.ram = r]
    BY DEF Now
  <2> HIDE DEF z, t
  <2>5. [z EXCEPT !.ram.meta = m] = [z EXCEPT !.ram = r]
    BY <2>3
  <2>6. QED
    BY <2>1, <2>2, <2>4, <2>5 DEF DeleteAllSessions
<1> HIDE DEF m, d, w
<1>7. r \in Ram /\ SameRole(ram, r) /\ SameTalk(ram, r)
  BY <1>1, <1>4 DEF Ram, SameRole, SameTalk
<1> HIDE DEF r
<1>8. /\ t \in Moment /\ t.ram = r /\ t.raw = w /\ t.hs = w /\ t.next = log.next
      /\ t.dropped = d
  BY <1>1, <1>3, <1>5, <1>7, NowFields DEF Moment
<1> HIDE DEF t
<1>9. Sound(t, log.torn)
  <2>1. t.ram.collecting = ram.collecting /\ t.ram.compressing = ram.compressing
        /\ t.ram.importing = ram.importing /\ t.ram.recovered = ram.recovered
    BY <1>7, <1>8 DEF SameRole
  <2>2. /\ ~t.ram.collecting /\ ~Now.ram.collecting /\ Now.ram.compressing = None
        /\ t.ram.recovered = Now.ram.recovered /\ t.ram.importing = Now.ram.importing
        /\ t.ram.compressing = Now.ram.compressing
    BY <1>2, <2>1, NowFields
  <2>3. \A e \in Epoch : t.raw[e] = NoFile /\ t.hs[e] = NoFile
    BY <1>3, <1>8
  <2>4. t.next = Now.next
    BY <1>8, NowFields
  <2>5. QED
    BY <1>1, <1>8, <2>2, <2>3, <2>4, Shrink
<1>10. Keeps(Now, t)
  BY <1>8, NowFields DEF Keeps, d
<1>11. May(t)
  BY <1>7, <1>8, <1>9, <1>10, SameMay DEF SameRole
<1>12. QED
  BY <1>2, <1>6, <1>11, QuietStep

(* The file of an import is written, or finished.                          *)
LEMMA ImportSound ==
    ASSUME NEW s \in Moment, NEW t \in Moment, NEW torn, Sound(s, torn),
           NEW c \in Compressed, ClosedOnce(c.lines), PosesIn(c.lines) = {},
           t.raw = s.raw, t.next = s.next, t.dropped = s.dropped,
           t.hs[Backup] = c, \A e \in Epoch : e # Backup => t.hs[e] = s.hs[e],
           t.ram.collecting = s.ram.collecting, t.ram.active = s.ram.active,
           t.ram.compressing = s.ram.compressing, t.ram.recovered = s.ram.recovered,
           t.ram.importing = ~c.whole
    PROVE  Sound(t, torn) /\ Keeps(s, t)
<1>1. /\ ~Has(s, Backup) /\ InHs(s, Backup) = {} /\ c # NoFile /\ Backup \in Epoch
      /\ \A e \in Epoch : e >= Backup
  BY Names DEF Sound, Numbered
<1>2. /\ \A e \in Epoch : Has(t, e) <=> Has(s, e)
      /\ \A e \in Epoch : e # Backup => (HasHs(t, e) <=> HasHs(s, e))
      /\ HasHs(t, Backup)
  BY <1>1 DEF Has, HasHs
<1>3. InHs(t, Backup) = {}
  BY DEF InHs
<1>4. Recording(t)
  <2>1. s.ram.collecting => s.ram.active # Backup
    BY <1>1 DEF Sound, Recording
  <2>2. QED
    BY <2>1, <1>2 DEF Sound, Recording
<1>5. Compressing(t)
  <2>1. s.ram.compressing # None => s.ram.compressing # Backup /\ s.ram.compressing \in Epoch
    BY <1>1, MomentFields DEF Sound, Compressing, Ram
  <2>2. QED
    BY <2>1, <1>2 DEF Sound, Compressing
<1>6. Copies(t, torn)
  <2>1. ASSUME NEW e \in Epoch, HasHs(t, e)
        PROVE  \/ t.hs[e].whole /\ ~Has(t, e)
               \/ e \in torn
               \/ ~t.hs[e].whole /\ (t.ram.compressing = e \/ (t.ram.importing /\ e = Backup))
    <3>1. CASE e = Backup
      <4>1. c.whole \in BOOLEAN
        BY DEF Compressed
      <4>2. QED
        BY <3>1, <4>1, <1>1, <1>2
    <3>2. CASE e # Backup
      BY <2>1, <3>2, <1>2 DEF Sound, Copies
    <3>3. QED
      BY <3>1, <3>2
  <2>2. QED
    BY <2>1 DEF Copies
<1>7. Numbered(t)
  <2>1. \A e \in Epoch : e >= t.next => e # Backup
    BY Names, MomentFields DEF Sound, Numbered
  <2>2. QED
    BY <2>1, <1>2, <1>3, Names DEF Sound, Numbered
<1>8. Summaries(t)
  BY <1>2 DEF Sound, Summaries
<1>9. OpenIsNewest(t)
  <2>1. ASSUME NEW e \in Epoch, Has(t, e), Unclosed(t.raw[e])
        PROVE  /\ ~HasHs(t, e)
               /\ \A d \in Epoch : d > e => ~Has(t, d) /\ ~HasHs(t, d)
               /\ t.ram.recovered => t.ram.collecting /\ t.ram.active = e
    <3>1. Has(s, e) /\ Unclosed(s.raw[e]) /\ e # Backup
      BY <2>1, <1>1, <1>2
    <3>2. \A d \in Epoch : d > e => d # Backup
      BY <1>1, Names
    <3>3. QED
      BY <3>1, <3>2, <1>2 DEF Sound, OpenIsNewest
  <2>2. QED
    BY <2>1 DEF OpenIsNewest
<1>10. Keeps(s, t)
  <2>1. \A e \in Epoch : InRaw(s, e) = InRaw(t, e)
    BY DEF InRaw
  <2>2. \A e \in Epoch : InHs(s, e) \subseteq InHs(t, e)
    <3>1. \A e \in Epoch : e # Backup => InHs(s, e) = InHs(t, e)
      BY DEF InHs
    <3>2. QED
      BY <3>1, <1>1
  <2>3. QED
    BY <2>1, <2>2, KeepsIf, OnDiskHas
<1>11. QED
  BY <1>4, <1>5, <1>6, <1>7, <1>8, <1>9, <1>10 DEF Sound

(* What an import makes of the recorder: a file, and whether it goes on.   *)
Imports(s, t, f, b) == t = [s EXCEPT !.hs[Backup] = f, !.ram.importing = b]

LEMMA ImportIs ==
    ASSUME HInv, NEW f \in Compressed \cup {NoFile}, NEW b \in BOOLEAN,
           NEW t, Imports(Now, t, f, b)
    PROVE  /\ t \in Moment
           /\ t.raw = raw /\ t.next = log.next /\ t.dropped = log.dropped
           /\ t.hs[Backup] = f /\ \A e \in Epoch : e # Backup => t.hs[e] = hs[e]
           /\ t.ram.collecting = ram.collecting /\ t.ram.active = ram.active
           /\ t.ram.open = ram.open
           /\ t.ram.compressing = ram.compressing /\ t.ram.recovered = ram.recovered
           /\ t.ram.importing = b /\ SameTalk(ram, t.ram)
<1> DEFINE r == [ram EXCEPT !.importing = b]
           x == [Now EXCEPT !.ram = r]
<1>1. ram \in Ram /\ Now \in Moment
  BY InvRam
<1>2. HsIs(x, t, Backup, f)
  BY <1>1, NowFields DEF Imports, HsIs, Moment
<1>3. /\ r \in Ram /\ r.collecting = ram.collecting /\ r.active = ram.active
      /\ r.open = ram.open /\ r.compressing = ram.compressing
      /\ r.recovered = ram.recovered /\ r.importing = b /\ SameTalk(ram, r)
  BY <1>1 DEF Ram, SameTalk
<1> HIDE DEF r
<1>4. /\ x \in Moment /\ x.ram = r /\ x.raw = raw /\ x.hs = hs /\ x.next = log.next
      /\ x.dropped = log.dropped
  BY <1>1, <1>3, NowFields DEF Moment
<1> HIDE DEF x
<1>5. t \in Moment /\ t.ram = r /\ t.raw = raw /\ t.next = log.next /\ t.dropped = log.dropped
  BY <1>2, <1>4, Names, HsChange
<1>6. t.hs[Backup] = f
  BY <1>2, <1>4, Names, HsChange
<1>7. \A e \in Epoch : e # Backup => t.hs[e] = hs[e]
  BY <1>2, <1>4, Names, HsChange
<1>8. QED
  BY <1>3, <1>5, <1>6, <1>7

LEMMA BeginImportKeeps ==
    ASSUME HInv, BeginImport
    PROVE  HInv'
<1> DEFINE c == [lines |-> <<>>, whole |-> FALSE]
           t == [Now EXCEPT !.hs[Backup] = c, !.ram.importing = TRUE]
<1>1. Now \in Moment /\ Sound(Now, log.torn)
  BY InvRam
<1>2. Becomes(t) /\ Quiet
  BY DEF BeginImport, Quiet
<1>3. c \in Compressed /\ ClosedOnce(c.lines) /\ PosesIn(c.lines) = {} /\ c.whole = FALSE
  BY DEF Compressed, ClosedOnce, PosesIn
<1>4. Imports(Now, t, c, TRUE)
  BY DEF Imports
<1> HIDE DEF c, t
<1>5. /\ t \in Moment
      /\ t.raw = raw /\ t.next = log.next /\ t.dropped = log.dropped
      /\ t.hs[Backup] = c /\ \A e \in Epoch : e # Backup => t.hs[e] = hs[e]
      /\ t.ram.collecting = ram.collecting /\ t.ram.active = ram.active
      /\ t.ram.open = ram.open
      /\ t.ram.compressing = ram.compressing /\ t.ram.recovered = ram.recovered
      /\ t.ram.importing = TRUE /\ SameTalk(ram, t.ram)
  BY <1>3, <1>4, ImportIs
<1>6. t.ram.importing = ~c.whole
  BY <1>3, <1>5
<1>7. Sound(t, log.torn) /\ Keeps(Now, t)
  BY <1>1, <1>3, <1>5, <1>6, NowFields, ImportSound
<1>8. May(t)
  BY <1>5, <1>7, SameMay
<1>9. QED
  BY <1>2, <1>8, QuietStep

LEMMA ImportTooLargeKeeps ==
    ASSUME HInv, ImportTooLarge
    PROVE  HInv'
<1> DEFINE t == [Now EXCEPT !.hs[Backup] = NoFile, !.ram.importing = FALSE]
<1>1. Now \in Moment /\ Sound(Now, log.torn) /\ ram \in Ram
  BY InvRam
<1>2. Becomes(t) /\ Quiet
  BY DEF ImportTooLarge, Quiet
<1>3. Imports(Now, t, NoFile, FALSE)
  BY DEF Imports
<1> HIDE DEF t
<1>4. /\ t \in Moment
      /\ t.raw = raw /\ t.next = log.next /\ t.dropped = log.dropped
      /\ t.hs[Backup] = NoFile /\ \A e \in Epoch : e # Backup => t.hs[e] = hs[e]
      /\ t.ram.collecting = ram.collecting /\ t.ram.active = ram.active
      /\ t.ram.open = ram.open
      /\ t.ram.compressing = ram.compressing /\ t.ram.recovered = ram.recovered
      /\ SameTalk(ram, t.ram)
  <2> DEFINE f == NoFile
             b == FALSE
  <2>1. f \in Compressed \cup {NoFile} /\ b \in BOOLEAN /\ f = NoFile
    OBVIOUS
  <2>2. Imports(Now, t, f, b)
    BY <1>3
  <2> HIDE DEF f, b
  <2>3. QED
    BY <2>1, <2>2, ImportIs
<1>5. ram.compressing # None => ram.compressing # Backup /\ ram.compressing \in Epoch
  BY <1>1, NowFields DEF Sound, Compressing, Numbered, Ram
<1>6. Sound(t, log.torn)
  <2>1. /\ \A e \in Epoch : t.raw[e] = Now.raw[e]
        /\ \A e \in Epoch : t.hs[e] = Now.hs[e] \/ t.hs[e] = NoFile
    BY <1>4, NowFields
  <2>2. ram.compressing # None =>
            /\ t.raw[ram.compressing] = raw[ram.compressing]
            /\ t.hs[ram.compressing] = hs[ram.compressing]
    BY <1>4, <1>5
  <2>3. QED
    BY <2>1, <2>2, <1>1, <1>4, NowFields, Shrink
<1>7. Keeps(Now, t)
  <2>1. \A e \in Epoch : InRaw(Now, e) = InRaw(t, e)
    BY <1>4, NowFields DEF InRaw
  <2>2. \A e \in Epoch : InHs(Now, e) \subseteq InHs(t, e)
    <3>1. \A e \in Epoch : e # Backup => InHs(Now, e) = InHs(t, e)
      BY <1>4, NowFields DEF InHs
    <3>2. QED
      BY <3>1, <1>1 DEF Sound, Numbered
  <2>3. QED
    BY <2>1, <2>2, <1>4, NowFields, KeepsIf, OnDiskHas
<1>8. May(t)
  BY <1>4, <1>6, <1>7, SameMay
<1>9. QED
  BY <1>2, <1>8, QuietStep

(* The import is the oldest session: when there are too many files it is   *)
(* the one that goes.                                                      *)
LEMMA EndImportKeeps ==
    ASSUME HInv, EndImport
    PROVE  HInv'
<1> DEFINE c == [lines |-> <<Session, Summary>>, whole |-> TRUE]
           u == [Now EXCEPT !.hs[Backup] = c, !.ram.importing = FALSE]
           t == EnforceLimits(u)
<1>1. Now \in Moment /\ Sound(Now, log.torn) /\ ram \in Ram
  BY InvRam
<1>2. Becomes(t) /\ Quiet
  BY DEF EndImport, Quiet
<1>3. c \in Compressed /\ ClosedOnce(c.lines) /\ PosesIn(c.lines) = {} /\ c.whole = TRUE
  <2>1. <<Session, Summary>> \in Seq(Line) /\ DOMAIN <<Session, Summary>> = {1, 2}
        /\ Len(<<Session, Summary>>) = 2
    BY Lines
  <2>2. ClosedOnce(<<Session, Summary>>)
    BY <2>1, Lines DEF ClosedOnce
  <2>3. PosesIn(<<Session, Summary>>) = {}
    BY <2>1, Lines DEF PosesIn
  <2>4. QED
    BY <2>1, <2>2, <2>3 DEF Compressed
<1>4. Imports(Now, u, c, FALSE)
  BY DEF Imports
<1> HIDE DEF c, u
<1>5. /\ u \in Moment
      /\ u.raw = raw /\ u.next = log.next /\ u.dropped = log.dropped
      /\ u.hs[Backup] = c /\ \A e \in Epoch : e # Backup => u.hs[e] = hs[e]
      /\ u.ram.collecting = ram.collecting /\ u.ram.active = ram.active
      /\ u.ram.open = ram.open
      /\ u.ram.compressing = ram.compressing /\ u.ram.recovered = ram.recovered
      /\ u.ram.importing = FALSE /\ SameTalk(ram, u.ram)
  BY <1>3, <1>4, ImportIs
<1>6. u.ram.importing = ~c.whole
  BY <1>3, <1>5
<1>7. Sound(u, log.torn) /\ Keeps(Now, u)
  BY <1>1, <1>3, <1>5, <1>6, NowFields, ImportSound
<1>8. ASSUME NEW n \in Files(u), \A m \in Files(u) \ {n} : Older(n, m)
      PROVE  u.ram.compressing # n[1] /\ ~(u.ram.collecting /\ n = <<u.ram.active, "raw">>)
  <2>1. c # NoFile /\ Backup \in Epoch
    BY <1>3, Names
  <2>2. HasHs(u, Backup) /\ ~Has(u, Backup)
    BY <1>7, <1>5, <2>1 DEF HasHs, Sound, Numbered
  <2>3. <<Backup, "hs">> \in Files(u) /\ <<Backup, "raw">> \notin Files(u)
    BY <2>1, <2>2, FilesAreNames
  <2>4. n[1] \in Epoch /\ n[2] \in {"raw", "hs"} /\ n = <<n[1], n[2]>>
    BY FilesAreNames DEF Name
  <2>5. n = <<Backup, "hs">>
    <3>1. CASE n # <<Backup, "hs">>
      <4>1. n[1] < Backup \/ (n[1] = Backup /\ n[2] = "raw")
        BY <3>1, <2>3, <1>8 DEF Older
      <4>2. QED
        BY <4>1, <2>3, <2>4, Names
    <3>2. QED
      BY <3>1
  <2>6. ram.compressing # Backup
    BY <1>1, <2>1, NowFields, Names DEF Sound, Compressing, Numbered
  <2>7. QED
    BY <2>5, <2>6, <1>5
<1>9. /\ t \in Moment /\ Sound(t, log.torn) /\ Keeps(u, t) /\ t.next = u.next
      /\ SameRole(u.ram, t.ram) /\ SameTalk(u.ram, t.ram)
  BY <1>5, <1>7, <1>8, EnforceSound
<1> HIDE DEF t
<1>10. May(t)
  BY <1>5, <1>7, <1>9, KeepsTrans, SameMay DEF SameRole, SameTalk
<1>11. QED
  BY <1>2, <1>10, QuietStep

-----------------------------------------------------------------------------
(* The robot, and the power.                                               *)

(* The recorder stands still: what it has done stays done.                 *)
LEMMA StandsStill ==
    ASSUME HInv, UNCHANGED <<poses, ram, raw, hs, log>>, Bounds', Numbers(ram, log.next)'
    PROVE  HInv'
<1>1. Now' = Now
  BY DEF Now
<1>2. (Now \in Moment)' /\ Sound(Now, log.torn)'
  BY <1>1 DEF HInv, Moment, Ram, Raw, Hs, Sound, Recording, Compressing, Copies, Numbered,
              Summaries, OpenIsNewest, Has, HasHs, InHs
<1>3. Phases(ram)' /\ NothingFlushedIsLost' /\ (log \in Log)'
  BY <1>1 DEF HInv, Phases, Ends, NothingFlushedIsLost, Log, OnDisk, InRaw, InHs
<1>4. QED
  BY <1>2, <1>3 DEF HInv

LEMMA RobotKeeps ==
    ASSUME HInv, RobotStarts \/ RobotMoves \/ RobotRecharges
    PROVE  HInv'
<1>1. /\ UNCHANGED <<poses, ram, raw, hs, log>> /\ cuts' = cuts
      /\ cleans' = cleans \/ (cleans' = cleans + 1 /\ cleans < MaxCleans /\ ui = "idle")
  BY DEF RobotStarts, RobotMoves, RobotRecharges
<1>2. /\ ui' \in Ui
      /\ cleans' = cleans => ui # "idle"
  BY DEF RobotStarts, RobotMoves, RobotRecharges, Moves, Ui, HInv, Bounds
<1>3. Bounds'
  BY <1>1, <1>2, BoundsAssumption DEF HInv, Bounds
<1>4. Numbers(ram, log.next)'
  <2>1. log.next \in Nat /\ cleans \in Nat /\ cuts \in Nat
    BY InvRam DEF HInv, Bounds
  <2>2. CASE cleans' = cleans
    <3>1. \A r, n : Numbers(r, n) /\ ui # "idle" =>
              /\ n - 2 <= cleans + cuts
              /\ ~r.collecting \/ Ends(r) => n - 2 < cleans + cuts
      BY DEF Numbers
    <3>2. QED
      BY <3>1, <2>2, <1>1, <1>2 DEF HInv, Numbers, Ends
  <2>3. CASE cleans' = cleans + 1
    BY <2>1, <2>3, <1>1 DEF HInv, Numbers, Ends
  <2>4. QED
    BY <2>2, <2>3, <1>1
<1>5. QED
  BY <1>1, <1>3, <1>4, StandsStill

LEMMA BootIs ==
    /\ Boot \in Ram
    /\ Boot.collecting = FALSE /\ Boot.open = FALSE /\ Boot.compressing = None
    /\ ~Boot.importing /\ ~Boot.recovered
    /\ Phases(Boot)
<1>1. [n \in Name |-> None] \in [Name -> Meta \cup {None}]
  OBVIOUS
<1>2. [header |-> FALSE, summary |-> FALSE] \in Meta
  BY DEF Meta
<1>3. /\ <<>> \in Seq({Pose(n) : n \in 1 .. MaxPoses}) /\ <<>> \in Seq(1 .. MaxPoses)
      /\ <<>> \in Seq(Waiter)
  OBVIOUS
<1>4. Boot \in Ram
  BY <1>1, <1>2, <1>3 DEF Boot, Ram
<1>5. /\ Boot.collecting = FALSE /\ Boot.open = FALSE /\ Boot.compressing = None
      /\ Boot.importing = FALSE /\ Boot.recovered = FALSE
      /\ Boot.fetch = "none" /\ Boot.prev = "unknown" /\ Boot.charger = <<>>
  BY DEF Boot
<1>6. \A i \in DOMAIN Boot.charger : FALSE
  BY <1>5
<1>7. Phases(Boot)
  BY <1>5, <1>6 DEF Phases
<1>8. QED
  BY <1>4, <1>5, <1>7

(* What the power leaves is files: nobody records, compresses or imports.  *)
Left(t) ==
    /\ t \in Moment /\ t.next = log.next /\ t.dropped = log.dropped
    /\ Numbered(t) /\ Summaries(t)
    /\ \A e \in Epoch : Has(t, e) /\ Unclosed(t.raw[e]) =>
           /\ ~HasHs(t, e)
           /\ \A d \in Epoch : d > e => ~Has(t, d) /\ ~HasHs(t, d)

LEMMA CutKeeps ==
    ASSUME HInv, NEW t, Left(t), NEW lost, lost \subseteq 1 .. MaxPoses,
           OnDisk(Now) \subseteq OnDisk(t) \cup lost, Cut(t, lost),
           cuts' = cuts + 1, cuts < MaxCuts, ui' = ui, cleans' = cleans, poses' = poses
    PROVE  HInv'
<1> DEFINE torn == Torn(t)
           u == [t EXCEPT !.ram = Boot]
<1>1. log \in Log /\ log.next \in Nat /\ t \in Moment /\ t.next = log.next /\ t.dropped = log.dropped
  BY InvRam DEF HInv, Left
<1>2. /\ ram' = Boot /\ raw' = t.raw /\ hs' = t.hs
      /\ log' = [log EXCEPT !.torn = torn, !.unmerged = @ \cup lost]
  BY DEF Cut
<1>3. torn \subseteq Epoch
  BY DEF Torn
<1>4. \A e \in Epoch : HasHs(t, e) => e \in torn \/ (t.hs[e].whole /\ ~Has(t, e))
  BY DEF Torn, Has, HasHs
<1> HIDE DEF torn
<1>5. /\ log' \in Log /\ log'.next = log.next /\ log'.dropped = log.dropped
      /\ log'.saved = log.saved /\ log'.torn = torn /\ log'.unmerged = log.unmerged \cup lost
  BY <1>1, <1>2, <1>3 DEF Log
<1>6. /\ u \in Moment /\ u.ram = Boot /\ u.raw = t.raw /\ u.hs = t.hs /\ u.next = log.next
      /\ u.dropped = log.dropped
  BY <1>1, BootIs DEF Moment
<1>7. Now' = u
  BY <1>1, <1>2, <1>5 DEF Now, Moment
<1> HIDE DEF u
<1>8. Sound(u, torn)
  <2>1. /\ \A e \in Epoch : Has(u, e) <=> Has(t, e)
        /\ \A e \in Epoch : HasHs(u, e) <=> HasHs(t, e)
    BY <1>6 DEF Has, HasHs
  <2>2. Recording(u) /\ Compressing(u)
    BY <1>6, BootIs DEF Recording, Compressing
  <2>3. Copies(u, torn)
    BY <1>4, <1>6, <2>1 DEF Copies
  <2>4. Numbered(u)
    <3>1. InHs(u, Backup) = InHs(t, Backup) /\ u.next = t.next
      BY <1>1, <1>6 DEF InHs
    <3>2. QED
      BY <3>1, <2>1, Names DEF Left, Numbered
  <2>5. Summaries(u)
    BY <2>1, <1>6 DEF Left, Summaries
  <2>6. OpenIsNewest(u)
    BY <2>1, <1>6, BootIs DEF Left, OpenIsNewest
  <2>7. QED
    BY <2>2, <2>3, <2>4, <2>5, <2>6 DEF Sound
<1>9. (Now \in Moment)' /\ Sound(Now, log.torn)'
  <2>1. Sound(Now, log.torn)' <=> Sound(Now', log'.torn)
    BY DEF Sound, Recording, Compressing, Copies, Numbered, Summaries, OpenIsNewest,
           Has, HasHs, InHs, Unclosed, StartsClosed, ClosedOnce, PosesIn
  <2>2. QED
    BY <2>1, <1>5, <1>6, <1>7, <1>8 DEF Moment
<1>10. Phases(ram)'
  <2>1. Phases(ram)' <=> Phases(ram')
    BY DEF Phases, Ends
  <2>2. QED
    BY <2>1, <1>2, BootIs
<1>11. Bounds'
  BY BoundsAssumption DEF HInv, Bounds
<1>12. Numbers(ram, log.next)'
  <2>1. cleans \in Nat /\ cuts \in Nat
    BY DEF HInv, Bounds
  <2>2. log.next - 2 <= cleans + cuts
    BY DEF HInv, Numbers
  <2>3. log.next - 2 < cleans' + cuts'
    BY <2>1, <2>2, <1>1
  <2>4. QED
    BY <2>1, <2>3, <1>1, <1>2, <1>5 DEF Numbers, Ends
<1>13. NothingFlushedIsLost'
  <2>1. OnDisk(u) = OnDisk(t)
    BY <1>6 DEF OnDisk, InRaw, InHs
  <2>2. NothingFlushedIsLost' <=>
            log'.saved \subseteq OnDisk(Now') \cup log'.dropped \cup log'.unmerged
    BY DEF NothingFlushedIsLost, OnDisk, InRaw, InHs, PosesIn
  <2>3. log.saved \subseteq OnDisk(Now) \cup log.dropped \cup log.unmerged
    BY DEF HInv, NothingFlushedIsLost
  <2>4. log.saved \subseteq OnDisk(t) \cup log.dropped \cup log.unmerged \cup lost
    BY <2>3
  <2>5. QED
    BY <2>1, <2>2, <2>4, <1>5, <1>7
<1>14. QED
  BY <1>5, <1>9, <1>10, <1>11, <1>12, <1>13 DEF HInv, Log

(* The power fails between two handlers.                                   *)
LEMMA LeftNow ==
    ASSUME HInv
    PROVE  Left(Now) /\ OnDisk(Now) \subseteq OnDisk(Now)
BY NowFields DEF HInv, Left, Sound, OpenIsNewest

(* A whole copy stands beside the raw file.                                *)
LEMMA LeftCompressing ==
    ASSUME HInv, NEW t \in CutCompressing
    PROVE  Left(t) /\ OnDisk(Now) \subseteq OnDisk(t)
<1>1. /\ Now \in Moment /\ Sound(Now, log.torn)
  BY InvRam
<1>2. PICK e \in Epoch : /\ ram.compressing = e /\ raw[e] # NoFile
                         /\ t = [Now EXCEPT !.hs[e] = [lines |-> raw[e], whole |-> TRUE]]
  BY DEF CutCompressing
<1> DEFINE new == [lines |-> raw[e], whole |-> TRUE]
<1>3. /\ Has(Now, e) /\ HasHs(Now, e) /\ ~hs[e].whole /\ raw[e] \in Seq(Line)
      /\ ClosedOnce(raw[e])
  <2>1. Has(Now, e)
    BY <1>2, NowFields DEF Has
  <2>2. raw[e] \in Seq(Line)
    BY <2>1, <1>1, NowFields, FileIs
  <2>3. HasHs(Now, e) /\ ~hs[e].whole
    BY <1>1, <1>2, Names, NowFields DEF Sound, Compressing
  <2>4. ClosedOnce(raw[e])
    BY <2>1, <1>1, NowFields DEF Sound, Summaries
  <2>5. QED
    BY <2>1, <2>2, <2>3, <2>4
<1>4. new \in Compressed /\ new.lines = raw[e] /\ new.whole = TRUE /\ new # NoFile
  <2>1. new \in Compressed /\ new.lines = raw[e] /\ new.whole = TRUE
    BY <1>3 DEF Compressed
  <2> HIDE DEF new
  <2>2. QED
    BY <2>1, Names
<1>5. HsIs(Now, t, e, new)
  BY <1>2 DEF HsIs
<1> HIDE DEF new
<1>6. /\ t \in Moment /\ t.raw = raw /\ t.next = log.next /\ t.dropped = log.dropped
      /\ t.hs[e] = new
  BY <1>1, <1>4, <1>5, HsChange, NowFields
<1>7. \A d \in Epoch : d # e => t.hs[d] = hs[d]
  BY <1>1, <1>4, <1>5, HsChange, NowFields
<1>8. \A d \in Epoch : (Has(t, d) <=> Has(Now, d)) /\ (HasHs(t, d) <=> HasHs(Now, d))
  BY <1>3, <1>4, <1>6, <1>7, NowFields DEF Has, HasHs
<1>9. Numbered(t)
  <2>1. e # Backup
    BY <1>1, <1>3 DEF Sound, Numbered
  <2>2. InHs(t, Backup) = InHs(Now, Backup)
    BY <2>1, <1>7, Names, NowFields DEF InHs
  <2>3. QED
    BY <2>2, <1>1, <1>6, <1>8, Names, NowFields DEF Sound, Numbered
<1>10. Summaries(t)
  BY <1>1, <1>3, <1>4, <1>6, <1>7, <1>8, NowFields DEF Sound, Summaries
<1>11. OnDisk(Now) \subseteq OnDisk(t)
  <2>1. \A d \in Epoch : InRaw(t, d) = InRaw(Now, d)
    BY <1>6, NowFields DEF InRaw
  <2>2. \A d \in Epoch : InHs(Now, d) \subseteq InHs(t, d)
    BY <1>3, <1>7, NowFields DEF InHs
  <2>3. QED
    BY <2>1, <2>2 DEF OnDisk
<1>12. QED
  BY <1>1, <1>6, <1>8, <1>9, <1>10, <1>11, NowFields DEF Left, Sound, OpenIsNewest

(* Only lines were added to raw files.                                     *)
LEMMA LeftGrown ==
    ASSUME HInv, NEW u \in Moment, Sound(u, log.torn), u.next = log.next, Grows(Now, u),
           NEW t, t = [Now EXCEPT !.raw = u.raw]
    PROVE  Left(t) /\ OnDisk(Now) \subseteq OnDisk(t)
<1>1. /\ Now \in Moment /\ Sound(Now, log.torn) /\ u.raw \in Raw
  BY InvRam, MomentFields
<1>2. /\ t \in Moment /\ t.raw = u.raw /\ t.hs = hs /\ t.next = log.next /\ t.dropped = log.dropped
  BY <1>1, NowFields DEF Moment
<1>3. \A e \in Epoch : /\ Has(t, e) <=> Has(u, e)
                       /\ HasHs(t, e) <=> HasHs(Now, e)
                       /\ HasHs(t, e) => HasHs(u, e)
  BY <1>2, NowFields DEF Has, HasHs, Grows
<1>4. Numbered(t)
  <2>1. InHs(t, Backup) = InHs(Now, Backup)
    BY <1>2, NowFields DEF InHs
  <2>2. QED
    BY <2>1, <1>1, <1>2, <1>3, Names, NowFields DEF Sound, Numbered
<1>5. Summaries(t)
  BY <1>1, <1>2, <1>3, NowFields DEF Sound, Summaries
<1>6. ASSUME NEW e \in Epoch, Has(t, e), Unclosed(t.raw[e])
      PROVE  ~HasHs(t, e) /\ \A d \in Epoch : d > e => ~Has(t, d) /\ ~HasHs(t, d)
  <2>1. ~HasHs(u, e) /\ \A d \in Epoch : d > e => ~Has(u, d) /\ ~HasHs(u, d)
    BY <1>2, <1>3, <1>6 DEF Sound, OpenIsNewest
  <2>2. QED
    BY <2>1, <1>3
<1>7. OnDisk(Now) \subseteq OnDisk(t)
  <2>1. \A e \in Epoch : InRaw(Now, e) \subseteq InRaw(t, e)
    BY <1>2 DEF Grows, InRaw
  <2>2. \A e \in Epoch : InHs(t, e) = InHs(Now, e)
    BY <1>2, NowFields DEF InHs
  <2>3. QED
    BY <2>1, <2>2 DEF OnDisk
<1>8. QED
  BY <1>2, <1>4, <1>5, <1>6, <1>7 DEF Left

(* The end of the session is written, and no copy was begun.               *)
LEMMA LeftAnswering ==
    ASSUME HInv, NEW t \in CutAnswering
    PROVE  Left(t) /\ OnDisk(Now) \subseteq OnDisk(t)
<1> DEFINE none == <<>>
           r == [ram EXCEPT !.charger = none]
           x == [Now EXCEPT !.ram = r]
           l == Len(ram.charger)
<1>1. ram \in Ram /\ Phases(ram) /\ Now \in Moment /\ Sound(Now, log.torn)
  BY InvRam
<1>2. ram.charger \in Seq(Waiter) /\ l \in Nat /\ DOMAIN ram.charger = 1 .. l
  BY <1>1 DEF Ram
<1>3. [Now EXCEPT !.ram.charger = <<>>] = x
  BY <1>1, NowFields DEF Moment
<1>4. PICK i \in 0 .. l : t = [Now EXCEPT !.raw = Answered(x, SubSeq(ram.charger, 1, i)).raw]
  BY <1>3 DEF CutAnswering
<1> DEFINE w == SubSeq(ram.charger, 1, i)
           u == Answered(x, w)
<1>5. /\ r \in Ram /\ SameRole(ram, r) /\ r.fetch = ram.fetch /\ r.prev = ram.prev
      /\ r.charger = <<>>
  <2>1. none \in Seq(Waiter) /\ none = <<>>
    OBVIOUS
  <2> HIDE DEF none
  <2>2. QED
    BY <1>1, <2>1 DEF Ram, SameRole
<1>6. DOMAIN r.charger = {}
  BY <1>5
<1>7. Phases(r) /\ ~Ends(r)
  BY <1>1, <1>5, <1>6 DEF Phases, Ends, SameRole
<1> HIDE DEF r
<1>8. May(x) /\ x.ram = r /\ x.next = log.next /\ x.raw = raw /\ x.hs = hs
  BY <1>1, <1>5, <1>7, RamMay, NowFields DEF Moment
<1> HIDE DEF x
<1>9. x \in Moment /\ Sound(x, log.torn) /\ Phases(x.ram) /\ x.ram.charger = <<>>
  BY <1>5, <1>7, <1>8 DEF May
<1>10. /\ w \in Seq(Waiter) /\ Len(w) = i /\ DOMAIN w = 1 .. i
       /\ \A j \in 1 .. i : w[j] = ram.charger[j] /\ j \in DOMAIN ram.charger
  BY <1>2
<1> HIDE DEF w
<1>11. \A j \in DOMAIN w : w[j] = "summary" =>
            j = Len(w) /\ x.ram.collecting /\ x.ram.fetch = "none"
  <2>1. ASSUME NEW j \in DOMAIN w, w[j] = "summary"
        PROVE  j = Len(w) /\ ram.collecting /\ ram.fetch = "none"
    <3>1. j \in 1 .. i /\ j \in DOMAIN ram.charger /\ ram.charger[j] = "summary"
      BY <2>1, <1>10
    <3>2. Ends(ram) /\ j = l /\ ram.collecting
      BY <3>1, <1>1 DEF Phases, Ends
    <3>3. ram.fetch \in {"none", "check", "state", "pos"}
      BY <1>1 DEF Ram
    <3>4. ram.fetch = "none"
      BY <3>2, <3>3, <1>1 DEF Phases
    <3>5. j = i
      BY <3>1, <3>2, <1>2
    <3>6. QED
      BY <3>2, <3>4, <3>5, <1>10
  <2>2. QED
    BY <2>1, <1>5, <1>8 DEF SameRole
<1>12. u \in Moment /\ Sound(u, log.torn) /\ Grows(x, u) /\ u.next = x.next
  BY <1>9, <1>10, <1>11, AnsweredSound
<1> HIDE DEF u
<1>13. Grows(Now, u) /\ u.next = log.next
  BY <1>8, <1>12, NowFields DEF Grows, InRaw, HasHs
<1>14. t = [Now EXCEPT !.raw = u.raw]
  BY <1>4 DEF u, w
<1>15. QED
  BY <1>12, <1>13, <1>14, LeftGrown

(* The buffer is written.                                                  *)
LEMMA LeftStopping ==
    ASSUME HInv, NEW t \in CutStopping
    PROVE  Left(t) /\ OnDisk(Now) \subseteq OnDisk(t)
<1> DEFINE u == FlushWriteBuffer(Now)
<1>1. t = [Now EXCEPT !.raw = u.raw]
  BY DEF CutStopping
<1>2. Now \in Moment /\ Sound(Now, log.torn) /\ Now.ram.open = Now.ram.collecting
  BY InvRam, NowFields DEF Phases
<1>3. u \in Moment /\ Sound(u, log.torn) /\ Grows(Now, u) /\ u.next = Now.next
  BY <1>2, FlushSound
<1> HIDE DEF u
<1>4. QED
  BY <1>1, <1>3, LeftGrown, NowFields

(* A whole session is imported.                                            *)
LEMMA LeftImporting ==
    ASSUME HInv, NEW t \in CutImporting
    PROVE  Left(t) /\ OnDisk(Now) \subseteq OnDisk(t)
<1> DEFINE f == <<Session, Summary>>
           new == [lines |-> f, whole |-> TRUE]
<1>1. /\ Now \in Moment /\ Sound(Now, log.torn) /\ Backup \in Epoch /\ log.next \in Nat
  BY InvRam, Names
<1>2. t = [Now EXCEPT !.hs[Backup] = new]
  BY DEF CutImporting
<1>3. /\ f \in Seq(Line) /\ Len(f) = 2 /\ f[1] = Session /\ f[2] = Summary /\ DOMAIN f = 1 .. 2
  BY Lines
<1>4. ClosedOnce(f) /\ PosesIn(f) = {}
  <2>1. \A i \in DOMAIN f : i = 1 \/ i = 2
    BY <1>3
  <2>2. \A n \in 1 .. MaxPoses : Pose(n) # Session /\ Pose(n) # Summary
    BY Lines
  <2> HIDE DEF f
  <2>3. QED
    BY <2>1, <2>2, <1>3, Lines DEF ClosedOnce, PosesIn
<1> HIDE DEF f
<1>5. new \in Compressed /\ new.lines = f /\ new.whole = TRUE /\ new # NoFile
  <2>1. new \in Compressed /\ new.lines = f /\ new.whole = TRUE
    BY <1>3 DEF Compressed
  <2> HIDE DEF new
  <2>2. QED
    BY <2>1, Names
<1>6. HsIs(Now, t, Backup, new)
  BY <1>2 DEF HsIs
<1> HIDE DEF new
<1>7. /\ t \in Moment /\ t.raw = raw /\ t.next = log.next /\ t.dropped = log.dropped
      /\ t.hs[Backup] = new
  BY <1>1, <1>5, <1>6, HsChange, NowFields
<1>8. \A d \in Epoch : d # Backup => t.hs[d] = hs[d]
  BY <1>1, <1>5, <1>6, HsChange, NowFields
<1>9. \A d \in Epoch : /\ Has(t, d) <=> Has(Now, d)
                       /\ d # Backup => (HasHs(t, d) <=> HasHs(Now, d))
  BY <1>7, <1>8, NowFields DEF Has, HasHs
<1>10. InHs(t, Backup) = {}
  BY <1>4, <1>5, <1>7 DEF InHs
<1>11. Numbered(t)
  <2>1. \A e \in Epoch : e >= log.next => e # Backup
    BY <1>1, Names, NowFields DEF Sound, Numbered
  <2>2. QED
    BY <2>1, <1>1, <1>7, <1>9, <1>10, Names, NowFields DEF Sound, Numbered
<1>12. Summaries(t)
  BY <1>1, <1>4, <1>5, <1>7, <1>8, <1>9, NowFields DEF Sound, Summaries
<1>13. ASSUME NEW e \in Epoch, Has(t, e), Unclosed(t.raw[e])
       PROVE  ~HasHs(t, e) /\ \A d \in Epoch : d > e => ~Has(t, d) /\ ~HasHs(t, d)
  <2>1. e # Backup /\ Has(Now, e) /\ Unclosed(Now.raw[e])
    BY <1>1, <1>7, <1>9, <1>13, NowFields DEF Sound, Numbered
  <2>2. ~HasHs(Now, e) /\ \A d \in Epoch : d > e => ~Has(Now, d) /\ ~HasHs(Now, d)
    BY <2>1, <1>1 DEF Sound, OpenIsNewest
  <2>3. \A d \in Epoch : d > e => d # Backup
    BY Names
  <2>4. QED
    BY <2>1, <2>2, <2>3, <1>9
<1>14. OnDisk(Now) \subseteq OnDisk(t)
  <2>1. \A d \in Epoch : InRaw(t, d) = InRaw(Now, d)
    BY <1>7, NowFields DEF InRaw
  <2>2. \A d \in Epoch : InHs(Now, d) \subseteq InHs(t, d)
    <3>1. InHs(Now, Backup) = {}
      BY <1>1 DEF Sound, Numbered
    <3>2. QED
      BY <3>1, <1>8, NowFields DEF InHs
  <2>3. QED
    BY <2>1, <2>2 DEF OnDisk
<1>15. QED
  BY <1>7, <1>11, <1>12, <1>13, <1>14 DEF Left

(* Some of the orphans, the newest among them, are closed.                 *)
LEMMA LeftFinalizing ==
    ASSUME HInv, NEW t \in CutFinalizing
    PROVE  Left(t) /\ OnDisk(Now) \subseteq OnDisk(t)
<1> DEFINE O == Orphans(Now)
           n == Newest(O)
           new == [lines |-> <<>>, whole |-> FALSE]
           f(e) == Append(raw[e], Summary)
<1>1. Now \in Moment /\ Sound(Now, log.torn) /\ raw \in Raw /\ hs \in Hs /\ log.next \in Nat
  BY InvRam
<1>2. \A e \in O : /\ e \in Epoch /\ Has(Now, e) /\ ~HasHs(Now, e) /\ raw[e] \in Seq(Line)
                   /\ Unclosed(raw[e]) \/ StartsClosed(raw[e])
                   /\ e # Backup /\ e < log.next
  BY <1>1, OrphanIs, NowFields
<1>3. \A e \in Epoch : Has(Now, e) /\ Unclosed(raw[e]) => e \in O
  BY <1>1, OpenIsOrphan, NowFields
<1> DEFINE to(k, created) ==
             [Now EXCEPT
                !.raw = [e \in Epoch |-> IF e \in O /\ e >= k THEN Append(@[e], Summary) ELSE @[e]],
                !.hs = IF created THEN [@ EXCEPT ![n] = new] ELSE @]
<1>4. PICK k \in O, created \in BOOLEAN : t = to(k, created)
  <2>1. t \in IF ram.fetch = "check" /\ IdleAtBoot
              THEN {to(k, TRUE) : k \in O} \cup {to(k, FALSE) : k \in {e \in O : e = n}}
              ELSE {}
    BY DEF CutFinalizing
  <2> HIDE DEF to, O, n
  <2>2. QED
    BY <2>1
<1> DEFINE w == [e \in Epoch |-> IF e \in O /\ e >= k THEN f(e) ELSE raw[e]]
           h == IF created THEN [hs EXCEPT ![n] = new] ELSE hs
<1>5. t = [Now EXCEPT !.raw = w, !.hs = h]
  BY <1>4, NowFields
<1>6. O \subseteq Epoch /\ O # {}
  BY <1>2, <1>4
<1>7. n \in O /\ n \in Epoch /\ k \in Epoch /\ k <= n /\ n >= k
  BY <1>4, <1>6, NewestIs, Names
<1>8. \A e \in O : /\ f(e) \in Seq(Line) /\ ClosedOnce(f(e)) /\ ~Unclosed(f(e))
                   /\ PosesIn(raw[e]) \subseteq PosesIn(f(e))
  BY <1>2, AppendSummary, AppendLine, Lines
<1>9. /\ \A e \in O : e >= k => w[e] = f(e) /\ w[e] # NoFile
      /\ \A e \in Epoch : ~(e \in O /\ e >= k) => w[e] = raw[e]
  BY <1>6, <1>8, Names
<1>10. w \in Raw
  BY <1>1, <1>8, <1>9 DEF Raw
<1>11. new \in Compressed /\ new.lines = <<>> /\ new.whole = FALSE /\ new # NoFile
  <2>1. new \in Compressed /\ new.lines = <<>> /\ new.whole = FALSE
    BY DEF Compressed
  <2> HIDE DEF new
  <2>2. QED
    BY <2>1, Names
<1> HIDE DEF new, f
<1>12. h \in Hs /\ \A e \in Epoch : e # n => h[e] = hs[e]
  BY <1>1, <1>7, <1>11 DEF Hs
<1>13. h[n] = new \/ h[n] = hs[n]
  BY <1>1, <1>7 DEF Hs
<1> HIDE DEF w, h, n, O
<1>14. /\ t \in Moment /\ t.raw = w /\ t.hs = h /\ t.next = log.next /\ t.dropped = log.dropped
  BY <1>1, <1>5, <1>10, <1>12, NowFields DEF Moment
<1>15. /\ \A e \in Epoch : Has(t, e) <=> Has(Now, e)
       /\ \A e \in Epoch : e # n => (HasHs(t, e) <=> HasHs(Now, e))
  BY <1>2, <1>9, <1>12, <1>14, NowFields DEF Has, HasHs
<1>16. Numbered(t)
  <2>1. n # Backup /\ ~(n >= log.next)
    BY <1>1, <1>2, <1>7, Names
  <2>2. InHs(t, Backup) = InHs(Now, Backup)
    BY <2>1, <1>12, <1>14, Names, NowFields DEF InHs
  <2>3. QED
    BY <2>1, <2>2, <1>1, <1>14, <1>15, Names, NowFields DEF Sound, Numbered
<1>17. Summaries(t)
  <2>1. \A e \in Epoch : Has(t, e) => ClosedOnce(t.raw[e])
    BY <1>1, <1>8, <1>9, <1>14, <1>15, NowFields DEF Sound, Summaries
  <2>2. ClosedOnce(new.lines)
    BY <1>11 DEF ClosedOnce
  <2>3. ~HasHs(Now, n)
    BY <1>2, <1>7
  <2>4. \A e \in Epoch : HasHs(t, e) => ClosedOnce(t.hs[e].lines)
    <3>1. ASSUME NEW e \in Epoch, HasHs(t, e), e # n
          PROVE  ClosedOnce(t.hs[e].lines)
      BY <3>1, <1>1, <1>12, <1>14, <1>15, NowFields DEF Sound, Summaries
    <3>2. ASSUME HasHs(t, n)
          PROVE  t.hs[n] = new
      BY <3>2, <2>3, <1>13, <1>14, NowFields DEF HasHs
    <3>3. QED
      BY <3>1, <3>2, <2>2
  <2>5. QED
    BY <2>1, <2>4 DEF Summaries
<1>18. ASSUME NEW e \in Epoch, Has(t, e), Unclosed(t.raw[e])
       PROVE  FALSE
  <2>1. ~(e \in O /\ e >= k)
    BY <1>8, <1>9, <1>14, <1>18
  <2>2. Has(Now, e) /\ Unclosed(raw[e])
    BY <2>1, <1>9, <1>14, <1>15, <1>18
  <2>3. e \in O /\ ~(e >= k)
    BY <2>1, <2>2, <1>3
  <2>4. \A d \in Epoch : d > e => ~Has(Now, d)
    BY <2>2, <1>1, NowFields DEF Sound, OpenIsNewest
  <2>5. n > e
    BY <2>3, <1>7, Names
  <2>6. QED
    BY <2>4, <2>5, <1>2, <1>7
<1>19. OnDisk(Now) \subseteq OnDisk(t)
  <2>1. \A e \in Epoch : InRaw(Now, e) \subseteq InRaw(t, e)
    BY <1>8, <1>9, <1>14, <1>15, NowFields DEF InRaw
  <2>2. InHs(Now, n) = {}
    BY <1>2, <1>7 DEF InHs, HasHs
  <2>3. \A e \in Epoch : InHs(Now, e) \subseteq InHs(t, e)
    BY <2>2, <1>12, <1>14, NowFields DEF InHs
  <2>4. QED
    BY <2>1, <2>3 DEF OnDisk
<1>20. QED
  BY <1>14, <1>16, <1>17, <1>18, <1>19 DEF Left

(* The oldest orphan has some of what the removed ones held.               *)
LEMMA LeftMerging ==
    ASSUME HInv, NEW t \in CutMerging
    PROVE  Left(t)
<1> DEFINE O == Orphans(Now)
           n == Oldest(O)
           upto(read) == {e \in O : e <= read}
           merged(read) == Merged(Now, upto(read), n)
           to(gone, read, l) ==
             [Now EXCEPT
                !.raw = [e \in Epoch |-> IF e = n THEN SubSeq(merged(read), 1, l)
                                         ELSE IF e \in O /\ e <= gone THEN NoFile
                                         ELSE @[e]]]
           reading == {r \in O \X O : r[1] <= r[2] /\ ~\E e \in O : r[1] < e /\ e < r[2]}
<1>1. Now \in Moment /\ Sound(Now, log.torn) /\ raw \in Raw /\ hs \in Hs /\ log.next \in Nat
  BY InvRam
<1>2. \A e \in O : /\ e \in Epoch /\ Has(Now, e) /\ ~HasHs(Now, e) /\ raw[e] \in Seq(Line)
                   /\ Unclosed(raw[e]) \/ StartsClosed(raw[e])
                   /\ e # Backup /\ e < log.next
  BY <1>1, OrphanIs, NowFields
<1>3. \A e \in Epoch : Has(Now, e) /\ Unclosed(raw[e]) => e \in O
  BY <1>1, OpenIsOrphan, NowFields
<1>4. PICK gone \in O, read \in O :
        \E l \in Len(raw[n]) .. Len(merged(read)) : t = to(gone, read, l)
  <2>1. t \in IF ram.fetch = "check" /\ Starts /\ ~ram.recovered
              THEN UNION {{to(r[1], r[2], l) : l \in Len(raw[n]) .. Len(merged(r[2]))} :
                             r \in reading}
              ELSE {}
    BY DEF CutMerging
  <2>2. \A r \in reading : r[1] \in O /\ r[2] \in O
    OBVIOUS
  <2> HIDE DEF to, O, n, merged, reading
  <2>3. PICK r \in reading : t \in {to(r[1], r[2], l) : l \in Len(raw[n]) .. Len(merged(r[2]))}
    BY <2>1
  <2>4. QED
    BY <2>2, <2>3
<1>5. PICK l \in Len(raw[n]) .. Len(merged(read)) : t = to(gone, read, l)
  BY <1>4
<1> DEFINE f == SubSeq(merged(read), 1, l)
           w == [e \in Epoch |-> IF e = n THEN f
                                 ELSE IF e \in O /\ e <= gone THEN NoFile ELSE raw[e]]
<1>6. t = [Now EXCEPT !.raw = w]
  BY <1>5, NowFields
<1>7. O \subseteq Epoch /\ n \in O /\ n \in Epoch /\ \A e \in O : n <= e
  BY <1>2, <1>4, OldestIs
<1>8. /\ merged(read) \in Seq(Line)
      /\ StartsClosed(raw[n]) => StartsClosed(merged(read))
      /\ upto(read) = {n} => merged(read) = raw[n]
  <2>1. n \in upto(read) /\ upto(read) \subseteq Epoch
    BY <1>7
  <2>2. \A e \in upto(read) : Now.raw[e] \in Seq(Line) /\ n <= e
    BY <1>2, <1>7, NowFields
  <2> HIDE DEF n, upto
  <2>3. QED
    BY <2>1, <2>2, MergedFacts, NowFields
<1>9. raw[n] \in Seq(Line)
  BY <1>2, <1>7
<1> HIDE DEF merged
<1>10. l \in Nat /\ Len(raw[n]) <= l /\ l <= Len(merged(read))
  BY <1>5, <1>8, <1>9
<1>11. /\ f \in Seq(Line) /\ Len(f) = l
       /\ \A i \in 1 .. l : i \in DOMAIN f /\ f[i] = merged(read)[i]
  BY <1>8, <1>10
<1>12. f # NoFile
  BY <1>11, Names
<1>13. StartsClosed(raw[n]) => StartsClosed(f)
  <2>1. SUFFICES ASSUME StartsClosed(raw[n]) PROVE StartsClosed(f)
    OBVIOUS
  <2>2. 1 \in DOMAIN raw[n] /\ merged(read)[1] = Summary
    BY <2>1, <1>8 DEF StartsClosed
  <2>3. 1 \in 1 .. l
    BY <2>2, <1>9, <1>10
  <2>4. QED
    BY <2>2, <2>3, <1>11 DEF StartsClosed
<1>14. Unclosed(raw[n]) => O = {n} /\ f = raw[n]
                           /\ \A d \in Epoch : d > n => ~Has(Now, d) /\ ~HasHs(Now, d)
  <2>1. SUFFICES ASSUME Unclosed(raw[n])
                 PROVE  O = {n} /\ f = raw[n]
                        /\ \A d \in Epoch : d > n => ~Has(Now, d) /\ ~HasHs(Now, d)
    OBVIOUS
  <2>2. \A d \in Epoch : d > n => ~Has(Now, d) /\ ~HasHs(Now, d)
    BY <2>1, <1>1, <1>2, <1>7, NowFields DEF Sound, OpenIsNewest
  <2>3. \A e \in O : ~(e > n)
    BY <2>2, <1>2
  <2>4. \A e \in O : e = n
    <3>1. \A e \in O : e \in Nat /\ n \in Nat /\ n <= e
      BY <1>7, Names
    <3> HIDE DEF O, n
    <3>2. QED
      BY <2>3, <3>1
  <2>5. O = {n}
    BY <2>4, <1>7
  <2>6. read = n /\ n <= n
    BY <2>4, <1>4, <1>7, Names
  <2>7. upto(read) = {n}
    BY <2>5, <2>6
  <2>8. merged(read) = raw[n]
    BY <2>7, <1>8
  <2>9. l = Len(raw[n])
    BY <2>8, <1>9, <1>10
  <2>10. f = raw[n]
    BY <2>8, <2>9, <1>9
  <2>11. QED
    BY <2>2, <2>5, <2>10
<1>15. Unclosed(f) => Unclosed(raw[n])
  BY <1>2, <1>7, <1>13 DEF Unclosed, StartsClosed
<1>16. ClosedOnce(f)
  <2>1. Unclosed(f) \/ StartsClosed(f)
    BY <1>2, <1>7, <1>13, <1>14
  <2>2. QED
    BY <2>1, <1>11, FirstClosed
<1> HIDE DEF f
<1>17. /\ w[n] = f
       /\ \A e \in Epoch : e # n => w[e] = NoFile \/ w[e] = raw[e]
       /\ w \in Raw
  BY <1>1, <1>7, <1>11 DEF Raw
<1> HIDE DEF w
<1>18. /\ t \in Moment /\ t.raw = w /\ t.hs = hs /\ t.next = log.next /\ t.dropped = log.dropped
  BY <1>1, <1>6, <1>17, NowFields DEF Moment
<1>19. /\ \A e \in Epoch : Has(t, e) => Has(Now, e)
       /\ \A e \in Epoch : Has(t, e) /\ e # n => t.raw[e] = raw[e]
       /\ \A e \in Epoch : HasHs(t, e) <=> HasHs(Now, e)
       /\ t.raw[n] = f
  BY <1>2, <1>7, <1>17, <1>18, NowFields DEF Has, HasHs
<1>20. Numbered(t)
  <2>1. InHs(t, Backup) = InHs(Now, Backup)
    BY <1>18, NowFields DEF InHs
  <2>2. QED
    BY <2>1, <1>1, <1>18, <1>19, Names, NowFields DEF Sound, Numbered
<1>21. Summaries(t)
  BY <1>1, <1>16, <1>18, <1>19, NowFields DEF Sound, Summaries
<1>22. ASSUME NEW e \in Epoch, Has(t, e), Unclosed(t.raw[e])
       PROVE  ~HasHs(t, e) /\ \A d \in Epoch : d > e => ~Has(t, d) /\ ~HasHs(t, d)
  <2>1. Has(Now, e) /\ Unclosed(raw[e])
    BY <1>7, <1>15, <1>19, <1>22, NowFields
  <2>2. ~HasHs(Now, e) /\ \A d \in Epoch : d > e => ~Has(Now, d) /\ ~HasHs(Now, d)
    BY <2>1, <1>1, NowFields DEF Sound, OpenIsNewest
  <2>3. QED
    BY <2>2, <1>19
<1>23. QED
  BY <1>18, <1>20, <1>21, <1>22 DEF Left

LEMMA PowerCutKeeps ==
    ASSUME HInv, PowerCut
    PROVE  HInv'
<1>1. /\ cuts' = cuts + 1 /\ cuts < MaxCuts /\ ui' = ui /\ cleans' = cleans /\ poses' = poses
      /\ \/ \E t \in {Now} \cup CutCompressing \cup CutAnswering \cup CutStopping
                      \cup CutFinalizing \cup CutImporting : Cut(t, {})
         \/ \E t \in CutMerging : Cut(t, OnDisk(Now) \ OnDisk(t))
  BY DEF PowerCut
<1>2. ASSUME NEW t \in {Now} \cup CutCompressing \cup CutAnswering \cup CutStopping
                       \cup CutFinalizing \cup CutImporting, Cut(t, {})
      PROVE  HInv'
  <2>1. Left(t) /\ OnDisk(Now) \subseteq OnDisk(t)
    BY LeftNow, LeftCompressing, LeftAnswering, LeftStopping, LeftFinalizing, LeftImporting
  <2>2. QED
    BY <2>1, <1>1, <1>2, CutKeeps
<1>3. ASSUME NEW t \in CutMerging, Cut(t, OnDisk(Now) \ OnDisk(t))
      PROVE  HInv'
  <2>1. Left(t)
    BY LeftMerging
  <2> DEFINE lost == OnDisk(Now) \ OnDisk(t)
  <2>2. lost \subseteq 1 .. MaxPoses /\ OnDisk(Now) \subseteq OnDisk(t) \cup lost /\ Cut(t, lost)
    BY <1>3, OnDiskIsPoses
  <2> HIDE DEF lost
  <2>3. QED
    BY <2>1, <2>2, <1>1, CutKeeps
<1>4. QED
  BY <1>1, <1>2, <1>3

-----------------------------------------------------------------------------
(* The theorems.                                                           *)

LEMMA InitHInv == Init => HInv
<1> SUFFICES ASSUME Init PROVE HInv
  OBVIOUS
<1>1. /\ ram = Boot /\ raw = [e \in Epoch |-> NoFile] /\ hs = [e \in Epoch |-> NoFile]
      /\ log = [saved |-> {}, dropped |-> {}, torn |-> {}, unmerged |-> {},
              next |-> Backup + 1]
      /\ ui \in {"idle", "cleaning"} /\ cleans = (IF ui = "idle" THEN 0 ELSE 1)
      /\ poses = 0 /\ cuts = 0
  BY DEF Init
<1>2. raw \in Raw /\ hs \in Hs /\ log \in Log
  BY <1>1, Names DEF Raw, Hs, Log
<1>3. log.next = 2 /\ log.dropped = {} /\ log.saved = {} /\ log.torn = {} /\ log.unmerged = {}
  BY <1>1, Names
<1>4. Now \in Moment
  BY <1>1, <1>2, <1>3, BootIs DEF Moment, Now
<1>5. \A e \in Epoch : ~Has(Now, e) /\ ~HasHs(Now, e)
  BY <1>1, NowFields DEF Has, HasHs
<1>6. Sound(Now, log.torn)
  <2>1. Recording(Now) /\ Compressing(Now)
    BY <1>1, NowFields, BootIs DEF Recording, Compressing
  <2>2. Copies(Now, log.torn) /\ Summaries(Now) /\ OpenIsNewest(Now)
    BY <1>5 DEF Copies, Summaries, OpenIsNewest
  <2>3. Numbered(Now)
    BY <1>3, <1>5, Names, NowFields DEF Numbered, InHs, HasHs
  <2>4. QED
    BY <2>1, <2>2, <2>3 DEF Sound
<1>7. Phases(ram)
  BY <1>1, BootIs
<1>8. Bounds
  BY <1>1, BoundsAssumption DEF Bounds, Ui
<1>9. Numbers(ram, log.next)
  BY <1>1, <1>3, BootIs DEF Numbers
<1>10. NothingFlushedIsLost
  BY <1>3 DEF NothingFlushedIsLost
<1>11. QED
  BY <1>2, <1>4, <1>6, <1>7, <1>8, <1>9, <1>10 DEF HInv

LEMMA NextHInv ==
    ASSUME ~SlowCharger, ~DeleteBusy, ~DiskMayFill
    PROVE  HInv /\ [Next]_vars => HInv'
<1> SUFFICES ASSUME HInv, [Next]_vars PROVE HInv'
  OBVIOUS
<1>1. CASE Loop
  BY <1>1, CompressReadKeeps, CompressEndKeeps, CheckStateKeeps, CollectSnapshotKeeps DEF Loop
<1>2. CASE Answer
  BY <1>2, CheckedStateKeeps, FailsKeeps, StateReadKeeps, StateFailsKeeps, PosReadKeeps,
     MotorsReadKeeps, ChargerReadKeeps DEF Answer
<1>3. CASE Request
  BY <1>3, ListKeeps, DeleteSessionKeeps, DeleteAllSessionsKeeps, BeginImportKeeps,
     ImportTooLargeKeeps, EndImportKeeps DEF Request
<1>4. CASE RobotStarts \/ RobotMoves \/ RobotRecharges
  BY <1>4, RobotKeeps
<1>5. CASE PowerCut
  BY <1>5, PowerCutKeeps
<1>6. CASE UNCHANGED vars
  <2>1. Bounds' /\ Numbers(ram, log.next)' /\ UNCHANGED <<poses, ram, raw, hs, log>>
    BY <1>6 DEF vars, HInv, Bounds, Numbers, Ends
  <2>2. QED
    BY <2>1, StandsStill
<1>7. QED
  BY <1>1, <1>2, <1>3, <1>4, <1>5, <1>6 DEF Next

(* The recharges and the requests are only counted.                        *)
Counts == charges \in 0 .. MaxCharges /\ requests \in 0 .. MaxRequests

LEMMA CountsKept == Counts /\ [Next]_vars => Counts'
<1> SUFFICES ASSUME Counts, [Next]_vars PROVE Counts'
  OBVIOUS
<1>1. CASE Loop
  BY <1>1 DEF Loop, Counts, CompressRead, CompressEnd, CheckState, CollectSnapshot
<1>2. CASE Answer
  BY <1>2 DEF Answer, Counts, CheckedState, CheckFails, StateRead, StateFails, PosRead, PosFails,
              MotorsRead, ChargerRead
<1>3. CASE Request
  <2>1. charges' = charges /\ (requests' = requests \/ Requested)
    BY <1>3 DEF Request, List, DeleteSession, DeleteAllSessions, BeginImport,
                ImportTooLarge, EndImport
  <2>2. QED
    BY <2>1, BoundsAssumption DEF Counts, Requested
<1>4. CASE RobotStarts \/ RobotMoves \/ RobotRecharges
  <2>1. requests' = requests
        /\ (charges' = charges \/ (charges < MaxCharges /\ charges' = charges + 1))
    BY <1>4 DEF RobotStarts, RobotMoves, RobotRecharges
  <2>2. QED
    BY <2>1, BoundsAssumption DEF Counts
<1>5. CASE PowerCut \/ UNCHANGED vars
  BY <1>5 DEF PowerCut, vars, Counts
<1>6. QED
  BY <1>1, <1>2, <1>3, <1>4, <1>5 DEF Next

(* Every variable keeps its type: a session is recorded under an epoch     *)
(* that is left, the files are sequences of lines, and what is waited for  *)
(* is known.                                                               *)
THEOREM HistoryTypeCorrect ==
    ASSUME ~SlowCharger, ~DeleteBusy, ~DiskMayFill
    PROVE  Spec => []HTypeOK
<1>1. HInv /\ Counts => HTypeOK
  <2> SUFFICES ASSUME HInv, Counts PROVE HTypeOK
    OBVIOUS
  <2> DEFINE Buf == Seq({Pose(n) : n \in 1 .. MaxPoses})
  <2>1. ram \in Ram /\ raw \in Raw /\ hs \in Hs
    BY InvRam
  <2>2. Buf \subseteq Seq(Line)
    BY DEF Line
  <2>3. ram \in [prev: {"unknown", "cleaning", "other"}, recovered: BOOLEAN,
                fetch: {"none", "check", "state", "pos"},
                collecting: BOOLEAN, recharging: BOOLEAN, snaps: Nat,
                active: Epoch \cup {None}, open: BOOLEAN, buf: Seq(Line),
                motors: Seq(1 .. MaxPoses), charger: Seq({"header", "summary"}),
                guard: BOOLEAN, compressing: Epoch \cup {None}, inputDone: BOOLEAN,
                importing: BOOLEAN, pending: Meta, meta: [Name -> Meta \cup {None}]]
    BY <2>1, <2>2 DEF Ram, Waiter
  <2>4. /\ DOMAIN raw = Epoch /\ \A e \in Epoch : raw[e] = NoFile \/ raw[e] \in Seq(Line)
        /\ DOMAIN hs = Epoch /\ \A e \in Epoch : hs[e] = NoFile \/ hs[e] \in Compressed
    BY <2>1 DEF Raw, Hs
  <2>5. QED
    BY <2>3, <2>4 DEF HTypeOK, HInv, Bounds, Counts, Log
<1>2. Init => Counts
  BY BoundsAssumption DEF Init, Counts
<1>3. QED
  BY InitHInv, NextHInv, CountsKept, <1>1, <1>2, PTL DEF Spec

(* What was flushed to a session's file is in a raw file or in a finished  *)
(* compressed one, or was removed on purpose: through compression,         *)
(* recovery, limits, uploads and power cuts between any two changes of a   *)
(* file, for any number of each.  Excepted is what a power cut inside the  *)
(* merge of interrupted sessions loses, which the code does not prevent.   *)
(* Assumed: a tick finds the charger's last answer, nobody deletes the     *)
(* file that is in use, and the flash does not fill up during compression. *)
THEOREM FlushedIsKept ==
    ASSUME ~SlowCharger, ~DeleteBusy, ~DiskMayFill
    PROVE  Spec => []NothingFlushedIsLost
<1>1. HInv => NothingFlushedIsLost
  BY DEF HInv
<1>2. QED
  BY InitHInv, NextHInv, <1>1, PTL DEF Spec

(* No line is ever written behind a session's summary, but in a file that  *)
(* was closed before anything else was written to it.                      *)
THEOREM SessionIsClosedOnce ==
    ASSUME ~SlowCharger, ~DeleteBusy, ~DiskMayFill
    PROVE  Spec => []SummaryIsLast
<1>1. HInv => SummaryIsLast
  <2> SUFFICES ASSUME HInv, NEW n \in Files(Now) PROVE ClosedOnce(Content(Now, n))
    BY DEF SummaryIsLast, ClosedOnce
  <2>1. Summaries(Now)
    BY DEF HInv, Sound
  <2>2. n \in Name /\ n[1] \in Epoch /\ n = <<n[1], n[2]>>
    BY FilesAreNames DEF Name
  <2>3. CASE n[2] = "raw"
    <3>1. Has(Now, n[1])
      BY <2>2, <2>3, FilesAreNames
    <3>2. QED
      BY <3>1, <2>1, <2>2, <2>3 DEF Summaries, Content
  <2>4. CASE n[2] # "raw"
    <3>1. n[2] = "hs"
      BY <2>4, <2>2 DEF Name
    <3>2. HasHs(Now, n[1])
      BY <3>1, <2>2, FilesAreNames
    <3>3. QED
      BY <3>1, <3>2, <2>1, <2>2 DEF Summaries, Content
  <2>5. QED
    BY <2>3, <2>4
<1>2. QED
  BY InitHInv, NextHInv, <1>1, PTL DEF Spec

(* A compressed file that is listed is whole, and its raw file is gone.    *)
(* Otherwise it is of a session whose compression the power cut, before    *)
(* the .hs was finished or before the raw file was removed, or it is an    *)
(* upload that has not ended.                                              *)
THEOREM ListIsWhole ==
    ASSUME ~SlowCharger, ~DeleteBusy, ~DiskMayFill
    PROVE  Spec => []ListedWhole
<1>1. HInv => ListedWhole
  <2> SUFFICES ASSUME HInv, NEW e \in Epoch, <<e, "hs">> \in Listed
               PROVE  \/ hs[e].whole /\ <<e, "raw">> \notin Listed
                      \/ e \in log.torn
                      \/ ram.importing /\ e = Backup
    BY DEF ListedWhole
  <2>1. HasHs(Now, e) /\ ram.compressing # e
    BY FilesAreNames DEF Listed, Busy
  <2>2. Copies(Now, log.torn)
    BY DEF HInv, Sound
  <2>3. \/ hs[e].whole /\ ~Has(Now, e)
        \/ e \in log.torn
        \/ ram.importing /\ e = Backup
    BY <2>1, <2>2, NowFields DEF Copies
  <2>4. ~Has(Now, e) => <<e, "raw">> \notin Listed
    BY FilesAreNames DEF Listed
  <2>5. QED
    BY <2>3, <2>4
<1>2. QED
  BY InitHInv, NextHInv, <1>1, PTL DEF Spec
=============================================================================
