-------------------------- MODULE NoGoGuardProofs --------------------------
(***************************************************************************)
(* Proofs about the no-go guard, for both builds, every queue limit and    *)
(* any number of cleans, tests and failures.                               *)
(***************************************************************************)
EXTENDS NoGoGuard, FiniteSetTheorems, SequenceTheorems, TLAPS

-----------------------------------------------------------------------------
(* The queue.                                                              *)

\* What each command is sent for.
Command(then) ==
    CASE then = "PAUSE_PENDING" -> {"Pause"}
      [] then = "TESTMODE_ON_PENDING" -> {"TestModeOn"}
      [] then = "CLEANING_MOTORS_PENDING" -> {"MotorsOn"}
      [] then \in {"STOP_PENDING", "abort"} -> {"WheelsDisable", "WheelsEnable"}
      [] then = "REVERSE_PENDING" -> {"Reverse"}
      [] then = "TURN_PENDING" -> {"Turn"}
      [] then \in {"TESTMODE_OFF_PENDING", "ABORT_TESTMODE_OFF_PENDING"} -> {"TestModeOff"}
      [] then \in {"RESUME_PENDING", "ABORT_RESUME_PENDING"} -> {"Resume"}
      [] then = "pose" -> {"GetPose"}
      [] then = "state" -> {"GetState"}
      [] then = "test" -> {"GetSensors"}
      [] then = "nothing" -> {"WheelsDisable", "WheelsEnable", "TestModeOff"}

Call == {e \in Entry : e.cmd \in Command(e.then)}

\* One element more, the others in place.
LEMMA InsertAtShape ==
    ASSUME NEW S, NEW q \in Seq(S), NEW e \in S, NEW n \in 1 .. Len(q) + 1
    PROVE  /\ InsertAt(q, n, e) \in Seq(S)
           /\ Len(InsertAt(q, n, e)) = Len(q) + 1
           /\ \A j \in 1 .. Len(q) + 1 :
                InsertAt(q, n, e)[j] = IF j < n THEN q[j] ELSE IF j = n THEN e ELSE q[j - 1]
<1> DEFINE left == SubSeq(q, 1, n - 1)
           right == SubSeq(q, n, Len(q))
           front == left \o <<e>>
           all == front \o right
<1>1. InsertAt(q, n, e) = all
  BY DEF InsertAt
<1>2. Len(q) \in Nat /\ n \in Nat /\ \A i \in 1 .. Len(q) : q[i] \in S
  OBVIOUS
<1>3. /\ left \in Seq(S) /\ Len(left) = n - 1
      /\ \A i \in 1 .. n - 1 : left[i] = q[i]
  <2>1. /\ left \in Seq(S) /\ Len(left) = IF 1 <= n - 1 THEN n - 1 - 1 + 1 ELSE 0
        /\ \A i \in 1 .. n - 1 - 1 + 1 : left[i] = q[1 + i - 1]
    BY <1>2, SubSeqProperties
  <2>2. QED
    BY <1>2, <2>1
<1>4. /\ right \in Seq(S) /\ Len(right) = Len(q) - n + 1
      /\ \A i \in 1 .. Len(q) - n + 1 : right[i] = q[n + i - 1]
  <2>1. /\ right \in Seq(S) /\ Len(right) = IF n <= Len(q) THEN Len(q) - n + 1 ELSE 0
        /\ \A i \in 1 .. Len(q) - n + 1 : right[i] = q[n + i - 1]
    BY <1>2, SubSeqProperties
  <2>2. QED
    BY <1>2, <2>1
<1> HIDE DEF left, right
<1>5. /\ front \in Seq(S) /\ Len(front) = n
      /\ \A i \in 1 .. n : front[i] = IF i < n THEN q[i] ELSE e
  <2>1. <<e>> \in Seq(S) /\ Len(<<e>>) = 1 /\ <<e>>[1] = e
    OBVIOUS
  <2>2. /\ front \in Seq(S) /\ Len(front) = Len(left) + Len(<<e>>)
        /\ \A i \in 1 .. Len(left) + Len(<<e>>) :
              front[i] = IF i <= Len(left) THEN left[i] ELSE <<e>>[i - Len(left)]
    BY <1>3, <2>1, ConcatProperties
  <2>3. QED
    BY <1>2, <1>3, <2>1, <2>2
<1> HIDE DEF front
<1>6. /\ all \in Seq(S) /\ Len(all) = Len(front) + Len(right)
      /\ \A i \in 1 .. Len(front) + Len(right) :
            all[i] = IF i <= Len(front) THEN front[i] ELSE right[i - Len(front)]
  BY <1>4, <1>5, ConcatProperties
<1> HIDE DEF all
<1>7. \A j \in 1 .. Len(q) + 1 : all[j] = IF j < n THEN q[j] ELSE IF j = n THEN e ELSE q[j - 1]
  <2> SUFFICES ASSUME NEW j \in 1 .. Len(q) + 1
               PROVE  all[j] = IF j < n THEN q[j] ELSE IF j = n THEN e ELSE q[j - 1]
    OBVIOUS
  <2>1. CASE j <= n
    BY <1>2, <1>4, <1>5, <1>6, <2>1
  <2>2. CASE j > n
    <3>1. all[j] = right[j - n]
      BY <1>2, <1>4, <1>5, <1>6, <2>2
    <3>2. right[j - n] = q[j - 1]
      <4>1. j - n \in 1 .. Len(q) - n + 1 /\ n + (j - n) - 1 = j - 1
        BY <1>2, <2>2
      <4>2. QED
        BY <1>4, <4>1
    <3>3. QED
      BY <1>2, <2>2, <3>1, <3>2
  <2>3. QED
    BY <1>2, <2>1, <2>2
<1>8. QED
  BY <1>1, <1>2, <1>4, <1>5, <1>6, <1>7

\* What enqueue() makes of the queue: the entry goes behind all that is as
\* urgent, and in front of the first that is not.
LEMMA InsertPlace ==
    ASSUME NEW q \in Seq(Call), NEW e \in Call
    PROVE  /\ Insert(q, e) \in Seq(Call)
           /\ Len(Insert(q, e)) = Len(q) + 1
           /\ \E n \in 1 .. Len(q) + 1 :
                /\ \A j \in 1 .. Len(q) + 1 :
                     Insert(q, e)[j] = IF j < n THEN q[j] ELSE IF j = n THEN e ELSE q[j - 1]
                /\ \A j \in 1 .. n - 1 : Priority(q[j].cmd) <= Priority(e.cmd)
                /\ n <= Len(q) => ~(Priority(q[n].cmd) <= Priority(e.cmd))
<1> DEFINE l == Len(q)
           passes(j) == Priority(q[j].cmd) <= Priority(e.cmd)
           passed == {i \in 1 .. l : \A j \in 1 .. i : passes(j)}
           c == Cardinality(passed)
<1>1. l \in Nat /\ DOMAIN q = 1 .. l
  OBVIOUS
<1>2. Insert(q, e) = InsertAt(q, c + 1, e)
  BY <1>1 DEF Insert
<1> HIDE DEF passes
<1>3. passed \in SUBSET (1 .. l)
  OBVIOUS
<1>4. \A k \in passed : 1 .. k \subseteq passed
  BY <1>1
<1>5. \A k \in 1 .. l : k \in passed => passes(k)
  BY <1>1
<1>6. \A k \in 1 .. l : k \notin passed => \E j \in 1 .. k : ~passes(j)
  OBVIOUS
<1> HIDE DEF passed, l
<1>7. \A k \in 0 .. l : IsFiniteSet(1 .. k) /\ Cardinality(1 .. k) = k
  <2> SUFFICES ASSUME NEW k \in 0 .. l
               PROVE  IsFiniteSet(1 .. k) /\ Cardinality(1 .. k) = k
    OBVIOUS
  <2>1. k \in Int /\ k >= 0
    BY <1>1
  <2>2. IsFiniteSet(1 .. k) /\ Cardinality(1 .. k) = IF 1 > k THEN 0 ELSE k - 1 + 1
    BY <2>1, FS_Interval
  <2>3. QED
    BY <2>1, <2>2
<1>8. IsFiniteSet(passed) /\ c \in 0 .. l
  <2>1. IsFiniteSet(1 .. l) /\ Cardinality(1 .. l) = l
    BY <1>1, <1>7
  <2>2. IsFiniteSet(passed) /\ c <= l
    BY <1>3, <2>1, FS_Subset
  <2>3. c \in Nat
    BY <2>2, FS_CardinalityType
  <2>4. QED
    BY <1>1, <2>2, <2>3
<1>9. passed = 1 .. c
  <2>1. ASSUME NEW k \in passed
        PROVE  k \in 1 .. c
    <3>1. k \in 1 .. l /\ k \in 0 .. l /\ 1 .. k \in SUBSET passed
      BY <1>1, <1>3, <1>4
    <3>2. k <= c
      BY <1>7, <1>8, <3>1, FS_Subset
    <3>3. QED
      BY <1>1, <1>8, <3>1, <3>2
  <2>2. passed \in SUBSET (1 .. c)
    BY <2>1
  <2>3. IsFiniteSet(1 .. c) /\ Cardinality(1 .. c) = Cardinality(passed)
    BY <1>7, <1>8
  <2>4. QED
    BY <2>2, <2>3, FS_Subset
<1>10. \A j \in 1 .. c : passes(j)
  BY <1>1, <1>3, <1>5, <1>9
<1>11. c + 1 <= l => ~passes(c + 1)
  <2> SUFFICES ASSUME c + 1 <= l, passes(c + 1)
               PROVE  FALSE
    OBVIOUS
  <2>1. c + 1 \in 1 .. l /\ c + 1 \notin 1 .. c
    BY <1>1, <1>8
  <2>2. PICK j \in 1 .. c + 1 : ~passes(j)
    BY <1>6, <1>9, <2>1
  <2>3. j \in 1 .. c
    BY <1>8, <2>2
  <2>4. QED
    BY <1>10, <2>2, <2>3
<1>12. PICK n \in 1 .. Len(q) + 1 : n = c + 1
  BY <1>1, <1>8 DEF l
<1>13. Insert(q, e) = InsertAt(q, n, e)
  BY <1>2, <1>12
<1>14. /\ \A j \in 1 .. n - 1 : Priority(q[j].cmd) <= Priority(e.cmd)
       /\ n <= Len(q) => ~(Priority(q[n].cmd) <= Priority(e.cmd))
  BY <1>8, <1>10, <1>11, <1>12 DEF passes, l
<1> HIDE DEF c
<1>15. /\ InsertAt(q, n, e) \in Seq(Call)
       /\ Len(InsertAt(q, n, e)) = Len(q) + 1
       /\ \A j \in 1 .. Len(q) + 1 :
            InsertAt(q, n, e)[j] = IF j < n THEN q[j] ELSE IF j = n THEN e ELSE q[j - 1]
  <2>1. \A S : \A r \in Seq(S) : \A x \in S : \A m \in 1 .. Len(r) + 1 :
           /\ InsertAt(r, m, x) \in Seq(S)
           /\ Len(InsertAt(r, m, x)) = Len(r) + 1
           /\ \A j \in 1 .. Len(r) + 1 :
                InsertAt(r, m, x)[j] = IF j < m THEN r[j] ELSE IF j = m THEN x ELSE r[j - 1]
    BY InsertAtShape
  <2>2. QED
    BY <2>1, SMTT(60)
<1>16. QED
  BY <1>13, <1>14, <1>15

LEMMA PriorityType ==
    ASSUME NEW c \in Cmd
    PROVE  Priority(c) \in {1, 2, 3, 4}
BY DEF Cmd, Priority

\* The most urgent first.
Sorted(q) == \A i, j \in DOMAIN q : i < j => Priority(q[i].cmd) <= Priority(q[j].cmd)

\* An entry goes into a sorted queue in front of all that is less urgent.
LEMMA InsertSorted ==
    ASSUME NEW q \in Seq(Call), NEW e \in Call, Sorted(q)
    PROVE  LET p == Insert(q, e)
           IN  /\ p \in Seq(Call) /\ Len(p) = Len(q) + 1 /\ Sorted(p)
               /\ \E n \in 1 .. Len(q) + 1 :
                    /\ \A j \in 1 .. Len(q) + 1 :
                         p[j] = IF j < n THEN q[j] ELSE IF j = n THEN e ELSE q[j - 1]
                    /\ \A j \in n .. Len(q) : Priority(q[j].cmd) > Priority(e.cmd)
<1> DEFINE p == Insert(q, e)
           l == Len(q)
           before(j) == Priority(q[j].cmd)
           x == Priority(e.cmd)
<1>1. PICK n \in 1 .. Len(q) + 1 :
        /\ \A j \in 1 .. Len(q) + 1 :
             p[j] = IF j < n THEN q[j] ELSE IF j = n THEN e ELSE q[j - 1]
        /\ \A j \in 1 .. n - 1 : Priority(q[j].cmd) <= Priority(e.cmd)
        /\ n <= Len(q) => ~(Priority(q[n].cmd) <= Priority(e.cmd))
  BY InsertPlace
<1>2. p \in Seq(Call) /\ Len(p) = l + 1 /\ DOMAIN p = 1 .. l + 1 /\ DOMAIN q = 1 .. l /\ l \in Nat
  BY InsertPlace
<1>3. n \in 1 .. l + 1
  BY <1>1
<1>4. x \in 1 .. 4 /\ \A j \in 1 .. l : before(j) \in 1 .. 4
  <2>1. e \in Call /\ \A j \in 1 .. l : q[j] \in Call
    BY <1>2
  <2>2. e.cmd \in Cmd /\ \A j \in 1 .. l : q[j].cmd \in Cmd
    BY <2>1 DEF Call, Entry
  <2>3. QED
    BY <2>2, PriorityType
<1>5. \A i, j \in 1 .. l : i < j => before(i) <= before(j)
  BY <1>2 DEF Sorted
<1>6. /\ \A j \in 1 .. n - 1 : before(j) <= x
      /\ n <= l => before(n) > x
  <2>1. n <= l => n \in 1 .. l
    BY <1>3
  <2>2. QED
    BY <1>1, <1>4, <2>1
<1>7. \A j \in 1 .. l + 1 : Priority(p[j].cmd) =
          IF j < n THEN before(j) ELSE IF j = n THEN x ELSE before(j - 1)
  BY <1>1
<1> HIDE DEF before, x, l, p
<1>8. \A j \in n .. l : before(j) > x
  <2> SUFFICES ASSUME NEW j \in n .. l
               PROVE  before(j) > x
    OBVIOUS
  <2>1. j \in 1 .. l /\ n \in 1 .. l /\ (j = n \/ n < j)
    BY <1>2, <1>3
  <2>2. QED
    BY <1>4, <1>5, <1>6, <2>1
<1>9. Sorted(p)
  <2> SUFFICES ASSUME NEW i \in 1 .. l + 1, NEW j \in 1 .. l + 1, i < j
               PROVE  Priority(p[i].cmd) <= Priority(p[j].cmd)
    BY <1>2 DEF Sorted
  <2>1. CASE j < n
    <3>1. i \in 1 .. l /\ j \in 1 .. l /\ i < n
      BY <1>2, <1>3, <2>1
    <3>2. QED
      BY <1>5, <1>7, <2>1, <3>1
  <2>2. CASE j = n
    <3>1. i \in 1 .. n - 1 /\ i < n
      BY <1>2, <1>3, <2>2
    <3>2. QED
      BY <1>6, <1>7, <2>2, <3>1
  <2>3. CASE j > n
    <3>1. j - 1 \in n .. l /\ j - 1 \in 1 .. l /\ ~(j < n) /\ j # n
      BY <1>2, <1>3, <2>3
    <3>2. Priority(p[j].cmd) = before(j - 1)
      BY <1>7, <3>1
    <3>3. CASE i < n
      <4>1. i \in 1 .. l /\ i < j - 1 /\ Priority(p[i].cmd) = before(i)
        BY <1>2, <1>3, <1>7, <2>3, <3>3
      <4>2. QED
        BY <1>5, <3>1, <3>2, <4>1
    <3>4. CASE i = n
      BY <1>4, <1>7, <1>8, <3>1, <3>2, <3>4
    <3>5. CASE i > n
      <4>1. i - 1 \in 1 .. l /\ i - 1 < j - 1 /\ Priority(p[i].cmd) = before(i - 1)
        BY <1>2, <1>3, <1>7, <3>5
      <4>2. QED
        BY <1>5, <3>1, <3>2, <4>1
    <3>6. QED
      BY <1>2, <1>3, <3>3, <3>4, <3>5
  <2>4. QED
    BY <1>2, <1>3, <2>1, <2>2, <2>3
<1>10. QED
  BY <1>1, <1>2, <1>8, <1>9 DEF before, x, l, p

-----------------------------------------------------------------------------
(* Types.                                                                  *)

Guard == [enabled: BOOLEAN, run: BOOLEAN, stage: Stage, entered: BOOLEAN,
          posePending: BOOLEAN, offs: 0 .. 2, resumes: 0 .. 2]

State == {s \in [g: Guard, pulse: {"none", "escape", "test"}, due: SUBSET Deadline,
                 line: Seq(Call), refused: BOOLEAN] : Len(s.line) <= QueueMax}

LEMMA FieldTypes ==
    ASSUME NEW s \in State
    PROVE  /\ s.g \in Guard /\ s.line \in Seq(Call) /\ Len(s.line) <= QueueMax
           /\ s.refused \in BOOLEAN /\ s.g.stage \in Stage /\ s.g.run \in BOOLEAN
           /\ s.g.entered \in BOOLEAN /\ s.g.offs \in 0 .. 2 /\ s.g.resumes \in 0 .. 2
BY DEF State, Guard

\* A handler that neither starts nor ends a run.
Fits(s, t) ==
    /\ t \in State
    /\ t.g.run = s.g.run
    /\ s.refused => t.refused

\* One that leaves the queue alone, too; and one that leaves the escape alone.
Keeps(s, t) == Fits(s, t) /\ t.line = s.line /\ t.refused = s.refused

Same(s, t) == Keeps(s, t) /\ t.g.stage = s.g.stage /\ t.g.entered = s.g.entered

Moves(s, t, stage) == Keeps(s, t) /\ t.g.stage = stage /\ t.g.entered = s.g.entered

LEMMA FitsTransitive ==
    ASSUME NEW s, NEW t, NEW u, Fits(s, t), Fits(t, u)
    PROVE  Fits(s, u)
BY DEF Fits

LEMMA KeepsFits ==
    ASSUME NEW s, NEW t
    PROVE  /\ Keeps(s, t) => Fits(s, t)
           /\ Same(s, t) => Fits(s, t)
           /\ \A stage : Moves(s, t, stage) => Fits(s, t)
BY DEF Keeps, Same, Moves

\* An assignment to the guard.
LEMMA Assign ==
    ASSUME NEW s \in State, NEW h \in Guard, h.run = s.g.run
    PROVE  /\ Keeps(s, [s EXCEPT !.g = h])
           /\ [s EXCEPT !.g = h].g = h
           /\ [s EXCEPT !.g = h].pulse = s.pulse
BY DEF State, Keeps, Fits

LEMMA SetStage ==
    ASSUME NEW s \in State, NEW stage \in Stage
    PROVE  Moves(s, [s EXCEPT !.g.stage = stage], stage)
<1> DEFINE h == [s.g EXCEPT !.stage = stage]
<1>1. h \in Guard /\ h.stage = stage /\ h.entered = s.g.entered /\ h.run = s.g.run
  BY DEF State, Guard
<1>2. [s EXCEPT !.g.stage = stage] = [s EXCEPT !.g = h]
  BY DEF State
<1> HIDE DEF h
<1>3. QED
  BY <1>1, <1>2, Assign DEF Moves

LEMMA SetPending ==
    ASSUME NEW s \in State, NEW pending \in BOOLEAN
    PROVE  Same(s, [s EXCEPT !.g.posePending = pending])
<1> DEFINE h == [s.g EXCEPT !.posePending = pending]
<1>1. h \in Guard /\ h.stage = s.g.stage /\ h.entered = s.g.entered /\ h.run = s.g.run
  BY DEF State, Guard
<1>2. [s EXCEPT !.g.posePending = pending] = [s EXCEPT !.g = h]
  BY DEF State
<1> HIDE DEF h
<1>3. QED
  BY <1>1, <1>2, Assign DEF Same

LEMMA SetEntered ==
    ASSUME NEW s \in State, NEW entered \in BOOLEAN
    PROVE  LET t == [s EXCEPT !.g.entered = entered]
           IN  Keeps(s, t) /\ t.g.stage = s.g.stage /\ t.g.entered = entered
<1> DEFINE h == [s.g EXCEPT !.entered = entered]
<1>1. h \in Guard /\ h.stage = s.g.stage /\ h.entered = entered /\ h.run = s.g.run
  BY DEF State, Guard
<1>2. [s EXCEPT !.g.entered = entered] = [s EXCEPT !.g = h]
  BY DEF State
<1> HIDE DEF h
<1>3. QED
  BY <1>1, <1>2, Assign

LEMMA CountOff ==
    ASSUME NEW s \in State
    PROVE  Same(s, [s EXCEPT !.g.offs = Up(@)])
<1> DEFINE h == [s.g EXCEPT !.offs = Up(@)]
<1>1. h \in Guard /\ h.stage = s.g.stage /\ h.entered = s.g.entered /\ h.run = s.g.run
  BY DEF State, Guard, Up
<1>2. [s EXCEPT !.g.offs = Up(@)] = [s EXCEPT !.g = h]
  BY DEF State
<1> HIDE DEF h
<1>3. QED
  BY <1>1, <1>2, Assign DEF Same

LEMMA CountResume ==
    ASSUME NEW s \in State
    PROVE  Same(s, [s EXCEPT !.g.resumes = Up(@)])
<1> DEFINE h == [s.g EXCEPT !.resumes = Up(@)]
<1>1. h \in Guard /\ h.stage = s.g.stage /\ h.entered = s.g.entered /\ h.run = s.g.run
  BY DEF State, Guard, Up
<1>2. [s EXCEPT !.g.resumes = Up(@)] = [s EXCEPT !.g = h]
  BY DEF State
<1> HIDE DEF h
<1>3. QED
  BY <1>1, <1>2, Assign DEF Same

LEMMA Relays ==
    ASSUME NEW s \in State
    PROVE  /\ Same(s, Release(s))
           /\ \A who \in {"escape", "test"} : Same(s, Pulse(s, who))
BY DEF State, Guard, Release, Pulse, Same, Keeps, Fits

LEMMA Pauses ==
    ASSUME NEW s \in State
    PROVE  /\ Moves(s, Cooldown(s), "COOLDOWN")
           /\ \A stage \in Timed : Moves(s, Wait(s, stage), stage)
<1>1. \A gone : \A stage \in Stage :
        LET r == [s EXCEPT !.g.stage = stage, !.due = @ \ gone]
            m == [s EXCEPT !.g.stage = stage]
        IN  Moves(s, m, stage) => Moves(s, r, stage)
  BY DEF State, Guard, Moves, Keeps, Fits
<1>2. "COOLDOWN" \in Stage /\ Timed \subseteq Stage
  BY DEF Stage, Timed, Waiting
<1>3. QED
  BY <1>1, <1>2, SetStage DEF Cooldown, Wait

\* A step that is refused leaves the guard cooling down; anything else leaves
\* the escape as it is.
LEMMA RefusedState ==
    ASSUME NEW s \in State, NEW then \in Then
    PROVE  LET t == Refused(s, then)
           IN  /\ t \in State /\ t.g.run = s.g.run /\ t.line = s.line
               /\ t.g.entered = s.g.entered
               /\ then \in Step => t.g.stage = "COOLDOWN" /\ t.refused
               /\ then \notin Step => t.g.stage = s.g.stage /\ t.refused = s.refused
<1> DEFINE t == Refused(s, then)
           offs == [s EXCEPT !.g.offs = 2, !.refused = TRUE]
           resumes == [s EXCEPT !.g.resumes = 2, !.refused = TRUE]
           gone(h) == [s EXCEPT !.g = h, !.refused = TRUE]
<1>1. CASE then \in Step
  <2>1. \A h \in Guard : h.run = s.g.run /\ h.entered = s.g.entered =>
          /\ gone(h) \in State /\ gone(h).g.run = s.g.run /\ gone(h).line = s.line
          /\ gone(h).g.entered = s.g.entered /\ gone(h).refused
    BY DEF State
  <2>2. \A x \in {offs, resumes} :
          /\ x \in State /\ x.g.run = s.g.run /\ x.line = s.line
          /\ x.g.entered = s.g.entered /\ x.refused
    <3> DEFINE ho == [s.g EXCEPT !.offs = 2]
               hr == [s.g EXCEPT !.resumes = 2]
    <3>1. /\ ho \in Guard /\ ho.run = s.g.run /\ ho.entered = s.g.entered
          /\ hr \in Guard /\ hr.run = s.g.run /\ hr.entered = s.g.entered
      BY DEF State, Guard
    <3>2. offs = gone(ho) /\ resumes = gone(hr)
      BY DEF State
    <3> HIDE DEF ho, hr, offs, resumes, gone
    <3>3. QED
      BY <2>1, <3>1, <3>2
  <2>3. t \in {Cooldown(offs), Cooldown(resumes)}
    BY <1>1 DEF Refused, Step
  <2> HIDE DEF offs, resumes
  <2>4. PICK x \in {offs, resumes} : t = Cooldown(x)
    BY <2>3
  <2>5. x \in State /\ Moves(x, Cooldown(x), "COOLDOWN")
    BY <2>2, Pauses
  <2>6. QED
    BY <1>1, <2>2, <2>4, <2>5 DEF Moves, Keeps, Fits
<1>2. CASE then \notin Step
  <2>1. t \in {s, Release(s), [s EXCEPT !.g.posePending = FALSE]}
    BY <1>2 DEF Refused
  <2>2. Same(s, Release(s)) /\ Same(s, [s EXCEPT !.g.posePending = FALSE])
    BY Relays, SetPending
  <2>3. QED
    BY <1>2, <2>1, <2>2 DEF Same, Keeps, Fits
<1>3. QED
  BY <1>1, <1>2

\* A command is queued, or refused.
LEMMA SendState ==
    ASSUME NEW s \in State, NEW cmd \in Cmd, NEW then \in Then, cmd \in Command(then)
    PROVE  LET t == Send(s, cmd, then)
               e == [cmd |-> cmd, then |-> then]
           IN  /\ t \in State /\ t.g.run = s.g.run /\ t.g.entered = s.g.entered
               /\ \/ /\ e \in Call /\ t.line = Insert(s.line, e)
                     /\ t.g = s.g /\ t.refused = s.refused
                  \/ /\ t = Refused(s, then) /\ t.line = s.line
                     /\ then \in Step => t.g.stage = "COOLDOWN" /\ t.refused
                     /\ then \notin Step => t.g.stage = s.g.stage /\ t.refused = s.refused
<1> DEFINE t == Send(s, cmd, then)
           e == [cmd |-> cmd, then |-> then]
           q == [s EXCEPT !.line = Insert(@, e)]
<1>1. CASE Len(s.line) >= QueueMax
  <2>1. t = Refused(s, then)
    BY <1>1 DEF Send
  <2>2. QED
    BY <2>1, RefusedState
<1>2. CASE ~(Len(s.line) >= QueueMax)
  <2>1. t = q
    BY <1>2 DEF Send
  <2>2. e \in Call
    BY DEF Call, Entry
  <2>3. s.line \in Seq(Call)
    BY DEF State
  <2>4. Insert(s.line, e) \in Seq(Call) /\ Len(Insert(s.line, e)) = Len(s.line) + 1
    BY <2>2, <2>3, InsertPlace
  <2> HIDE DEF e
  <2>5. Len(Insert(s.line, e)) <= QueueMax
    BY <1>2, <2>3, <2>4, QueueMaxAssumption
  <2>6. q \in State /\ q.g = s.g /\ q.refused = s.refused /\ q.line = Insert(s.line, e)
    BY <2>4, <2>5 DEF State
  <2>7. QED
    BY <2>1, <2>2, <2>6 DEF e
<1>3. QED
  BY <1>1, <1>2

LEMMA SendFits ==
    ASSUME NEW s \in State, NEW cmd \in Cmd, NEW then \in Then, cmd \in Command(then)
    PROVE  Fits(s, Send(s, cmd, then))
<1> DEFINE t == Send(s, cmd, then)
<1>1. t \in State /\ t.g.run = s.g.run
  BY SendState
<1>2. s.refused => t.refused
  BY SendState
<1>3. QED
  BY <1>1, <1>2 DEF Fits

LEMMA SendStepFits ==
    ASSUME NEW s \in State, NEW stage \in Step \ {"abort"}, NEW cmd \in Command(stage)
    PROVE  Fits(s, SendStep(s, cmd, stage))
<1> DEFINE m == [s EXCEPT !.g.stage = stage]
<1>1. stage \in Stage /\ stage \in Then /\ cmd \in Cmd
  BY DEF Step, Then, Stage, Cmd, Command
<1>2. Fits(s, m) /\ m \in State
  BY <1>1, SetStage DEF Moves, Keeps, Fits
<1> HIDE DEF m
<1>3. Fits(m, Send(m, cmd, stage))
  BY <1>1, <1>2, SendFits
<1>4. SendStep(s, cmd, stage) = Send(m, cmd, stage)
  BY DEF SendStep, m
<1>5. QED
  BY <1>2, <1>3, <1>4, FitsTransitive

LEMMA LeavingFits ==
    ASSUME NEW s \in State
    PROVE  /\ \A stage \in {"TESTMODE_OFF_PENDING", "ABORT_TESTMODE_OFF_PENDING"} :
                Fits(s, SendTestModeOff(s, stage))
           /\ \A stage \in {"RESUME_PENDING", "ABORT_RESUME_PENDING"} :
                Fits(s, SendResume(s, stage))
           /\ Fits(s, FailStage(s))
<1>1. /\ {"TESTMODE_OFF_PENDING", "ABORT_TESTMODE_OFF_PENDING", "RESUME_PENDING",
          "ABORT_RESUME_PENDING"} \subseteq Step \ {"abort"}
      /\ "abort" \in Then /\ "WheelsDisable" \in Cmd /\ "WheelsDisable" \in Command("abort")
      /\ \A stage \in {"TESTMODE_OFF_PENDING", "ABORT_TESTMODE_OFF_PENDING"} :
            "TestModeOff" \in Command(stage)
      /\ \A stage \in {"RESUME_PENDING", "ABORT_RESUME_PENDING"} : "Resume" \in Command(stage)
  BY DEF Step, Then, Cmd, Command
<1>2. \A stage \in {"TESTMODE_OFF_PENDING", "ABORT_TESTMODE_OFF_PENDING"} :
        Fits(s, SendTestModeOff(s, stage))
  <2> DEFINE m == [s EXCEPT !.g.offs = Up(@)]
  <2>1. Fits(s, m) /\ m \in State
    BY CountOff DEF Same, Keeps, Fits
  <2>2. \A stage : SendTestModeOff(s, stage) = SendStep(m, "TestModeOff", stage)
    BY DEF SendTestModeOff
  <2> HIDE DEF m
  <2>3. QED
    BY <1>1, <2>1, <2>2, SendStepFits, FitsTransitive
<1>3. \A stage \in {"RESUME_PENDING", "ABORT_RESUME_PENDING"} : Fits(s, SendResume(s, stage))
  <2> DEFINE m == [s EXCEPT !.g.resumes = Up(@)]
  <2>1. Fits(s, m) /\ m \in State
    BY CountResume DEF Same, Keeps, Fits
  <2>2. \A stage : SendResume(s, stage) = SendStep(m, "Resume", stage)
    BY DEF SendResume
  <2> HIDE DEF m
  <2>3. QED
    BY <1>1, <2>1, <2>2, SendStepFits, FitsTransitive
<1>4. Fits(s, FailStage(s))
  BY <1>1, <1>3, SendFits DEF FailStage
<1>5. QED
  BY <1>2, <1>3, <1>4

LEMMA FallbackFits ==
    ASSUME NEW s \in State
    PROVE  Fits(s, BeginTestModeFallback(s))
<1>1. Fits(s, Release(s)) /\ Release(s) \in State
  BY Relays DEF Same, Keeps, Fits
<1>2. "Pause" \in Command("PAUSE_PENDING") /\ "PAUSE_PENDING" \in Step \ {"abort"}
  BY DEF Command, Step
<1>3. QED
  BY <1>1, <1>2, SendStepFits, FitsTransitive DEF BeginTestModeFallback

LEMMA EscapeFits ==
    ASSUME NEW s \in State
    PROVE  Fits(s, Escape(s))
<1>1. CASE Physical
  <2>1. Fits(s, Pulse(s, "escape")) /\ Pulse(s, "escape") \in State
    BY Relays DEF Same, Keeps, Fits
  <2>2. "PHYSICAL_BUMPER_OBSERVE" \in Timed
    BY DEF Timed
  <2>3. QED
    BY <1>1, <2>1, <2>2, Pauses, FitsTransitive, KeepsFits DEF Escape
<1>2. CASE ~Physical
  BY <1>2, SendStepFits DEF Escape, Command, Step
<1>3. QED
  BY <1>1, <1>2

LEMMA ObserveFits ==
    ASSUME NEW s \in State, NEW view \in View
    PROVE  Fits(s, Observe(s, view))
<1>1. s.g.stage \in Stage /\ Fits(s, s)
  BY FieldTypes DEF Fits
<1>2. CASE s.g.stage = "PHYSICAL_BUMPER_OBSERVE"
  <2>1. Observe(s, view) \in {BeginTestModeFallback(s), Cooldown(Release(s)), s}
    BY <1>2 DEF Observe
  <2>2. Fits(s, Cooldown(Release(s)))
    <3>1. Fits(s, Release(s)) /\ Release(s) \in State
      BY Relays DEF Same, Keeps, Fits
    <3>2. QED
      BY <3>1, Pauses, FitsTransitive, KeepsFits
  <2>3. QED
    BY <1>1, <2>1, <2>2, FallbackFits
<1>3. CASE s.g.stage = "COOLDOWN"
  <2>1. Observe(s, view) \in {[s EXCEPT !.g.stage = "IDLE"], s}
    BY <1>3 DEF Observe
  <2>2. Fits(s, [s EXCEPT !.g.stage = "IDLE"])
    BY SetStage, KeepsFits DEF Stage
  <2>3. QED
    BY <1>1, <2>1, <2>2
<1>4. CASE s.g.stage = "IDLE"
  <2>1. Observe(s, view) \in {Escape(s), s}
    BY <1>4 DEF Observe
  <2>2. QED
    BY <1>1, <2>1, EscapeFits
<1>5. CASE s.g.stage \notin {"PHYSICAL_BUMPER_OBSERVE", "COOLDOWN", "IDLE"}
  BY <1>1, <1>5 DEF Observe
<1>6. QED
  BY <1>2, <1>3, <1>4, <1>5

LEMMA PoseFits ==
    ASSUME NEW s \in State, NEW ok \in BOOLEAN, NEW view \in View
    PROVE  Fits(s, PoseDone(s, ok, view))
<1> DEFINE read == [s EXCEPT !.g.posePending = FALSE]
<1>1. Fits(s, read) /\ read \in State
  BY SetPending DEF Same, Keeps, Fits
<1>2. PoseDone(s, ok, view) \in {Observe(read, view), read}
  BY DEF PoseDone
<1> HIDE DEF read
<1>3. QED
  BY <1>1, <1>2, ObserveFits, FitsTransitive

LEMMA TestModeOnFits ==
    ASSUME NEW s \in State, NEW ok \in BOOLEAN
    PROVE  Fits(s, TestModeOn(s, ok))
<1> DEFINE m == [s EXCEPT !.g.entered = TRUE]
<1>1. Fits(s, m) /\ m \in State
  BY SetEntered DEF Keeps, Fits
<1>2. TestModeOn(s, ok) \in {SendStep(m, "MotorsOn", "CLEANING_MOTORS_PENDING"), FailStage(s)}
  BY DEF TestModeOn
<1> HIDE DEF m
<1>3. /\ "MotorsOn" \in Command("CLEANING_MOTORS_PENDING")
      /\ "CLEANING_MOTORS_PENDING" \in Step \ {"abort"}
  BY DEF Command, Step
<1>4. QED
  BY <1>1, <1>2, <1>3, SendStepFits, LeavingFits, FitsTransitive

LEMMA TestModeOffFits ==
    ASSUME NEW s \in State, NEW ok \in BOOLEAN,
           NEW stage \in {"TESTMODE_OFF_PENDING", "ABORT_TESTMODE_OFF_PENDING"}
    PROVE  Fits(s, TestModeOff(s, ok, stage))
<1> DEFINE m == [s EXCEPT !.g.entered = FALSE]
<1>1. Fits(s, m) /\ m \in State
  BY SetEntered DEF Keeps, Fits
<1>2. ResumeStage(stage) \in {"RESUME_PENDING", "ABORT_RESUME_PENDING"}
  BY DEF ResumeStage
<1>3. TestModeOff(s, ok, stage) \in
        {SendResume(m, ResumeStage(stage)), SendTestModeOff(s, stage), Cooldown(s)}
  BY DEF TestModeOff
<1> HIDE DEF m
<1>4. Fits(s, Cooldown(s))
  BY Pauses, KeepsFits
<1>5. QED
  BY <1>1, <1>2, <1>3, <1>4, LeavingFits, FitsTransitive

LEMMA ResumeFits ==
    ASSUME NEW s \in State, NEW ok \in BOOLEAN,
           NEW stage \in {"RESUME_PENDING", "ABORT_RESUME_PENDING"}
    PROVE  Fits(s, Resume(s, ok, stage))
<1>1. Resume(s, ok, stage) \in {SendResume(s, stage), Cooldown(s)}
  BY DEF Resume
<1>2. Fits(s, Cooldown(s))
  BY Pauses, KeepsFits
<1>3. QED
  BY <1>1, <1>2, LeavingFits

\* What the completion of a step runs, stage by stage.
LEMMA CompletedStep ==
    ASSUME NEW s, NEW e \in Call, NEW ok \in BOOLEAN, NEW view, e.then \in Step
    PROVE  /\ e.cmd = "WheelsDisable" =>
                Completed(s, e, ok, view) = Send(s, "WheelsEnable", e.then)
           /\ e.then = "PAUSE_PENDING" => Completed(s, e, ok, view) =
                IF ok THEN SendStep(s, "TestModeOn", "TESTMODE_ON_PENDING") ELSE FailStage(s)
           /\ e.then = "TESTMODE_ON_PENDING" => Completed(s, e, ok, view) = TestModeOn(s, ok)
           /\ e.then = "CLEANING_MOTORS_PENDING" =>
                Completed(s, e, ok, view) = SendStep(s, "WheelsDisable", "STOP_PENDING")
           /\ e.then = "STOP_PENDING" /\ e.cmd = "WheelsEnable" => Completed(s, e, ok, view) =
                IF ok THEN SendStep(s, "Reverse", "REVERSE_PENDING") ELSE FailStage(s)
           /\ e.then = "REVERSE_PENDING" => Completed(s, e, ok, view) =
                IF ok THEN Wait(s, "REVERSE_WAIT") ELSE FailStage(s)
           /\ e.then = "TURN_PENDING" => Completed(s, e, ok, view) =
                IF ok THEN Wait(s, "TURN_WAIT") ELSE FailStage(s)
           /\ e.then = "abort" /\ e.cmd = "WheelsEnable" => Completed(s, e, ok, view) =
                SendTestModeOff(s, "ABORT_TESTMODE_OFF_PENDING")
           /\ e.then \in {"TESTMODE_OFF_PENDING", "ABORT_TESTMODE_OFF_PENDING"} =>
                Completed(s, e, ok, view) = TestModeOff(s, ok, e.then)
           /\ e.then \in {"RESUME_PENDING", "ABORT_RESUME_PENDING"} =>
                Completed(s, e, ok, view) = Resume(s, ok, e.then)
BY DEF Call, Entry, Command, Step, Completed

\* And that of anything else.
LEMMA CompletedPlain ==
    ASSUME NEW s, NEW e \in Call, NEW ok \in BOOLEAN, NEW view, e.then \notin Step
    PROVE  /\ e.cmd = "WheelsDisable" =>
                e.then = "nothing" /\ Completed(s, e, ok, view) = Send(s, "WheelsEnable", "nothing")
           /\ e.cmd = "GetPose" => Completed(s, e, ok, view) = PoseDone(s, ok, view)
           /\ e.cmd = "GetState" => Completed(s, e, ok, view) = StateSeen(s, ok)
           /\ e.cmd = "GetSensors" => Completed(s, e, ok, view) = Release(s)
           /\ e.cmd \in {"WheelsEnable", "TestModeOff"} => Completed(s, e, ok, view) = s
           /\ e.cmd \in {"WheelsDisable", "WheelsEnable", "TestModeOff", "GetPose", "GetState",
                         "GetSensors"}
BY DEF Call, Entry, Then, Command, Step, Completed

\* No completion but the history's look at the state starts or ends a run.
LEMMA CompletedFits ==
    ASSUME NEW s \in State, NEW e \in Call, NEW ok \in BOOLEAN, NEW view \in View,
           e.cmd # "GetState"
    PROVE  Fits(s, Completed(s, e, ok, view))
<1> DEFINE t == Completed(s, e, ok, view)
<1>1. e.then \in Then /\ e.cmd \in Command(e.then) /\ Fits(s, s)
  BY DEF Call, Entry, Fits
<1>2. CASE e.then \in Step /\ e.cmd = "WheelsDisable"
  <2>1. "WheelsEnable" \in Cmd /\ "WheelsEnable" \in Command(e.then)
    BY <1>1, <1>2 DEF Cmd, Command, Step
  <2>2. QED
    BY <1>1, <1>2, <2>1, CompletedStep, SendFits
<1>3. CASE e.then \in Step /\ e.cmd # "WheelsDisable"
  <2>1. CASE e.then \in {"PAUSE_PENDING", "CLEANING_MOTORS_PENDING", "STOP_PENDING"}
    <3>1. /\ "TestModeOn" \in Command("TESTMODE_ON_PENDING")
          /\ "WheelsDisable" \in Command("STOP_PENDING")
          /\ "Reverse" \in Command("REVERSE_PENDING")
          /\ {"TESTMODE_ON_PENDING", "STOP_PENDING", "REVERSE_PENDING"} \subseteq Step \ {"abort"}
          /\ e.then = "STOP_PENDING" => e.cmd = "WheelsEnable"
      BY <1>1, <1>3 DEF Command, Step
    <3>2. t \in {SendStep(s, "TestModeOn", "TESTMODE_ON_PENDING"), FailStage(s),
                 SendStep(s, "WheelsDisable", "STOP_PENDING"),
                 SendStep(s, "Reverse", "REVERSE_PENDING")}
      BY <1>3, <2>1, <3>1, CompletedStep
    <3> HIDE DEF t
    <3>3. Fits(s, t)
      BY <3>1, <3>2, SendStepFits, LeavingFits
    <3>4. QED
      BY <3>3 DEF t
  <2>2. CASE e.then \in {"REVERSE_PENDING", "TURN_PENDING"}
    <3>1. t \in {Wait(s, "REVERSE_WAIT"), Wait(s, "TURN_WAIT"), FailStage(s)}
      BY <1>3, <2>2, CompletedStep
    <3>2. Fits(s, Wait(s, "REVERSE_WAIT")) /\ Fits(s, Wait(s, "TURN_WAIT"))
      BY Pauses, KeepsFits DEF Timed, Waiting
    <3> HIDE DEF t
    <3>3. Fits(s, t)
      BY <3>1, <3>2, LeavingFits
    <3>4. QED
      BY <3>3 DEF t
  <2>3. CASE e.then = "TESTMODE_ON_PENDING"
    BY <1>3, <2>3, CompletedStep, TestModeOnFits
  <2>4. CASE e.then = "abort"
    <3>1. e.cmd = "WheelsEnable"
      BY <1>1, <1>3, <2>4 DEF Command
    <3>2. QED
      BY <1>3, <2>4, <3>1, CompletedStep, LeavingFits
  <2>5. CASE e.then \in {"TESTMODE_OFF_PENDING", "ABORT_TESTMODE_OFF_PENDING"}
    BY <1>3, <2>5, CompletedStep, TestModeOffFits
  <2>6. CASE e.then \in {"RESUME_PENDING", "ABORT_RESUME_PENDING"}
    BY <1>3, <2>6, CompletedStep, ResumeFits
  <2>7. QED
    BY <1>3, <2>1, <2>2, <2>3, <2>4, <2>5, <2>6 DEF Step
<1>4. CASE e.then \notin Step
  <2>1. /\ "WheelsEnable" \in Cmd /\ "nothing" \in Then
        /\ "WheelsEnable" \in Command("nothing")
    BY DEF Cmd, Then, Command
  <2>2. Fits(s, Send(s, "WheelsEnable", "nothing")) /\ Fits(s, Release(s))
    BY <2>1, SendFits, Relays, KeepsFits
  <2>3. t \in {Send(s, "WheelsEnable", "nothing"), PoseDone(s, ok, view), Release(s), s}
    BY <1>4, CompletedPlain
  <2> HIDE DEF t
  <2>4. Fits(s, t)
    BY <1>1, <2>2, <2>3, PoseFits
  <2>5. QED
    BY <2>4 DEF t
<1>5. QED
  BY <1>2, <1>3, <1>4

LEMMA StartRunState ==
    ASSUME NEW s \in State
    PROVE  LET t == StartRun(s)
           IN  /\ t \in State /\ t.g.run /\ t.g.stage = "IDLE" /\ ~t.g.entered
               /\ t.line = s.line /\ t.refused = s.refused
<1> DEFINE h == [s.g EXCEPT !.run = TRUE, !.posePending = FALSE, !.entered = FALSE,
                            !.stage = "IDLE", !.offs = 0, !.resumes = 0]
           m == [s EXCEPT !.g = h]
<1>1. h \in Guard /\ h.run /\ ~h.entered /\ h.stage = "IDLE"
  <2> DEFINE h1 == [s.g EXCEPT !.run = TRUE, !.posePending = FALSE, !.entered = FALSE]
             h2 == [h1 EXCEPT !.stage = "IDLE", !.offs = 0, !.resumes = 0]
  <2>1. s.g \in Guard /\ "IDLE" \in Stage /\ 0 \in 0 .. 2
    BY DEF State, Stage
  <2>2. h1 \in Guard /\ ~h1.entered /\ h1.run
    BY <2>1 DEF Guard
  <2>3. h = h2
    BY <2>1 DEF Guard
  <2> HIDE DEF h1
  <2>4. QED
    BY <2>1, <2>2, <2>3 DEF Guard
<1>2. StartRun(s) = Release(m)
  BY DEF State, Guard, StartRun, ResetRunState
<1> HIDE DEF h
<1>3. m \in State /\ m.g = h /\ m.line = s.line /\ m.refused = s.refused
  BY <1>1 DEF State
<1> HIDE DEF m
<1>4. QED
  BY <1>1, <1>2, <1>3, Relays DEF Same, Keeps, Fits

LEMMA ResetState ==
    ASSUME NEW s \in State, NEW enabled \in BOOLEAN
    PROVE  LET t == ResetRunState([s EXCEPT !.g.enabled = enabled])
           IN  /\ t \in State /\ t.g.run = s.g.run /\ t.g.stage = "IDLE" /\ ~t.g.entered
               /\ t.line = s.line /\ t.refused = s.refused
<1> DEFINE h == [s.g EXCEPT !.enabled = enabled, !.posePending = FALSE, !.entered = FALSE,
                            !.stage = "IDLE", !.offs = 0, !.resumes = 0]
           m == [s EXCEPT !.g = h]
<1>1. h \in Guard /\ h.run = s.g.run /\ ~h.entered /\ h.stage = "IDLE"
  <2> DEFINE h1 == [s.g EXCEPT !.enabled = enabled, !.posePending = FALSE, !.entered = FALSE]
             h2 == [h1 EXCEPT !.stage = "IDLE", !.offs = 0, !.resumes = 0]
  <2>1. s.g \in Guard /\ "IDLE" \in Stage /\ 0 \in 0 .. 2
    BY DEF State, Stage
  <2>2. h1 \in Guard /\ ~h1.entered /\ h1.run = s.g.run
    BY <2>1 DEF Guard
  <2>3. h = h2
    BY <2>1 DEF Guard
  <2> HIDE DEF h1
  <2>4. QED
    BY <2>1, <2>2, <2>3 DEF Guard
<1>2. ResetRunState([s EXCEPT !.g.enabled = enabled]) = Release(m)
  BY DEF State, Guard, ResetRunState
<1> HIDE DEF h
<1>3. m \in State /\ m.g = h /\ m.line = s.line /\ m.refused = s.refused
  BY <1>1 DEF State
<1> HIDE DEF m
<1>4. QED
  BY <1>1, <1>2, <1>3, Relays DEF Same, Keeps, Fits

\* The stop and the TestMode Off of endRun().
Leaving(s) ==
    LET stop == Send(s, "WheelsDisable", "nothing")
        off == Send(IF Len(s.line) >= QueueMax THEN s ELSE stop, "TestModeOff", "nothing")
    IN  IF s.g.entered THEN off ELSE s

LEMMA EndRunState ==
    ASSUME NEW s \in State
    PROVE  LET t == EndRun(s)
               m == Leaving(s)
           IN  /\ t \in State /\ ~t.g.run /\ t.g.stage = "IDLE" /\ t.g.entered = s.g.entered
               /\ t.line = m.line /\ t.refused = s.refused
<1> DEFINE stop == Send(s, "WheelsDisable", "nothing")
           kept == IF Len(s.line) >= QueueMax THEN s ELSE stop
           off == Send(kept, "TestModeOff", "nothing")
           m == Leaving(s)
           h == [m.g EXCEPT !.run = FALSE, !.posePending = FALSE, !.stage = "IDLE"]
           n == [m EXCEPT !.g = h]
<1>1. /\ {"WheelsDisable", "TestModeOff"} \subseteq Cmd /\ "nothing" \in Then /\ "nothing" \notin Step
      /\ {"WheelsDisable", "TestModeOff"} \subseteq Command("nothing")
  BY DEF Cmd, Then, Command, Step
<1>2. stop \in State /\ stop.g.entered = s.g.entered /\ stop.refused = s.refused
  BY <1>1, SendState
<1>3. kept \in State /\ kept.g.entered = s.g.entered /\ kept.refused = s.refused
  BY <1>2
<1> HIDE DEF kept
<1>4. off \in State /\ off.g.entered = kept.g.entered /\ off.refused = kept.refused
  BY <1>1, <1>3, SendState
<1>5. m \in State /\ m.g.entered = s.g.entered /\ m.refused = s.refused
  BY <1>3, <1>4 DEF Leaving, kept
<1>6. EndRun(s) = Release([m EXCEPT !.g.run = FALSE, !.g.posePending = FALSE, !.g.stage = "IDLE"])
  BY DEF EndRun, Leaving
<1> HIDE DEF m
<1>7. h \in Guard /\ ~h.run /\ h.entered = m.g.entered /\ h.stage = "IDLE"
  BY <1>5 DEF State, Guard, Stage
<1>8. EndRun(s) = Release(n)
  BY <1>5, <1>6 DEF State, Guard
<1> HIDE DEF h
<1>9. n \in State /\ n.g = h /\ n.line = m.line /\ n.refused = m.refused
  BY <1>5, <1>7 DEF State
<1> HIDE DEF n
<1>10. QED
  BY <1>5, <1>7, <1>8, <1>9, Relays DEF Same, Keeps, Fits, m

LEMMA LeavingState ==
    ASSUME NEW s \in State
    PROVE  Leaving(s) \in State
<1> DEFINE stop == Send(s, "WheelsDisable", "nothing")
           kept == IF Len(s.line) >= QueueMax THEN s ELSE stop
<1>1. /\ {"WheelsDisable", "TestModeOff"} \subseteq Cmd /\ "nothing" \in Then
      /\ {"WheelsDisable", "TestModeOff"} \subseteq Command("nothing")
  BY DEF Cmd, Then, Command
<1>2. kept \in State
  BY <1>1, SendState
<1> HIDE DEF kept
<1>3. Send(kept, "TestModeOff", "nothing") \in State
  BY <1>1, <1>2, SendState
<1>4. QED
  BY <1>3 DEF Leaving, kept

\* The history's look at the state ends a run only as endRun() does.
LEMMA StateSeenState ==
    ASSUME NEW s \in State, NEW ok \in BOOLEAN
    PROVE  LET t == StateSeen(s, ok)
           IN  /\ t \in State
               /\ s.refused => t.refused
               /\ \/ ok /\ ~s.g.run /\ Cleaning(robot) /\ t = StartRun(s)
                  \/ /\ ok /\ s.g.run /\ ~Cleaning(robot) /\ s.g.stage \notin Maneuver
                     /\ t = EndRun(s)
                  \/ t = s
<1> DEFINE t == StateSeen(s, ok)
<1>1. \/ ok /\ ~s.g.run /\ Cleaning(robot) /\ t = StartRun(s)
      \/ /\ ok /\ s.g.run /\ ~Cleaning(robot) /\ s.g.stage \notin Maneuver
         /\ t = EndRun(s)
      \/ t = s
  BY DEF StateSeen
<1> HIDE DEF t
<1>2. t \in State /\ (s.refused => t.refused)
  BY <1>1, StartRunState, EndRunState
<1>3. QED
  BY <1>1, <1>2 DEF t

LEMMA ReleasedSame ==
    ASSUME NEW s \in State
    PROVE  Same(s, Released(s))
<1>1. Same(s, s)
  BY DEF Same, Keeps, Fits
<1>2. QED
  BY <1>1, Relays DEF Released

LEMMA PollFits ==
    ASSUME NEW s \in State
    PROVE  Fits(s, PollPose(s))
<1> DEFINE m == [s EXCEPT !.g.posePending = TRUE]
<1>1. Fits(s, m) /\ m \in State
  BY SetPending DEF Same, Keeps, Fits
<1>2. "GetPose" \in Cmd /\ "pose" \in Then /\ "GetPose" \in Command("pose")
  BY DEF Cmd, Then, Command
<1> HIDE DEF m
<1>3. Fits(m, Send(m, "GetPose", "pose"))
  BY <1>1, <1>2, SendFits
<1>4. QED
  BY <1>1, <1>3, FitsTransitive DEF PollPose, m

LEMMA StageDueFits ==
    ASSUME NEW s \in State, s.g.stage \in Timed
    PROVE  Fits(s, StageDue(s))
<1>1. /\ s.g.stage = "REVERSE_WAIT" => StageDue(s) = SendStep(s, "Turn", "TURN_PENDING")
      /\ s.g.stage = "TURN_WAIT" => StageDue(s) = SendTestModeOff(s, "TESTMODE_OFF_PENDING")
      /\ s.g.stage = "PHYSICAL_BUMPER_OBSERVE" => StageDue(s) = BeginTestModeFallback(s)
  BY DEF StageDue
<1>2. "Turn" \in Command("TURN_PENDING") /\ "TURN_PENDING" \in Step \ {"abort"}
  BY DEF Command, Step
<1>3. QED
  BY <1>1, <1>2, SendStepFits, LeavingFits, FallbackFits DEF Timed, Waiting

LEMMA TickedFits ==
    ASSUME NEW s \in State
    PROVE  Fits(s, Ticked(s))
<1> DEFINE m == Released(s)
<1>1. Fits(s, m) /\ m \in State
  BY ReleasedSame DEF Same, Keeps, Fits
<1> HIDE DEF m
<1>2. Fits(m, TickArmed(m))
  <2>1. Fits(m, m)
    BY <1>1 DEF Fits
  <2>2. QED
    BY <1>1, <2>1, StageDueFits, PollFits DEF TickArmed
<1>3. Ticked(s) \in {TickArmed(m), m}
  BY DEF Ticked, m
<1>4. QED
  BY <1>1, <1>2, <1>3, FitsTransitive

-----------------------------------------------------------------------------
(* Types, and the end of a run.                                            *)

Robot == [ui: {"idle", "cleaning", "paused"}, testMode: BOOLEAN]

Types ==
    /\ Now \in State
    /\ wire \in Call \cup {None}
    /\ robot \in Robot
    /\ starts \in 0 .. MaxStarts /\ configs \in 0 .. MaxConfigs
    /\ faults \in 0 .. MaxFaults /\ tests \in 0 .. MaxTests

LEMMA BecomesState ==
    ASSUME NEW s \in State, Becomes(s)
    PROVE  Now' = s
BY DEF Becomes, Now, State

LEMMA NowFields ==
    /\ Now.g = g /\ Now.pulse = pulse /\ Now.due = due /\ Now.line = line
    /\ Now.refused = refused
BY DEF Now

LEMMA DoesType ==
    ASSUME NEW cmd, robot \in Robot
    PROVE  Does(cmd) \in Robot
BY DEF Does, Robot

LEMMA InitTypes == Init => Types
<1> SUFFICES ASSUME Init
             PROVE  Types
  OBVIOUS
<1>1. g \in Guard
  BY DEF Init, Guard, Stage
<1>2. line \in Seq(Call) /\ Len(line) = 0 /\ 0 <= QueueMax
  BY QueueMaxAssumption DEF Init
<1>3. Now \in State
  BY <1>1, <1>2 DEF Init, Now, State
<1>4. QED
  BY <1>3, BoundsAssumption DEF Init, Types, Robot

\* The part of a step that is the guard's and the queue's.
LEMMA NextState ==
    ASSUME Types, [Next]_vars
    PROVE  /\ Now' \in State /\ wire' \in Call \cup {None} /\ robot' \in Robot
           /\ refused => refused'
           /\ g.run /\ ~g'.run => ~Cleaning(robot) /\ g.stage \notin Maneuver
<1> DEFINE Goal ==
           /\ Now' \in State /\ wire' \in Call \cup {None} /\ robot' \in Robot
           /\ refused => refused'
           /\ g.run /\ ~g'.run => ~Cleaning(robot) /\ g.stage \notin Maneuver
<1>1. /\ Now \in State /\ wire \in Call \cup {None} /\ robot \in Robot
      /\ Now'.g = g' /\ Now'.refused = refused'
  BY DEF Types, Now
<1>2. ASSUME NEW s, Fits(Now, s), Becomes(s)
      PROVE  Now' \in State /\ (refused => refused') /\ g'.run = g.run
  BY <1>1, <1>2, BecomesState, NowFields DEF Fits
<1>3. CASE Tick
  <2>1. Fits(Now, Ticked(Now)) /\ Becomes(Ticked(Now)) /\ wire' = wire /\ robot' = robot
    BY <1>1, <1>3, TickedFits DEF Tick
  <2>2. QED
    BY <1>1, <1>2, <2>1
<1>4. CASE HistoryPoll
  <2>1. "GetState" \in Cmd /\ "state" \in Then /\ "GetState" \in Command("state")
    BY DEF Cmd, Then, Command
  <2>2. /\ Fits(Now, Send(Now, "GetState", "state")) /\ Becomes(Send(Now, "GetState", "state"))
        /\ wire' = wire /\ robot' = robot
    BY <1>1, <1>4, <2>1, SendFits DEF HistoryPoll
  <2>3. QED
    BY <1>1, <1>2, <2>2
<1>5. CASE SendNext
  <2>1. line \in Seq(Call) /\ Len(line) <= QueueMax /\ line # <<>>
    BY <1>1, <1>5 DEF SendNext, State, Now
  <2>2. Head(line) \in Call /\ Tail(line) \in Seq(Call) /\ Len(Tail(line)) <= QueueMax
    BY <2>1, QueueMaxAssumption
  <2>3. PICK rest \in Seq(Call) : rest = Tail(line) /\ Len(rest) <= QueueMax
    BY <2>2
  <2> DEFINE s == [Now EXCEPT !.line = rest]
  <2>4. s \in State
    BY <1>1, <2>3 DEF State
  <2>5. Becomes(s)
    BY <1>5, <2>3 DEF SendNext, Becomes, Now
  <2> HIDE DEF s
  <2>6. Now' \in State
    BY <2>4, <2>5, BecomesState
  <2>7. QED
    BY <1>1, <1>5, <2>2, <2>6 DEF SendNext
<1>6. ASSUME NEW ok \in BOOLEAN, NEW view \in View, wire # None,
             Becomes(Completed(Now, wire, ok, view)), wire' = None, robot' \in Robot
      PROVE  Goal
  <2>1. wire \in Call
    BY <1>1, <1>6
  <2>2. CASE wire.cmd # "GetState"
    <3>1. Fits(Now, Completed(Now, wire, ok, view))
      BY <1>1, <2>1, <2>2, CompletedFits
    <3>2. QED
      BY <1>1, <1>2, <1>6, <3>1
  <2>3. CASE wire.cmd = "GetState"
    <3>1. wire.then \notin Step
      BY <2>1, <2>3 DEF Call, Entry, Then, Step, Command
    <3>2. Completed(Now, wire, ok, view) = StateSeen(Now, ok)
      BY <2>1, <2>3, <3>1, CompletedPlain
    <3>3. Becomes(StateSeen(Now, ok)) /\ StateSeen(Now, ok) \in State
      BY <1>1, <1>6, <3>2, StateSeenState
    <3>4. Now' = StateSeen(Now, ok)
      BY <3>3, BecomesState
    <3>5. refused => refused'
      BY <1>1, <3>4, StateSeenState, NowFields
    <3>6. g.run /\ ~g'.run => ~Cleaning(robot) /\ g.stage \notin Maneuver
      BY <1>1, <3>4, StateSeenState, StartRunState, NowFields
    <3>7. QED
      BY <1>6, <3>3, <3>4, <3>5, <3>6
  <2>4. QED
    BY <2>2, <2>3
<1>7. CASE Done
  <2>1. PICK view \in View : Becomes(Completed(Now, wire, TRUE, view))
    BY <1>7 DEF Done, View
  <2>2. robot' \in Robot
    BY <1>1, <1>7, DoesType DEF Done
  <2>3. QED
    BY <1>6, <1>7, <2>1, <2>2 DEF Done
<1>8. CASE Fail
  <2>1. robot' \in Robot
    BY <1>1, <1>8, DoesType DEF Fail
  <2>2. QED
    BY <1>6, <1>8, <2>1 DEF Fail, View
<1>9. CASE ApplyConfig
  <2>1. PICK enabled \in BOOLEAN : Becomes(ResetRunState([Now EXCEPT !.g.enabled = enabled]))
    BY <1>9 DEF ApplyConfig
  <2>2. LET t == ResetRunState([Now EXCEPT !.g.enabled = enabled])
        IN  t \in State /\ t.g.run = Now.g.run /\ t.refused = Now.refused
    BY <1>1, ResetState
  <2>3. QED
    BY <1>1, <1>9, <2>1, <2>2, BecomesState, NowFields DEF ApplyConfig
<1>10. CASE BumperTest
  <2>1. "GetSensors" \in Cmd /\ "test" \in Then /\ "GetSensors" \in Command("test")
    BY DEF Cmd, Then, Command
  <2>2. Fits(Now, Pulse(Now, "test")) /\ Pulse(Now, "test") \in State
    BY <1>1, Relays DEF Same, Keeps, Fits
  <2>3. Fits(Now, Send(Pulse(Now, "test"), "GetSensors", "test"))
    BY <2>1, <2>2, SendFits, FitsTransitive
  <2>4. QED
    BY <1>1, <1>2, <1>10, <2>3 DEF BumperTest
<1>11. ASSUME NEW d \in Deadline, Elapse(d)
       PROVE  Goal
  <2>1. Now' = [Now EXCEPT !.due = @ \cup {d}]
    BY <1>11 DEF Elapse, Now
  <2>2. Now' \in State
    BY <1>1, <2>1 DEF State
  <2>3. QED
    BY <1>1, <1>11, <2>2 DEF Elapse
<1>12. CASE StartClean \/ EndClean \/ UNCHANGED vars
  <2>1. Now' = Now /\ wire' = wire /\ refused' = refused /\ g' = g
    BY <1>12 DEF StartClean, EndClean, vars, Now
  <2>2. robot' \in Robot
    BY <1>1, <1>12 DEF StartClean, EndClean, vars, Robot
  <2>3. QED
    BY <1>1, <2>1, <2>2
<1>13. QED
  BY <1>3, <1>4, <1>5, <1>7, <1>8, <1>9, <1>10, <1>11, <1>12 DEF Next

LEMMA NextTypes == Types /\ [Next]_vars => Types'
<1> SUFFICES ASSUME Types, [Next]_vars
             PROVE  Types'
  OBVIOUS
<1>1. Now' \in State /\ wire' \in Call \cup {None} /\ robot' \in Robot
  BY NextState
<1>2. /\ starts' \in {starts, starts + 1} /\ configs' \in {configs, configs + 1}
      /\ faults' \in {faults, faults + 1} /\ tests' \in {tests, tests + 1}
      /\ starts' # starts => starts < MaxStarts
      /\ configs' # configs => configs < MaxConfigs
      /\ faults' # faults => faults < MaxFaults
      /\ tests' # tests => tests < MaxTests
  BY DEF Next, vars, counters, Tick, HistoryPoll, SendNext, Done, Fail, ApplyConfig, BumperTest,
         Elapse, StartClean, EndClean
<1>3. QED
  BY <1>1, <1>2, BoundsAssumption DEF Types

\* What the guard's own words for the types say in the module's.
LEMMA TypesAreTypeOK == Types => TypeOK
<1> SUFFICES ASSUME Types
             PROVE  TypeOK
  OBVIOUS
<1>1. Now \in State /\ Now.g = g /\ Now.line = line /\ Now.pulse = pulse /\ Now.due = due
      /\ Now.refused = refused
  BY DEF Types, Now
<1>2. /\ g \in Guard /\ pulse \in {"none", "escape", "test"} /\ due \in SUBSET Deadline
      /\ line \in Seq(Call) /\ Len(line) <= QueueMax /\ refused \in BOOLEAN
  BY <1>1 DEF State
<1>3. line \in Seq(Entry)
  <2>1. Len(line) \in Nat /\ \A i \in 1 .. Len(line) : line[i] \in Entry
    BY <1>2 DEF Call
  <2>2. line = [i \in 1 .. Len(line) |-> line[i]]
    BY <1>2
  <2>3. QED
    BY <2>1, <2>2
<1>4. wire \in Entry \cup {None}
  BY DEF Types, Call
<1>5. QED
  BY <1>2, <1>3, <1>4 DEF Types, TypeOK, Guard, Robot

(* Every variable keeps its type, whatever fails, is refused or is          *)
(* configured: the queue its limit (neato_serial.cpp), the attempts their   *)
(* counts.                                                                  *)
THEOREM GuardTypeCorrect == Spec => []TypeOK
<1>1. Init => Types
  BY InitTypes
<1>2. Types /\ [Next]_vars => Types'
  BY NextTypes
<1>3. Types => TypeOK
  BY TypesAreTypeOK
<1>4. QED
  BY <1>1, <1>2, <1>3, PTL DEF Spec

-----------------------------------------------------------------------------
(* What is in the queue.                                                   *)

LEMMA InsertRange ==
    ASSUME NEW q \in Seq(Call), NEW e \in Call
    PROVE  Range(Insert(q, e)) = Range(q) \cup {e}
<1> DEFINE p == Insert(q, e)
<1>1. PICK n \in 1 .. Len(q) + 1 : \A j \in 1 .. Len(q) + 1 :
        p[j] = IF j < n THEN q[j] ELSE IF j = n THEN e ELSE q[j - 1]
  BY InsertPlace
<1>2. DOMAIN p = 1 .. Len(q) + 1 /\ DOMAIN q = 1 .. Len(q) /\ Len(q) \in Nat
  BY InsertPlace
<1> HIDE DEF p
<1>3. ASSUME NEW x \in Range(p)
      PROVE  x \in Range(q) \cup {e}
  <2>1. PICK j \in 1 .. Len(q) + 1 : x = p[j]
    BY <1>2 DEF Range
  <2>2. j = n \/ (j < n /\ j \in 1 .. Len(q)) \/ (j > n /\ j - 1 \in 1 .. Len(q))
    BY <1>1, <1>2, <2>1
  <2>3. QED
    BY <1>1, <1>2, <2>1, <2>2 DEF Range
<1>4. ASSUME NEW x \in Range(q) \cup {e}
      PROVE  x \in Range(p)
  <2>1. CASE x = e
    <3>1. n \in 1 .. Len(q) + 1 /\ p[n] = e
      BY <1>1, <1>2
    <3>2. QED
      BY <1>2, <2>1, <3>1 DEF Range
  <2>2. CASE x \in Range(q)
    <3>1. PICK i \in 1 .. Len(q) : x = q[i]
      BY <1>2, <2>2 DEF Range
    <3>2. CASE i < n
      <4>1. i \in 1 .. Len(q) + 1 /\ p[i] = q[i]
        BY <1>1, <1>2, <3>1, <3>2
      <4>2. QED
        BY <1>2, <3>1, <4>1 DEF Range
    <3>3. CASE ~(i < n)
      <4>1. i + 1 \in 1 .. Len(q) + 1 /\ ~(i + 1 < n) /\ i + 1 # n /\ i + 1 - 1 = i
        BY <1>1, <1>2, <3>1, <3>3
      <4>2. p[i + 1] = q[i]
        BY <1>1, <4>1
      <4>3. QED
        BY <1>2, <3>1, <4>1, <4>2 DEF Range
    <3>4. QED
      BY <3>2, <3>3
  <2>3. QED
    BY <2>1, <2>2
<1>5. QED
  BY <1>3, <1>4 DEF p

LEMMA TailShape ==
    ASSUME NEW q \in Seq(Call), q # <<>>
    PROVE  /\ Head(q) = q[1] /\ Head(q) \in Call /\ Tail(q) \in Seq(Call)
           /\ 1 \in DOMAIN q /\ DOMAIN q = 1 .. Len(q) /\ Len(q) \in Nat
           /\ DOMAIN Tail(q) = 1 .. Len(q) - 1
           /\ \A i \in 1 .. Len(q) - 1 : Tail(q)[i] = q[i + 1]
OBVIOUS

LEMMA TailRange ==
    ASSUME NEW q \in Seq(Call), q # <<>>
    PROVE  Range(q) = Range(Tail(q)) \cup {Head(q)}
<1> DEFINE p == Tail(q)
<1>1. /\ Head(q) = q[1] /\ 1 \in DOMAIN q /\ DOMAIN q = 1 .. Len(q) /\ Len(q) \in Nat
      /\ DOMAIN p = 1 .. Len(q) - 1
      /\ \A i \in 1 .. Len(q) - 1 : p[i] = q[i + 1]
  BY TailShape
<1> HIDE DEF p
<1>2. ASSUME NEW x \in Range(q)
      PROVE  x \in Range(p) \cup {Head(q)}
  <2>1. PICK i \in 1 .. Len(q) : x = q[i]
    BY <1>1, <1>2 DEF Range
  <2>2. CASE i = 1
    BY <1>1, <2>1, <2>2
  <2>3. CASE i # 1
    <3>1. i - 1 \in 1 .. Len(q) - 1 /\ i - 1 + 1 = i
      BY <1>1, <2>1, <2>3
    <3>2. QED
      BY <1>1, <2>1, <3>1, ZenonT(60) DEF Range
  <2>4. QED
    BY <2>2, <2>3
<1>3. ASSUME NEW x \in Range(p)
      PROVE  x \in Range(q)
  <2>1. PICK i \in 1 .. Len(q) - 1 : x = p[i]
    BY <1>1, <1>3 DEF Range
  <2>2. i + 1 \in 1 .. Len(q) /\ p[i] = q[i + 1]
    BY <1>1, <2>1
  <2>3. QED
    BY <1>1, <2>1, <2>2 DEF Range
<1>4. Head(q) \in Range(q)
  BY <1>1 DEF Range
<1>5. QED
  BY <1>2, <1>3, <1>4 DEF p

LEMMA TailSorted ==
    ASSUME NEW q \in Seq(Call), q # <<>>, Sorted(q)
    PROVE  /\ Sorted(Tail(q))
           /\ \A i \in DOMAIN q : Priority(Head(q).cmd) <= Priority(q[i].cmd)
<1> DEFINE p == Tail(q)
<1>1. /\ Head(q) = q[1] /\ 1 \in DOMAIN q /\ DOMAIN q = 1 .. Len(q) /\ Len(q) \in Nat
      /\ DOMAIN p = 1 .. Len(q) - 1 /\ Head(q) \in Call
      /\ \A i \in 1 .. Len(q) - 1 : p[i] = q[i + 1]
  BY TailShape
<1> HIDE DEF p
<1>2. Priority(Head(q).cmd) \in 1 .. 4
  BY <1>1, PriorityType DEF Call, Entry
<1>3. ASSUME NEW i \in DOMAIN q
      PROVE  Priority(Head(q).cmd) <= Priority(q[i].cmd)
  <2>1. i = 1 \/ 1 < i
    BY <1>1
  <2>2. QED
    BY <1>1, <1>2, <2>1 DEF Sorted
<1>4. ASSUME NEW i \in DOMAIN p, NEW j \in DOMAIN p, i < j
      PROVE  Priority(p[i].cmd) <= Priority(p[j].cmd)
  <2>1. i + 1 \in DOMAIN q /\ j + 1 \in DOMAIN q /\ i + 1 < j + 1
        /\ p[i] = q[i + 1] /\ p[j] = q[j + 1]
    BY <1>1, <1>4
  <2>2. QED
    BY <2>1 DEF Sorted
<1>5. QED
  BY <1>3, <1>4 DEF Sorted, p

\* Nothing of an escape is queued; nothing that would take a robot out of the
\* mode it is put in; no start of an escape; no abort.
IsOff(e) == e.cmd = "TestModeOff" /\ e.then = "nothing"
Calm(q) == \A x \in Range(q) : x.then \notin Step
NoOff(q) == \A x \in Range(q) : ~IsOff(x)
NoPause(q) == \A x \in Range(q) : x.cmd # "Pause"
NoAbort(q) == \A x \in Range(q) : x.then # "abort"

\* A command that is the one the stage waits for.
Carries(e, stage) ==
    /\ e.then \in Step
    /\ \/ e.then = stage
       \/ e.then = "abort" /\ stage \in Maneuver \ Timed

\* It is the only one of an escape in the queue; and a pause lets all that
\* ended the run before go first.
Holds(q, stage) ==
    \E k \in DOMAIN q :
        /\ Carries(q[k], stage)
        /\ \A i \in DOMAIN q : i # k => q[i].then \notin Step
        /\ q[k].cmd = "Pause" => \A i \in DOMAIN q : IsOff(q[i]) => i < k

LEMMA InsertHolds ==
    ASSUME NEW q \in Seq(Call), NEW e \in Call, NEW stage,
           e.then \notin Step, ~IsOff(e), Holds(q, stage)
    PROVE  Holds(Insert(q, e), stage)
<1> DEFINE p == Insert(q, e)
<1>1. PICK n \in 1 .. Len(q) + 1 : \A j \in 1 .. Len(q) + 1 :
        p[j] = IF j < n THEN q[j] ELSE IF j = n THEN e ELSE q[j - 1]
  BY InsertPlace
<1>2. DOMAIN p = 1 .. Len(q) + 1 /\ DOMAIN q = 1 .. Len(q) /\ Len(q) \in Nat
  BY InsertPlace
<1>3. PICK k \in DOMAIN q :
        /\ Carries(q[k], stage)
        /\ \A i \in DOMAIN q : i # k => q[i].then \notin Step
        /\ q[k].cmd = "Pause" => \A i \in DOMAIN q : IsOff(q[i]) => i < k
  BY DEF Holds
<1> HIDE DEF p
<1>4. PICK m \in DOMAIN p : m = IF k < n THEN k ELSE k + 1
  BY <1>1, <1>2, <1>3
<1>5. p[m] = q[k]
  BY <1>1, <1>2, <1>3, <1>4
<1>6. ASSUME NEW i \in DOMAIN p, i # m, i # n
      PROVE  \E j \in DOMAIN q : p[i] = q[j] /\ j # k /\ (j < k => i < m)
  <2>1. CASE i < n
    BY <1>1, <1>2, <1>3, <1>4, <1>6, <2>1
  <2>2. CASE i > n
    <3>1. i - 1 \in DOMAIN q /\ p[i] = q[i - 1] /\ i - 1 # k /\ (i - 1 < k => i < m)
      BY <1>1, <1>2, <1>3, <1>4, <1>6, <2>2
    <3>2. QED
      BY <3>1
  <2>3. QED
    BY <1>1, <1>2, <1>6, <2>1, <2>2
<1>7. p[n] = e
  BY <1>1, <1>2
<1>8. ASSUME NEW i \in DOMAIN p, i # m
      PROVE  p[i].then \notin Step
  BY <1>3, <1>6, <1>7, <1>8
<1>9. ASSUME p[m].cmd = "Pause", NEW i \in DOMAIN p, IsOff(p[i])
      PROVE  i < m
  <2>1. i # n
    BY <1>7, <1>9
  <2>2. i # m
    BY <1>9 DEF IsOff
  <2>3. QED
    BY <1>3, <1>5, <1>6, <1>9, <2>1, <2>2
<1>10. QED
  BY <1>3, <1>5, <1>8, <1>9 DEF Holds, p

LEMMA InsertStep ==
    ASSUME NEW q \in Seq(Call), NEW e \in Call, NEW stage,
           Sorted(q), Calm(q), Carries(e, stage)
    PROVE  Holds(Insert(q, e), stage)
<1> DEFINE p == Insert(q, e)
<1>1. PICK n \in 1 .. Len(q) + 1 :
        /\ \A j \in 1 .. Len(q) + 1 :
             p[j] = IF j < n THEN q[j] ELSE IF j = n THEN e ELSE q[j - 1]
        /\ \A j \in n .. Len(q) : Priority(q[j].cmd) > Priority(e.cmd)
  BY InsertSorted
<1>2. /\ DOMAIN p = 1 .. Len(q) + 1 /\ DOMAIN q = 1 .. Len(q) /\ Len(q) \in Nat
      /\ n \in DOMAIN p /\ p[n] = e
  <2>1. p \in Seq(Call) /\ Len(p) = Len(q) + 1
    BY InsertPlace
  <2> HIDE DEF p
  <2>2. DOMAIN p = 1 .. Len(q) + 1 /\ DOMAIN q = 1 .. Len(q) /\ Len(q) \in Nat
    BY <2>1
  <2>3. QED
    BY <1>1, <2>2
<1> HIDE DEF p
<1>3. \A i \in DOMAIN q : q[i].then \notin Step
  BY DEF Calm, Range
<1>4. ASSUME NEW i \in DOMAIN p, i # n
      PROVE  \E j \in DOMAIN q : p[i] = q[j] /\ (i > n => j \in n .. Len(q))
  <2>1. CASE i < n
    BY <1>1, <1>2, <1>4, <2>1
  <2>2. CASE i > n
    <3>1. i - 1 \in DOMAIN q /\ p[i] = q[i - 1] /\ i - 1 \in n .. Len(q)
      BY <1>1, <1>2, <1>4, <2>2
    <3>2. QED
      BY <3>1
  <2>3. QED
    BY <1>1, <1>2, <1>4, <2>1, <2>2
<1>5. \A i \in DOMAIN p : i # n => p[i].then \notin Step
  BY <1>3, <1>4
<1>6. ASSUME e.cmd = "Pause", NEW i \in DOMAIN p, IsOff(p[i])
      PROVE  i < n
  <2>1. i # n
    BY <1>2, <1>6 DEF IsOff
  <2>2. ~(i > n)
    <3>1. SUFFICES ASSUME i > n
                   PROVE  FALSE
      OBVIOUS
    <3>2. PICK j \in n .. Len(q) : p[i] = q[j]
      BY <1>4, <1>6, <2>1, <3>1
    <3>3. Priority("TestModeOff") = 2 /\ Priority("Pause") = 2
      BY DEF Priority
    <3>4. Priority(q[j].cmd) = 2 /\ Priority(e.cmd) = 2
      BY <1>6, <3>2, <3>3 DEF IsOff
    <3>5. QED
      BY <1>1, <3>2, <3>4
  <2>3. QED
    BY <1>1, <1>2, <1>6, <2>1, <2>2
<1>7. QED
  BY <1>2, <1>5, <1>6 DEF Holds, p

LEMMA TailHolds ==
    ASSUME NEW q \in Seq(Call), q # <<>>, NEW stage, Sorted(q), Holds(q, stage)
    PROVE  \/ /\ Carries(Head(q), stage) /\ Calm(Tail(q))
              /\ Head(q).cmd = "Pause" => NoOff(Tail(q))
           \/ /\ Head(q).then \notin Step /\ Head(q).cmd # "GetState"
              /\ Holds(Tail(q), stage)
<1> DEFINE p == Tail(q)
<1>1. /\ Head(q) = q[1] /\ 1 \in DOMAIN q /\ DOMAIN q = 1 .. Len(q) /\ Len(q) \in Nat
      /\ DOMAIN p = 1 .. Len(q) - 1
      /\ \A i \in 1 .. Len(q) - 1 : p[i] = q[i + 1]
      /\ \A i \in DOMAIN q : Priority(Head(q).cmd) <= Priority(q[i].cmd)
      /\ \A i \in DOMAIN q : q[i] \in Call
  BY TailShape, TailSorted
<1>2. PICK k \in DOMAIN q :
        /\ Carries(q[k], stage)
        /\ \A i \in DOMAIN q : i # k => q[i].then \notin Step
        /\ q[k].cmd = "Pause" => \A i \in DOMAIN q : IsOff(q[i]) => i < k
  BY DEF Holds
<1> HIDE DEF p
<1>3. \A i \in DOMAIN p : i + 1 \in DOMAIN q /\ i + 1 # 1 /\ p[i] = q[i + 1]
  BY <1>1
<1>4. CASE k = 1
  <2>1. Calm(p)
    BY <1>2, <1>3, <1>4 DEF Calm, Range
  <2>2. Head(q).cmd = "Pause" => NoOff(p)
    <3>1. \A i \in DOMAIN p : ~(i + 1 < 1)
      BY <1>1
    <3>2. QED
      BY <1>1, <1>2, <1>3, <1>4, <3>1 DEF NoOff, Range
  <2>3. QED
    BY <1>1, <1>2, <1>4, <2>1, <2>2 DEF p
<1>5. CASE k # 1
  <2>1. Head(q).then \notin Step
    BY <1>1, <1>2, <1>5
  <2>2. Head(q).cmd # "GetState"
    <3>1. q[k].cmd \in Cmd \ {"GetState", "GetPose"}
      BY <1>1, <1>2 DEF Call, Entry, Command, Carries, Step
    <3>2. Priority(q[k].cmd) \in {1, 2, 3}
      BY <3>1 DEF Priority, Cmd
    <3>3. Priority("GetState") = 4
      BY DEF Priority
    <3>4. QED
      BY <1>1, <1>2, <3>2, <3>3
  <2>3. PICK m \in DOMAIN p : m = k - 1
    BY <1>1, <1>2, <1>5
  <2>4. p[m] = q[k]
    BY <1>1, <1>2, <1>5, <2>3
  <2>5. \A i \in DOMAIN p : i # m => p[i].then \notin Step
    BY <1>1, <1>2, <1>3, <2>3
  <2>6. p[m].cmd = "Pause" => \A i \in DOMAIN p : IsOff(p[i]) => i < m
    BY <1>1, <1>2, <1>3, <2>3, <2>4
  <2>7. Holds(p, stage)
    BY <1>2, <2>4, <2>5, <2>6 DEF Holds
  <2>8. QED
    BY <2>1, <2>2, <2>7 DEF p
<1>6. QED
  BY <1>4, <1>5

-----------------------------------------------------------------------------
(* Where an escape is.                                                     *)

\* The stages in which no command of the escape is in flight, those in which
\* the guard has the wheels, those after the robot was paused, those in
\* TestMode, and those in which the robot is its own.
Resting == {"IDLE", "COOLDOWN"} \cup Timed
Wheels == {"CLEANING_MOTORS_PENDING", "STOP_PENDING", "REVERSE_PENDING", "REVERSE_WAIT",
           "TURN_PENDING"}
Begun == Maneuver \ {"PAUSE_PENDING", "PHYSICAL_BUMPER_OBSERVE"}
InMode == Wheels \cup {"TURN_WAIT", "TESTMODE_OFF_PENDING"}
Own == {"IDLE", "COOLDOWN", "PHYSICAL_BUMPER_OBSERVE", "PAUSE_PENDING"}

Free(w) == w = None \/ w.then \notin Step
Steady(w) == w = None \/ ~IsOff(w)

\* At most one command of the escape is in flight.  When it is queued, no look
\* at the state that could start a run is on the wire.
AtRest(s, w) == Calm(s.line) /\ Free(w) /\ s.g.stage \in Resting
Sent(s, w) == Calm(s.line) /\ w # None /\ Carries(w, s.g.stage)
Queued(s, w) ==
    /\ Free(w)
    /\ s.g.run \/ w = None \/ w.cmd # "GetState"
    /\ Holds(s.line, s.g.stage)

\* The pause is on its way to the robot, or was.
Past(s) ==
    \/ s.g.stage \in Begun
    \/ s.g.stage = "PAUSE_PENDING" /\ NoPause(s.line)

Facts(s, w, r) ==
    /\ s.g.stage \in Wheels => s.g.entered /\ r.testMode
    /\ Past(s) => NoOff(s.line) /\ Steady(w)

Good(s, w, r) ==
    /\ Sorted(s.line)
    /\ AtRest(s, w) \/ Sent(s, w) \/ Queued(s, w)
    /\ Facts(s, w, r)

\* What holds as long as nothing failed and nothing was refused.
Sound(s, w, r) ==
    /\ s.g.stage \notin {"ABORT_TESTMODE_OFF_PENDING", "ABORT_RESUME_PENDING"}
    /\ r.testMode <=> s.g.stage \in InMode
    /\ s.g.entered <=> r.testMode
    /\ s.g.stage \in Own => r.ui # "paused"
    /\ NoOff(s.line) /\ Steady(w)
    /\ NoAbort(s.line) /\ (w = None \/ w.then # "abort")

LEMMA SameGood ==
    ASSUME NEW s, NEW t, NEW w, NEW r, Same(s, t)
    PROVE  /\ Good(s, w, r) => Good(t, w, r)
           /\ Sound(s, w, r) => Sound(t, w, r)
BY DEF Same, Keeps, Fits, Good, Sound, AtRest, Sent, Queued, Past, Facts

\* Polls, tests, and the stop at the end of a run may be added at any time.
LEMMA AddPlain ==
    ASSUME NEW s \in State, NEW then \in Then \ Step, NEW cmd \in Command(then) \ {"TestModeOff"},
           NEW w, NEW r, Good(s, w, r)
    PROVE  LET t == Send(s, cmd, then)
           IN  Good(t, w, r) /\ (Sound(s, w, r) => Sound(t, w, r))
<1> DEFINE t == Send(s, cmd, then)
           e == [cmd |-> cmd, then |-> then]
<1>1. cmd \in Cmd
  BY DEF Command, Cmd, Then, Step
<1>2. /\ t.g.run = s.g.run /\ t.g.entered = s.g.entered /\ t.g.stage = s.g.stage
      /\ (e \in Call /\ t.line = Insert(s.line, e)) \/ t.line = s.line
  BY <1>1, SendState
<1>3. s.line \in Seq(Call) /\ ~IsOff(e) /\ e.then \notin Step /\ e.then # "abort"
      /\ e.cmd # "Pause"
  BY FieldTypes DEF IsOff, Step, Then, Command
<1> HIDE DEF t, e
<1>4. CASE t.line = s.line
  BY <1>2, <1>4 DEF Good, Sound, AtRest, Sent, Queued, Past, Facts, t
<1>5. CASE e \in Call /\ t.line = Insert(s.line, e)
  <2>1. /\ Range(t.line) = Range(s.line) \cup {e}
        /\ Sorted(s.line) => Sorted(t.line)
        /\ Holds(s.line, s.g.stage) => Holds(t.line, s.g.stage)
    BY <1>3, <1>5, InsertRange, InsertSorted, InsertHolds
  <2>2. /\ Calm(s.line) => Calm(t.line)
        /\ NoOff(s.line) => NoOff(t.line)
        /\ NoPause(t.line) => NoPause(s.line)
        /\ NoAbort(s.line) => NoAbort(t.line)
    BY <1>3, <2>1 DEF Calm, NoOff, NoPause, NoAbort
  <2>3. Good(t, w, r)
    BY <1>2, <2>1, <2>2 DEF Good, AtRest, Sent, Queued, Past, Facts
  <2>4. Sound(s, w, r) => Sound(t, w, r)
    BY <1>2, <2>2 DEF Sound
  <2>5. QED
    BY <2>3, <2>4 DEF t
<1>6. QED
  BY <1>2, <1>4, <1>5

\* A step of the escape that is sent from a queue without one.
LEMMA SendOne ==
    ASSUME NEW s \in State, NEW then \in Step, NEW cmd \in Command(then), NEW w, NEW r,
           Sorted(s.line), Calm(s.line), Free(w),
           s.g.run \/ w = None \/ w.cmd # "GetState",
           Carries([cmd |-> cmd, then |-> then], s.g.stage),
           s.g.stage \in Wheels => s.g.entered /\ r.testMode,
           cmd = "Pause" \/ (NoOff(s.line) /\ Steady(w))
    PROVE  LET t == Send(s, cmd, then)
           IN  /\ Good(t, w, r)
               /\ t.g.entered = s.g.entered
               /\ ~t.refused => /\ t.g.stage = s.g.stage
                                /\ NoOff(s.line) => NoOff(t.line)
                                /\ then # "abort" => NoAbort(t.line)
<1> DEFINE t == Send(s, cmd, then)
           e == [cmd |-> cmd, then |-> then]
<1>1. cmd \in Cmd /\ then \in Then /\ (cmd = "Pause" => then = "PAUSE_PENDING")
  BY DEF Command, Cmd, Then, Step
<1>2. /\ t.g.run = s.g.run /\ t.g.entered = s.g.entered
      /\ \/ e \in Call /\ t.line = Insert(s.line, e) /\ t.g = s.g
         \/ t.line = s.line /\ t.g.stage = "COOLDOWN" /\ t.refused
  BY <1>1, SendState
<1>3. s.line \in Seq(Call) /\ e.then = then /\ e.cmd = cmd /\ ~IsOff(e)
  BY FieldTypes DEF IsOff, Step
<1>4. Carries(e, s.g.stage)
  OBVIOUS
<1> HIDE DEF t, e
<1>5. CASE t.line = s.line /\ t.g.stage = "COOLDOWN" /\ t.refused
  <2>1. "COOLDOWN" \in Resting /\ "COOLDOWN" \notin Wheels /\ "COOLDOWN" \notin Begun
    BY DEF Resting, Wheels, Begun, Maneuver
  <2>2. Good(t, w, r)
    BY <1>5, <2>1 DEF Good, AtRest, Past, Facts
  <2>3. QED
    BY <1>2, <1>5, <2>2 DEF t
<1>6. CASE e \in Call /\ t.line = Insert(s.line, e) /\ t.g = s.g
  <2>1. /\ Range(t.line) = Range(s.line) \cup {e}
        /\ Sorted(t.line)
        /\ Holds(t.line, s.g.stage)
    <3>1. Range(t.line) = Range(s.line) \cup {e}
      BY <1>3, <1>6, InsertRange
    <3>2. Sorted(t.line)
      BY <1>3, <1>6, InsertSorted
    <3>3. Holds(t.line, s.g.stage)
      BY <1>3, <1>4, <1>6, InsertStep
    <3>4. QED
      BY <3>1, <3>2, <3>3
  <2>2. /\ NoOff(s.line) => NoOff(t.line)
        /\ then # "abort" => NoAbort(t.line)
        /\ cmd = "Pause" => ~NoPause(t.line)
    <3>1. "abort" \in Step
      BY DEF Step
    <3>2. QED
      BY <1>3, <2>1, <3>1 DEF Calm, NoOff, NoPause, NoAbort
  <2>3. Queued(t, w)
    BY <1>6, <2>1 DEF Queued
  <2>4. Past(t) => NoOff(t.line) /\ Steady(w)
    <3>1. CASE cmd = "Pause"
      <4>1. s.g.stage = "PAUSE_PENDING" \/ then = "abort"
        BY <1>1, <1>3, <1>4, <3>1 DEF Carries
      <4>2. s.g.stage = "PAUSE_PENDING"
        BY <1>1, <3>1, <4>1
      <4>3. QED
        BY <1>6, <2>2, <3>1, <4>2 DEF Past, Begun
    <3>2. CASE cmd # "Pause"
      BY <2>2, <3>2
    <3>3. QED
      BY <3>1, <3>2
  <2>5. Good(t, w, r)
    BY <1>6, <2>1, <2>3, <2>4 DEF Good, Facts
  <2>6. QED
    BY <1>2, <1>6, <2>2, <2>5 DEF t
<1>7. QED
  BY <1>2, <1>5, <1>6

LEMMA SendStepOne ==
    ASSUME NEW s \in State, NEW stage \in Step \ {"abort"}, NEW cmd \in Command(stage),
           NEW w, NEW r,
           Sorted(s.line), Calm(s.line), Free(w),
           s.g.run \/ w = None \/ w.cmd # "GetState",
           stage \in Wheels => s.g.entered /\ r.testMode,
           cmd = "Pause" \/ (NoOff(s.line) /\ Steady(w))
    PROVE  LET t == SendStep(s, cmd, stage)
           IN  /\ Good(t, w, r)
               /\ t.g.entered = s.g.entered
               /\ ~t.refused => /\ t.g.stage = stage
                                /\ NoOff(s.line) => NoOff(t.line)
                                /\ NoAbort(t.line)
<1> DEFINE m == [s EXCEPT !.g.stage = stage]
<1>1. stage \in Stage
  BY DEF Step, Stage
<1>2. /\ m \in State /\ m.line = s.line /\ m.g.stage = stage /\ m.g.entered = s.g.entered
      /\ m.g.run = s.g.run
  BY <1>1, SetStage DEF Moves, Keeps, Fits
<1>3. SendStep(s, cmd, stage) = Send(m, cmd, stage)
  BY DEF SendStep
<1> HIDE DEF m
<1>4. Carries([cmd |-> cmd, then |-> stage], m.g.stage)
  BY <1>2 DEF Carries
<1>5. QED
  BY <1>2, <1>3, <1>4, SendOne

\* A handler that sends nothing and comes to rest.
LEMMA Settles ==
    ASSUME NEW s \in State, NEW t, NEW stage \in Resting, NEW w, NEW r,
           Sorted(s.line), Calm(s.line), Free(w), NoOff(s.line) /\ Steady(w),
           Moves(s, t, stage),
           stage \in Wheels => s.g.entered /\ r.testMode
    PROVE  Good(t, w, r)
BY DEF Good, AtRest, Facts, Moves, Keeps, Fits

\* What the robot makes of a command, if it hears it.
Reaction(cmd, ok, r) ==
    /\ r \in {robot, Does(cmd)}
    /\ ok => r = Does(cmd)

LEMMA ReactionFacts ==
    ASSUME robot \in Robot, NEW cmd, NEW ok, NEW r, Reaction(cmd, ok, r)
    PROVE  /\ r \in Robot
           /\ cmd \notin {"TestModeOn", "TestModeOff"} => r.testMode = robot.testMode
           /\ cmd \notin {"Pause", "Resume"} => r.ui = robot.ui
           /\ ok /\ cmd = "TestModeOn" => r.testMode
           /\ ok /\ cmd = "TestModeOff" => ~r.testMode
           /\ ok /\ cmd = "Resume" /\ ~robot.testMode => r.ui # "paused"
BY DEF Reaction, Does, Robot

\* Only the answer to a step that was sent finds the queue without another.
LEMMA SentReady ==
    ASSUME NEW s \in State, NEW e \in Call, e.then \in Step, Good(s, e, robot)
    PROVE  /\ Sorted(s.line) /\ Calm(s.line) /\ NoOff(s.line) /\ NoAbort(s.line)
           /\ Carries(e, s.g.stage)
           /\ s.g.stage \in Maneuver \ Timed
           /\ s.g.stage \in Wheels => s.g.entered /\ robot.testMode
           /\ e.then # "abort" => s.g.stage = e.then
<1>1. e # None
  BY NoneAssumption DEF Call
<1>2. Sent(s, e)
  BY <1>1 DEF Good, AtRest, Queued, Free
<1>3. s.line \in Seq(Call) /\ Range(s.line) \subseteq Call
  BY FieldTypes DEF Range
<1>4. Calm(s.line) /\ Carries(e, s.g.stage) /\ Sorted(s.line)
  BY <1>2 DEF Sent, Good
<1>5. NoPause(s.line) /\ NoAbort(s.line)
  <2>1. ASSUME NEW x \in Call, x.then \notin Step
        PROVE  x.cmd # "Pause" /\ x.then # "abort"
    BY <2>1 DEF Call, Entry, Then, Step, Command
  <2>2. QED
    BY <1>3, <1>4, <2>1 DEF Calm, NoPause, NoAbort
<1>6. s.g.stage \in Maneuver \ Timed
  <2>1. s.g.stage \in Stage
    BY FieldTypes
  <2>2. QED
    BY <1>4, <2>1 DEF Carries, Step, Maneuver, Stage, Timed, Waiting
<1>7. Past(s)
  BY <1>5, <1>6 DEF Past, Begun, Timed
<1>8. QED
  BY <1>4, <1>5, <1>6, <1>7 DEF Good, Facts, Carries

LEMMA FailStageGood ==
    ASSUME NEW s \in State, NEW r,
           Sorted(s.line), Calm(s.line), NoOff(s.line), s.g.stage \in Maneuver \ Timed,
           s.g.stage \in Wheels => s.g.entered /\ r.testMode
    PROVE  Good(FailStage(s), None, r)
<1>1. Free(None) /\ Steady(None)
  BY DEF Free, Steady
<1>2. CASE s.g.entered
  <2>1. "abort" \in Step /\ "WheelsDisable" \in Command("abort")
    BY DEF Step, Command
  <2>2. Carries([cmd |-> "WheelsDisable", then |-> "abort"], s.g.stage)
    BY DEF Carries, Step
  <2>3. FailStage(s) = Send(s, "WheelsDisable", "abort")
    BY <1>2 DEF FailStage
  <2>4. QED
    BY <1>1, <2>1, <2>2, <2>3, SendOne
<1>3. CASE ~s.g.entered
  <2> DEFINE m == [s EXCEPT !.g.resumes = Up(@)]
  <2>1. m \in State /\ m.line = s.line /\ m.g.entered = s.g.entered /\ m.g.run = s.g.run
    BY CountResume DEF Same, Keeps, Fits
  <2>2. FailStage(s) = SendStep(m, "Resume", "ABORT_RESUME_PENDING")
    BY <1>3 DEF FailStage, SendResume
  <2> HIDE DEF m
  <2>3. /\ "ABORT_RESUME_PENDING" \in Step \ {"abort"} /\ "Resume" \in Command("ABORT_RESUME_PENDING")
        /\ "ABORT_RESUME_PENDING" \notin Wheels
    BY DEF Step, Command, Wheels
  <2>4. QED
    BY <1>1, <2>1, <2>2, <2>3, SendStepOne
<1>4. QED
  BY <1>2, <1>3

\* The attempts to leave TestMode and to resume.
LEMMA LeaveGood ==
    ASSUME NEW s \in State, NEW r, Sorted(s.line), Calm(s.line), NoOff(s.line),
           NEW w, Free(w), Steady(w), s.g.run \/ w = None \/ w.cmd # "GetState"
    PROVE  /\ \A stage \in {"TESTMODE_OFF_PENDING", "ABORT_TESTMODE_OFF_PENDING"} :
                LET t == SendTestModeOff(s, stage)
                IN  /\ Good(t, w, r) /\ t.g.entered = s.g.entered
                    /\ ~t.refused => t.g.stage = stage /\ NoOff(t.line) /\ NoAbort(t.line)
           /\ \A stage \in {"RESUME_PENDING", "ABORT_RESUME_PENDING"} :
                LET t == SendResume(s, stage)
                IN  /\ Good(t, w, r) /\ t.g.entered = s.g.entered
                    /\ ~t.refused => t.g.stage = stage /\ NoOff(t.line) /\ NoAbort(t.line)
<1>1. ASSUME NEW stage \in {"TESTMODE_OFF_PENDING", "ABORT_TESTMODE_OFF_PENDING"}
      PROVE  LET t == SendTestModeOff(s, stage)
             IN  /\ Good(t, w, r) /\ t.g.entered = s.g.entered
                 /\ ~t.refused => t.g.stage = stage /\ NoOff(t.line) /\ NoAbort(t.line)
  <2> DEFINE m == [s EXCEPT !.g.offs = Up(@)]
  <2>1. m \in State /\ m.line = s.line /\ m.g.entered = s.g.entered /\ m.g.run = s.g.run
    BY CountOff DEF Same, Keeps, Fits
  <2>2. SendTestModeOff(s, stage) = SendStep(m, "TestModeOff", stage)
    BY DEF SendTestModeOff
  <2> HIDE DEF m
  <2>3. stage \in Step \ {"abort"} /\ "TestModeOff" \in Command(stage) /\ stage \notin Wheels
    BY DEF Step, Command, Wheels
  <2>4. QED
    BY <2>1, <2>2, <2>3, SendStepOne
<1>2. ASSUME NEW stage \in {"RESUME_PENDING", "ABORT_RESUME_PENDING"}
      PROVE  LET t == SendResume(s, stage)
             IN  /\ Good(t, w, r) /\ t.g.entered = s.g.entered
                 /\ ~t.refused => t.g.stage = stage /\ NoOff(t.line) /\ NoAbort(t.line)
  <2> DEFINE m == [s EXCEPT !.g.resumes = Up(@)]
  <2>1. m \in State /\ m.line = s.line /\ m.g.entered = s.g.entered /\ m.g.run = s.g.run
    BY CountResume DEF Same, Keeps, Fits
  <2>2. SendResume(s, stage) = SendStep(m, "Resume", stage)
    BY DEF SendResume
  <2> HIDE DEF m
  <2>3. stage \in Step \ {"abort"} /\ "Resume" \in Command(stage) /\ stage \notin Wheels
    BY DEF Step, Command, Wheels
  <2>4. QED
    BY <2>1, <2>2, <2>3, SendStepOne
<1>3. QED
  BY <1>1, <1>2

\* What a completed step leaves behind.
Leaves(s, e, ok, r, t) ==
    /\ Good(t, None, r)
    /\ ok /\ Sound(s, e, robot) /\ ~t.refused => Sound(t, None, r)

LEMMA StepDone ==
    ASSUME robot \in Robot, NEW s \in State, NEW e \in Call, e.then \in Step, Good(s, e, robot),
           NEW ok \in BOOLEAN, NEW view, NEW r, Reaction(e.cmd, ok, r)
    PROVE  Leaves(s, e, ok, r, Completed(s, e, ok, view))
<1> DEFINE t == Completed(s, e, ok, view)
<1>1. /\ Sorted(s.line) /\ Calm(s.line) /\ NoOff(s.line) /\ NoAbort(s.line)
      /\ Carries(e, s.g.stage)
      /\ s.g.stage \in Maneuver \ Timed
      /\ s.g.stage \in Wheels => s.g.entered /\ robot.testMode
      /\ e.then # "abort" => s.g.stage = e.then
  BY SentReady
<1>2. /\ r \in Robot
      /\ e.cmd \notin {"TestModeOn", "TestModeOff"} => r.testMode = robot.testMode
      /\ e.cmd \notin {"Pause", "Resume"} => r.ui = robot.ui
      /\ ok /\ e.cmd = "TestModeOn" => r.testMode
      /\ ok /\ e.cmd = "TestModeOff" => ~r.testMode
      /\ ok /\ e.cmd = "Resume" /\ ~robot.testMode => r.ui # "paused"
  BY ReactionFacts
<1>3. e.cmd \in Command(e.then) /\ e # None /\ Free(None) /\ Steady(None)
  BY NoneAssumption DEF Call, Free, Steady
<1>4. CASE e.cmd = "WheelsDisable"
  <2>1. t = Send(s, "WheelsEnable", e.then)
    BY <1>4, CompletedStep
  <2>2. e.then \in {"STOP_PENDING", "abort"} /\ "WheelsEnable" \in Command(e.then)
    BY <1>3, <1>4 DEF Command, Step
  <2>3. Carries([cmd |-> "WheelsEnable", then |-> e.then], s.g.stage)
    BY <1>1 DEF Carries
  <2> HIDE DEF t
  <2>4. /\ Good(t, None, r) /\ t.g.entered = s.g.entered
        /\ ~t.refused => /\ t.g.stage = s.g.stage /\ NoOff(t.line)
                         /\ e.then # "abort" => NoAbort(t.line)
    BY <1>1, <1>2, <1>3, <1>4, <2>1, <2>2, <2>3, SendOne
  <2>5. Sound(s, e, robot) => e.then = "STOP_PENDING"
    BY <1>3, <2>2 DEF Sound
  <2>6. Sound(s, e, robot) /\ ~t.refused => Sound(t, None, r)
    BY <1>1, <1>2, <1>3, <1>4, <2>4, <2>5 DEF Sound, Own
  <2>7. QED
    BY <2>4, <2>6 DEF Leaves, t
<1>5. ASSUME ~ok, t = FailStage(s), e.cmd \notin {"TestModeOn", "TestModeOff"}
      PROVE  Leaves(s, e, ok, r, t)
  BY <1>1, <1>2, <1>5, FailStageGood DEF Leaves
<1>6. CASE e.then = "PAUSE_PENDING"
  <2>1. e.cmd = "Pause"
    BY <1>3, <1>6 DEF Command
  <2>2. CASE ok
    <3>1. t = SendStep(s, "TestModeOn", "TESTMODE_ON_PENDING")
      BY <1>6, <2>2, CompletedStep, ZenonT(60)
    <3>2. /\ "TESTMODE_ON_PENDING" \in Step \ {"abort"} /\ "TESTMODE_ON_PENDING" \notin Wheels
          /\ "TestModeOn" \in Command("TESTMODE_ON_PENDING")
      BY DEF Step, Wheels, Command
    <3> HIDE DEF t
    <3>3. /\ Good(t, None, r) /\ t.g.entered = s.g.entered
          /\ ~t.refused => t.g.stage = "TESTMODE_ON_PENDING" /\ NoOff(t.line) /\ NoAbort(t.line)
      BY <1>1, <1>3, <3>1, <3>2, SendStepOne
    <3>4. Sound(s, e, robot) /\ ~t.refused => Sound(t, None, r)
      BY <1>1, <1>2, <1>3, <1>6, <2>1, <3>3 DEF Sound, Own, InMode, Wheels
    <3>5. QED
      BY <3>3, <3>4 DEF Leaves, t
  <2>3. CASE ~ok
    BY <1>5, <1>6, <2>1, <2>3, CompletedStep
  <2>4. QED
    BY <2>2, <2>3
<1>7. CASE e.then = "TESTMODE_ON_PENDING"
  <2>1. e.cmd = "TestModeOn" /\ t = TestModeOn(s, ok)
    BY <1>3, <1>7, CompletedStep DEF Command
  <2>2. CASE ok
    <3> DEFINE m == [s EXCEPT !.g.entered = TRUE]
    <3>1. m \in State /\ m.line = s.line /\ m.g.entered
      BY SetEntered DEF Keeps, Fits
    <3>2. t = SendStep(m, "MotorsOn", "CLEANING_MOTORS_PENDING")
      BY <2>1, <2>2 DEF TestModeOn
    <3>3. /\ "CLEANING_MOTORS_PENDING" \in Step \ {"abort"}
          /\ "MotorsOn" \in Command("CLEANING_MOTORS_PENDING")
      BY DEF Step, Command
    <3> HIDE DEF t, m
    <3>4. /\ Good(t, None, r) /\ t.g.entered
          /\ ~t.refused => /\ t.g.stage = "CLEANING_MOTORS_PENDING" /\ NoOff(t.line)
                           /\ NoAbort(t.line)
      <4>1. r.testMode
        BY <1>2, <2>1, <2>2
      <4>2. Sorted(m.line) /\ Calm(m.line) /\ NoOff(m.line)
        BY <1>1, <3>1
      <4>3. /\ Good(t, None, r) /\ t.g.entered = m.g.entered
            /\ ~t.refused => /\ t.g.stage = "CLEANING_MOTORS_PENDING"
                             /\ NoOff(m.line) => NoOff(t.line)
                             /\ NoAbort(t.line)
        BY <1>3, <3>1, <3>2, <3>3, <4>1, <4>2, SendStepOne
      <4>4. QED
        BY <3>1, <4>2, <4>3
    <3>5. Sound(s, e, robot) /\ ~t.refused => Sound(t, None, r)
      BY <1>2, <1>3, <2>1, <2>2, <3>4 DEF Sound, Own, InMode, Wheels
    <3>6. QED
      BY <3>4, <3>5 DEF Leaves, t
  <2>3. CASE ~ok
    <3>1. t = FailStage(s) /\ s.g.stage \notin Wheels
      BY <1>1, <1>7, <2>1, <2>3 DEF TestModeOn, Wheels
    <3>2. QED
      BY <1>1, <2>3, <3>1, FailStageGood DEF Leaves
  <2>4. QED
    BY <2>2, <2>3
<1>8. CASE e.then = "CLEANING_MOTORS_PENDING"
  <2>1. e.cmd = "MotorsOn" /\ t = SendStep(s, "WheelsDisable", "STOP_PENDING")
    BY <1>3, <1>8, CompletedStep DEF Command
  <2>2. /\ "STOP_PENDING" \in Step \ {"abort"} /\ "WheelsDisable" \in Command("STOP_PENDING")
        /\ "CLEANING_MOTORS_PENDING" \in Wheels
    BY DEF Step, Wheels, Command
  <2> HIDE DEF t
  <2>3. /\ Good(t, None, r) /\ t.g.entered = s.g.entered
        /\ ~t.refused => t.g.stage = "STOP_PENDING" /\ NoOff(t.line) /\ NoAbort(t.line)
    BY <1>1, <1>2, <1>3, <1>8, <2>1, <2>2, SendStepOne
  <2>4. Sound(s, e, robot) /\ ~t.refused => Sound(t, None, r)
    BY <1>1, <1>2, <1>3, <1>8, <2>1, <2>3 DEF Sound, Own, InMode, Wheels
  <2>5. QED
    BY <2>3, <2>4 DEF Leaves, t
<1>9. CASE e.then = "STOP_PENDING" /\ e.cmd = "WheelsEnable"
  <2>1. CASE ok
    <3>1. t = SendStep(s, "Reverse", "REVERSE_PENDING")
      BY <1>9, <2>1, CompletedStep, ZenonT(60)
    <3>2. /\ "REVERSE_PENDING" \in Step \ {"abort"} /\ "Reverse" \in Command("REVERSE_PENDING")
          /\ "STOP_PENDING" \in Wheels
      BY DEF Step, Wheels, Command
    <3> HIDE DEF t
    <3>3. /\ Good(t, None, r) /\ t.g.entered = s.g.entered
          /\ ~t.refused => t.g.stage = "REVERSE_PENDING" /\ NoOff(t.line) /\ NoAbort(t.line)
      BY <1>1, <1>2, <1>3, <1>9, <3>1, <3>2, SendStepOne
    <3>4. Sound(s, e, robot) /\ ~t.refused => Sound(t, None, r)
      BY <1>1, <1>2, <1>3, <1>9, <3>3 DEF Sound, Own, InMode, Wheels
    <3>5. QED
      BY <3>3, <3>4 DEF Leaves, t
  <2>2. CASE ~ok
    BY <1>5, <1>9, <2>2, CompletedStep
  <2>3. QED
    BY <2>1, <2>2
<1>10. CASE e.then \in {"REVERSE_PENDING", "TURN_PENDING"}
  <2>1. e.cmd \in {"Reverse", "Turn"}
    BY <1>3, <1>10 DEF Command
  <2>2. CASE ok
    <3>1. PICK stage \in Waiting : t = Wait(s, stage)
      BY <1>10, <2>2, CompletedStep DEF Waiting
    <3>2. /\ stage \in Timed /\ stage \in Resting /\ stage \in InMode /\ stage \notin Own
          /\ stage \notin {"ABORT_TESTMODE_OFF_PENDING", "ABORT_RESUME_PENDING"}
          /\ s.g.stage \in Wheels
      BY <1>1, <1>10 DEF Waiting, Timed, Resting, InMode, Own, Wheels
    <3> HIDE DEF t
    <3>3. Moves(s, t, stage)
      BY <3>1, <3>2, Pauses
    <3>4. Good(t, None, r)
      BY <1>1, <1>2, <1>3, <2>1, <3>2, <3>3, Settles
    <3>5. Sound(s, e, robot) => Sound(t, None, r)
      BY <1>1, <1>2, <1>3, <2>1, <3>2, <3>3 DEF Sound, Moves, Keeps, InMode
    <3>6. QED
      BY <3>4, <3>5 DEF Leaves, t
  <2>3. CASE ~ok
    BY <1>5, <1>10, <2>1, <2>3, CompletedStep
  <2>4. QED
    BY <2>2, <2>3
<1>11. CASE e.then = "abort" /\ e.cmd = "WheelsEnable"
  <2>1. t = SendTestModeOff(s, "ABORT_TESTMODE_OFF_PENDING")
    BY <1>11, CompletedStep
  <2> HIDE DEF t
  <2>2. Good(t, None, r)
    BY <1>1, <1>3, <2>1, LeaveGood
  <2>3. ~Sound(s, e, robot)
    BY <1>3, <1>11 DEF Sound
  <2>4. QED
    BY <2>2, <2>3 DEF Leaves, t
<1>12. CASE e.then \in {"TESTMODE_OFF_PENDING", "ABORT_TESTMODE_OFF_PENDING"}
  <2>1. e.cmd = "TestModeOff" /\ t = TestModeOff(s, ok, e.then) /\ s.g.stage = e.then
    BY <1>1, <1>3, <1>12, CompletedStep DEF Command
  <2>2. CASE ok
    <3> DEFINE m == [s EXCEPT !.g.entered = FALSE]
               stage == ResumeStage(e.then)
    <3>1. m \in State /\ m.line = s.line /\ ~m.g.entered
      BY SetEntered DEF Keeps, Fits
    <3>2. t = SendResume(m, stage)
      BY <2>1, <2>2 DEF TestModeOff
    <3>3. /\ stage \in {"RESUME_PENDING", "ABORT_RESUME_PENDING"}
          /\ e.then = "TESTMODE_OFF_PENDING" => stage = "RESUME_PENDING"
      BY DEF ResumeStage
    <3> HIDE DEF t, m, stage
    <3>4. /\ Good(t, None, r) /\ ~t.g.entered
          /\ ~t.refused => t.g.stage = stage /\ NoOff(t.line) /\ NoAbort(t.line)
      BY <1>1, <1>3, <3>1, <3>2, <3>3, LeaveGood
    <3>5. Sound(s, e, robot) => e.then = "TESTMODE_OFF_PENDING"
      BY <1>12, <2>1 DEF Sound
    <3>6. Sound(s, e, robot) /\ ~t.refused => Sound(t, None, r)
      BY <1>2, <1>3, <2>1, <2>2, <3>3, <3>4, <3>5 DEF Sound, Own, InMode, Wheels
    <3>7. QED
      BY <3>4, <3>6 DEF Leaves, t
  <2>3. CASE ~ok
    <3>1. t \in {SendTestModeOff(s, e.then), Cooldown(s)}
      BY <2>1, <2>3 DEF TestModeOff
    <3>2. "COOLDOWN" \in Resting /\ "COOLDOWN" \notin Wheels
      BY DEF Resting, Wheels
    <3>3. Good(Cooldown(s), None, r)
      BY <1>1, <1>3, <3>2, Pauses, Settles
    <3>4. Good(SendTestModeOff(s, e.then), None, r)
      BY <1>1, <1>3, <1>12, LeaveGood
    <3> HIDE DEF t
    <3>5. Good(t, None, r)
      BY <3>1, <3>3, <3>4
    <3>6. QED
      BY <2>3, <3>5 DEF Leaves, t
  <2>4. QED
    BY <2>2, <2>3
<1>13. CASE e.then \in {"RESUME_PENDING", "ABORT_RESUME_PENDING"}
  <2>1. e.cmd = "Resume" /\ t = Resume(s, ok, e.then) /\ s.g.stage = e.then
    BY <1>1, <1>3, <1>13, CompletedStep DEF Command
  <2>2. t \in {SendResume(s, e.then), Cooldown(s)} /\ (ok => t = Cooldown(s))
    BY <2>1 DEF Resume
  <2>3. "COOLDOWN" \in Resting /\ "COOLDOWN" \notin Wheels
    BY DEF Resting, Wheels
  <2>4. Good(Cooldown(s), None, r) /\ Moves(s, Cooldown(s), "COOLDOWN")
    BY <1>1, <1>3, <2>3, Pauses, Settles
  <2>5. Good(SendResume(s, e.then), None, r)
    BY <1>1, <1>3, <1>13, LeaveGood
  <2> HIDE DEF t
  <2>6. Good(t, None, r)
    BY <2>2, <2>4, <2>5
  <2>7. ok /\ Sound(s, e, robot) => Sound(t, None, r)
    BY <1>1, <1>2, <1>3, <1>13, <2>1, <2>2, <2>4 DEF Sound, Own, InMode, Wheels, Moves, Keeps
  <2>8. QED
    BY <2>6, <2>7 DEF Leaves, t
<1>14. e.then \in {"STOP_PENDING", "abort"} => e.cmd \in {"WheelsDisable", "WheelsEnable"}
  BY <1>3 DEF Command
<1>15. QED
  BY <1>4, <1>6, <1>7, <1>8, <1>9, <1>10, <1>11, <1>12, <1>13, <1>14 DEF Step

\* The answer to anything else leaves the escape where it is.
LEMMA PlainGone ==
    ASSUME robot \in Robot, NEW s \in State, NEW e \in Call, e.then \notin Step,
           Good(s, e, robot), NEW ok, NEW r, Reaction(e.cmd, ok, r)
    PROVE  /\ Good(s, None, r)
           /\ Sound(s, e, robot) => Sound(s, None, r)
<1>1. e # None /\ Free(None) /\ Steady(None)
  BY NoneAssumption DEF Call, Free, Steady
<1>2. IsOff(e) \/ r = robot
  BY CompletedPlain DEF Reaction, Does, IsOff, Call, Entry, Then, Step, Command
<1>3. /\ Sorted(s.line) /\ Facts(s, e, robot)
      /\ AtRest(s, None) \/ Queued(s, None)
  BY <1>1 DEF Good, AtRest, Sent, Queued, Carries
<1>4. r.ui = robot.ui
  <2>1. e.cmd \notin {"Pause", "Resume"}
    BY DEF Call, Entry, Then, Step, Command
  <2>2. QED
    BY <2>1, ReactionFacts
<1>5. CASE r = robot
  BY <1>1, <1>3, <1>5 DEF Good, Facts, Sound
<1>6. CASE IsOff(e)
  <2>1. ~Steady(e)
    BY <1>1, <1>6 DEF Steady
  <2>2. ~Past(s) /\ s.g.stage \notin Wheels
    <3>1. Wheels \subseteq Begun
      BY DEF Wheels, Begun, Maneuver, Stage, Waiting
    <3>2. QED
      BY <1>3, <2>1, <3>1 DEF Facts, Past
  <2>3. QED
    BY <1>1, <1>3, <2>1, <2>2 DEF Good, Facts, Sound
<1>7. QED
  BY <1>2, <1>5, <1>6

LEMMA RestOnly ==
    ASSUME NEW s \in State, NEW w, NEW r, Good(s, w, r), s.g.stage \in Resting
    PROVE  AtRest(s, w)
<1>1. \A e : ~Carries(e, s.g.stage)
  BY DEF Carries, Resting, Step, Timed, Waiting, Maneuver
<1>2. QED
  BY <1>1 DEF Good, Sent, Queued, Holds

LEMMA OutsideManeuver ==
    ASSUME NEW s \in State, s.g.stage \notin Maneuver
    PROVE  /\ s.g.stage \in {"IDLE", "COOLDOWN"} /\ s.g.stage \in Resting
           /\ s.g.stage \in Own /\ s.g.stage \notin InMode
<1>1. s.g.stage \in Stage
  BY FieldTypes
<1>2. QED
  BY <1>1 DEF Maneuver, Resting, Own, InMode, Wheels

\* A handler's effect on the escape when nothing leaves the wire, w.
Goes(s, t, w, r) ==
    /\ Good(t, w, r)
    /\ Sound(s, w, r) /\ ~t.refused => Sound(t, w, r)

LEMMA FallbackGood ==
    ASSUME NEW s \in State, NEW w, NEW r, Good(s, w, r),
           s.g.stage \in {"IDLE", "PHYSICAL_BUMPER_OBSERVE"},
           s.g.run \/ w = None \/ w.cmd # "GetState"
    PROVE  /\ Goes(s, SendStep(s, "Pause", "PAUSE_PENDING"), w, r)
           /\ Goes(s, BeginTestModeFallback(s), w, r)
<1>1. /\ "PAUSE_PENDING" \in Step \ {"abort"} /\ "Pause" \in Command("PAUSE_PENDING")
      /\ "PAUSE_PENDING" \notin Wheels
  BY DEF Step, Command, Wheels
<1>2. ASSUME NEW m \in State, Same(s, m)
      PROVE  Goes(s, SendStep(m, "Pause", "PAUSE_PENDING"), w, r)
  <2> DEFINE t == SendStep(m, "Pause", "PAUSE_PENDING")
  <2>1. /\ Good(m, w, r) /\ m.g.stage \in Resting /\ m.g.stage = s.g.stage
        /\ Sound(s, w, r) => Sound(m, w, r)
        /\ m.g.run = s.g.run
    BY <1>2, SameGood DEF Resting, Same, Keeps, Fits, Timed
  <2>2. Sorted(m.line) /\ Calm(m.line) /\ Free(w)
    BY <2>1, RestOnly DEF AtRest, Good
  <2>3. /\ Good(t, w, r) /\ t.g.entered = m.g.entered
        /\ ~t.refused => /\ t.g.stage = "PAUSE_PENDING" /\ NoAbort(t.line)
                         /\ NoOff(m.line) => NoOff(t.line)
    BY <1>1, <2>1, <2>2, SendStepOne
  <2> HIDE DEF t
  <2>4. Sound(m, w, r) /\ ~t.refused => Sound(t, w, r)
    BY <2>1, <2>3 DEF Sound, Own, InMode, Wheels
  <2>5. QED
    BY <2>1, <2>3, <2>4 DEF Goes, t
<1>3. s \in State /\ Same(s, s) /\ Release(s) \in State /\ Same(s, Release(s))
  BY Relays DEF Same, Keeps, Fits
<1>4. QED
  BY <1>2, <1>3 DEF BeginTestModeFallback

LEMMA ObserveGood ==
    ASSUME NEW s \in State, NEW view \in View, NEW r, Good(s, None, r)
    PROVE  Goes(s, Observe(s, view), None, r)
<1>1. s.g.stage \in Stage /\ Goes(s, s, None, r) /\ Free(None) /\ Steady(None)
  BY FieldTypes DEF Goes, Free, Steady
<1>2. ASSUME NEW m, Same(s, m), NEW t, NEW stage \in {"IDLE", "COOLDOWN", "PHYSICAL_BUMPER_OBSERVE"},
             Moves(m, t, stage), s.g.stage \in {"IDLE", "COOLDOWN", "PHYSICAL_BUMPER_OBSERVE"}
      PROVE  Goes(s, t, None, r)
  <2>1. stage \in Resting /\ stage \notin Wheels /\ stage \notin Begun /\ stage # "PAUSE_PENDING"
        /\ stage \in Own /\ stage \notin InMode /\ s.g.stage \in Own /\ s.g.stage \notin InMode
        /\ s.g.stage \in Resting
        /\ stage \notin {"ABORT_TESTMODE_OFF_PENDING", "ABORT_RESUME_PENDING"}
    BY <1>2 DEF Resting, Timed, Wheels, Begun, Maneuver, Own, InMode
  <2>2. AtRest(s, None) /\ Sorted(s.line)
    BY <2>1, RestOnly DEF Good
  <2>3. t.line = s.line /\ t.g.stage = stage /\ t.g.entered = s.g.entered
    BY <1>2 DEF Same, Moves, Keeps
  <2>4. Good(t, None, r)
    BY <2>1, <2>2, <2>3 DEF Good, AtRest, Facts, Past
  <2>5. Sound(s, None, r) => Sound(t, None, r)
    BY <2>1, <2>3 DEF Sound
  <2>6. QED
    BY <2>4, <2>5 DEF Goes
<1>3. Same(s, s)
  BY DEF Same, Keeps, Fits
<1>4. CASE s.g.stage = "PHYSICAL_BUMPER_OBSERVE"
  <2>1. Observe(s, view) \in {BeginTestModeFallback(s), Cooldown(Release(s)), s}
    BY <1>4 DEF Observe
  <2>2. Goes(s, BeginTestModeFallback(s), None, r)
    BY <1>4, FallbackGood
  <2>3. Goes(s, Cooldown(Release(s)), None, r)
    <3>1. Release(s) \in State /\ Same(s, Release(s))
      BY Relays DEF Same, Keeps, Fits
    <3>2. QED
      BY <1>2, <1>4, <3>1, Pauses
  <2>4. QED
    BY <1>1, <2>1, <2>2, <2>3
<1>5. CASE s.g.stage = "COOLDOWN"
  <2>1. Observe(s, view) \in {[s EXCEPT !.g.stage = "IDLE"], s}
    BY <1>5 DEF Observe
  <2>2. Moves(s, [s EXCEPT !.g.stage = "IDLE"], "IDLE")
    BY SetStage DEF Stage
  <2>3. Goes(s, [s EXCEPT !.g.stage = "IDLE"], None, r)
    BY <1>2, <1>3, <1>5, <2>2
  <2>4. QED
    BY <1>1, <2>1, <2>3
<1>6. CASE s.g.stage = "IDLE"
  <2>1. Observe(s, view) \in {Escape(s), s}
    BY <1>6 DEF Observe
  <2>2. Goes(s, Escape(s), None, r)
    <3>1. CASE Physical
      <4>1. Pulse(s, "escape") \in State /\ Same(s, Pulse(s, "escape"))
        BY Relays DEF Same, Keeps, Fits
      <4>2. Moves(Pulse(s, "escape"), Escape(s), "PHYSICAL_BUMPER_OBSERVE")
        BY <3>1, <4>1, Pauses DEF Escape, Timed
      <4>3. QED
        BY <1>2, <1>6, <4>1, <4>2
    <3>2. CASE ~Physical
      BY <1>6, <3>2, FallbackGood DEF Escape
    <3>3. QED
      BY <3>1, <3>2
  <2>3. QED
    BY <1>1, <2>1, <2>2
<1>7. CASE s.g.stage \notin {"PHYSICAL_BUMPER_OBSERVE", "COOLDOWN", "IDLE"}
  BY <1>1, <1>7 DEF Observe
<1>8. QED
  BY <1>4, <1>5, <1>6, <1>7

LEMMA LeavingCalm ==
    ASSUME NEW s \in State, Sorted(s.line), Calm(s.line)
    PROVE  Sorted(Leaving(s).line) /\ Calm(Leaving(s).line)
<1>1. ASSUME NEW m \in State, Sorted(m.line), Calm(m.line),
             NEW cmd \in {"WheelsDisable", "TestModeOff"}
      PROVE  LET t == Send(m, cmd, "nothing")
             IN  t \in State /\ Sorted(t.line) /\ Calm(t.line)
  <2> DEFINE t == Send(m, cmd, "nothing")
             e == [cmd |-> cmd, then |-> "nothing"]
  <2>1. cmd \in Cmd /\ "nothing" \in Then /\ cmd \in Command("nothing") /\ "nothing" \notin Step
    BY DEF Cmd, Then, Command, Step
  <2>2. t \in State /\ ((e \in Call /\ t.line = Insert(m.line, e)) \/ t.line = m.line)
    BY <2>1, SendState
  <2>3. m.line \in Seq(Call) /\ e.then = "nothing"
    BY FieldTypes
  <2> HIDE DEF t, e
  <2>4. CASE e \in Call /\ t.line = Insert(m.line, e)
    <3>1. Sorted(t.line)
      BY <1>1, <2>3, <2>4, InsertSorted
    <3>2. Range(t.line) = Range(m.line) \cup {e}
      BY <2>3, <2>4, InsertRange
    <3>3. Calm(t.line)
      BY <1>1, <2>1, <2>3, <3>2 DEF Calm
    <3>4. QED
      BY <2>2, <3>1, <3>3 DEF t
  <2>5. CASE t.line = m.line
    BY <1>1, <2>2, <2>5 DEF t
  <2>6. QED
    BY <2>2, <2>4, <2>5
<1> DEFINE stop == Send(s, "WheelsDisable", "nothing")
           kept == IF Len(s.line) >= QueueMax THEN s ELSE stop
<1>2. kept \in State /\ Sorted(kept.line) /\ Calm(kept.line)
  BY <1>1
<1> HIDE DEF kept
<1>3. Sorted(Send(kept, "TestModeOff", "nothing").line) /\ Calm(Send(kept, "TestModeOff", "nothing").line)
  BY <1>1, <1>2
<1>4. QED
  BY <1>3 DEF Leaving, kept

LEMMA StateSeenGood ==
    ASSUME robot \in Robot, NEW s \in State, NEW e \in Call, e.cmd = "GetState",
           Good(s, e, robot), NEW ok \in BOOLEAN
    PROVE  LET t == StateSeen(s, ok)
           IN  Good(t, None, robot) /\ (Sound(s, e, robot) => Sound(t, None, robot))
<1> DEFINE t == StateSeen(s, ok)
<1>1. e # None /\ e.then \notin Step /\ Free(None) /\ Steady(None)
  BY NoneAssumption DEF Call, Entry, Then, Step, Command, Free, Steady
<1>2. \/ ok /\ ~s.g.run /\ Cleaning(robot) /\ t = StartRun(s)
      \/ /\ ok /\ s.g.run /\ ~Cleaning(robot) /\ s.g.stage \notin Maneuver
         /\ t = EndRun(s)
      \/ t = s
  BY StateSeenState
<1>3. Good(s, None, robot) /\ (Sound(s, e, robot) => Sound(s, None, robot))
  <2>1. Reaction(e.cmd, ok, robot)
    BY DEF Reaction, Does
  <2>2. QED
    BY <1>1, <2>1, PlainGone
<1>4. "IDLE" \in Resting /\ "IDLE" \in Own /\ "IDLE" \notin Wheels /\ "IDLE" \notin Begun
      /\ "IDLE" \notin InMode
  BY DEF Resting, Own, Wheels, Begun, Maneuver, InMode
<1> HIDE DEF t
<1>5. CASE ~s.g.run /\ Cleaning(robot) /\ t = StartRun(s)
  <2>1. AtRest(s, e) /\ Sorted(s.line)
    BY <1>1, <1>5 DEF Good, Sent, Queued, Carries
  <2>2. t.g.stage = "IDLE" /\ ~t.g.entered /\ t.line = s.line
    BY <1>5, StartRunState
  <2>3. Good(t, None, robot)
    BY <1>1, <1>4, <2>1, <2>2 DEF Good, AtRest, Facts, Past
  <2>4. ASSUME Sound(s, e, robot)
        PROVE  Sound(t, None, robot)
    <3>1. ~robot.testMode /\ s.g.stage \notin InMode
      BY <1>5, <2>4 DEF Cleaning, Sound
    <3>2. s.g.stage \in Own
      BY <2>1, <3>1 DEF AtRest, Resting, Timed, Waiting, Own, InMode, Wheels
    <3>3. QED
      BY <1>1, <1>4, <2>2, <2>4, <3>1, <3>2 DEF Sound
  <2>5. QED
    BY <2>3, <2>4 DEF t
<1>6. CASE s.g.stage \notin Maneuver /\ t = EndRun(s)
  <2>1. s.g.stage \in Resting /\ s.g.stage \in Own /\ s.g.stage \notin InMode
    BY <1>6, OutsideManeuver
  <2>2. AtRest(s, None) /\ Sorted(s.line)
    BY <1>3, <2>1, RestOnly DEF Good
  <2>3. t.g.stage = "IDLE" /\ t.g.entered = s.g.entered /\ t.line = Leaving(s).line
    BY <1>6, EndRunState
  <2>4. Sorted(t.line) /\ Calm(t.line)
    BY <2>2, <2>3, LeavingCalm DEF AtRest
  <2>5. Good(t, None, robot)
    BY <1>1, <1>4, <2>3, <2>4 DEF Good, AtRest, Facts, Past
  <2>6. ASSUME Sound(s, e, robot)
        PROVE  Sound(t, None, robot)
    <3>1. ~robot.testMode /\ ~s.g.entered
      BY <2>1, <2>6 DEF Sound
    <3>2. t.line = s.line
      BY <2>3, <3>1 DEF Leaving
    <3>3. QED
      BY <1>1, <1>4, <2>1, <2>3, <2>6, <3>1, <3>2 DEF Sound
  <2>7. QED
    BY <2>5, <2>6 DEF t
<1>7. CASE t = s
  BY <1>3, <1>7 DEF t
<1>8. QED
  BY <1>2, <1>5, <1>6, <1>7

\* All completions.
LEMMA CompletedGood ==
    ASSUME robot \in Robot, NEW s \in State, NEW e \in Call, Good(s, e, robot),
           NEW ok \in BOOLEAN, NEW view \in View, NEW r, Reaction(e.cmd, ok, r)
    PROVE  Leaves(s, e, ok, r, Completed(s, e, ok, view))
<1> DEFINE t == Completed(s, e, ok, view)
<1>1. CASE e.then \in Step
  BY <1>1, StepDone
<1>2. CASE e.then \notin Step
  <2>1. Good(s, None, r) /\ (Sound(s, e, robot) => Sound(s, None, r))
    BY <1>2, PlainGone
  <2>2. ASSUME Goes(s, t, None, r)
        PROVE  Leaves(s, e, ok, r, t)
    BY <2>1, <2>2 DEF Goes, Leaves
  <2>3. CASE e.cmd = "WheelsDisable"
    <3>1. "nothing" \in Then \ Step /\ "WheelsEnable" \in Command("nothing") \ {"TestModeOff"}
      BY DEF Then, Step, Command
    <3>2. t = Send(s, "WheelsEnable", "nothing")
      BY <1>2, <2>3, CompletedPlain
    <3>3. Goes(s, t, None, r)
      BY <2>1, <3>1, <3>2, AddPlain DEF Goes
    <3>4. QED
      BY <2>2, <3>3
  <2>4. CASE e.cmd = "GetPose"
    <3> DEFINE m == [s EXCEPT !.g.posePending = FALSE]
    <3>1. m \in State /\ Same(s, m)
      BY SetPending DEF Same, Keeps, Fits
    <3>2. t = IF ok THEN Observe(m, view) ELSE m
      BY <1>2, <2>4, CompletedPlain DEF PoseDone
    <3> HIDE DEF m, t
    <3>3. Good(m, None, r) /\ (Sound(s, None, r) => Sound(m, None, r))
      BY <2>1, <3>1, SameGood
    <3>4. Goes(m, Observe(m, view), None, r)
      BY <3>1, <3>3, ObserveGood
    <3>5. Goes(s, t, None, r)
      BY <3>2, <3>3, <3>4 DEF Goes
    <3>6. QED
      BY <2>2, <3>5 DEF t
  <2>5. CASE e.cmd = "GetState"
    <3>1. t = StateSeen(s, ok)
      BY <1>2, <2>5, CompletedPlain
    <3>2. r = robot
      BY <2>5 DEF Reaction, Does
    <3>3. QED
      BY <2>5, <3>1, <3>2, StateSeenGood DEF Leaves
  <2>6. CASE e.cmd = "GetSensors"
    <3>1. t = Release(s)
      BY <1>2, <2>6, CompletedPlain
    <3>2. Same(s, Release(s))
      BY Relays
    <3>3. Goes(s, t, None, r)
      BY <2>1, <3>1, <3>2, SameGood DEF Goes
    <3>4. QED
      BY <2>2, <3>3
  <2>7. CASE e.cmd \in {"WheelsEnable", "TestModeOff"}
    <3>1. t = s
      BY <1>2, <2>7, CompletedPlain
    <3>2. Goes(s, t, None, r)
      BY <2>1, <3>1 DEF Goes
    <3>3. QED
      BY <2>2, <3>2
  <2>8. QED
    BY <1>2, <2>3, <2>4, <2>5, <2>6, <2>7, CompletedPlain
<1>3. QED
  BY <1>1, <1>2

LEMMA StageDueGood ==
    ASSUME NEW s \in State, NEW w, NEW r, Good(s, w, r), s.g.stage \in Timed, s.g.run
    PROVE  Goes(s, StageDue(s), w, r)
<1>1. /\ s.g.stage = "REVERSE_WAIT" => StageDue(s) = SendStep(s, "Turn", "TURN_PENDING")
      /\ s.g.stage = "TURN_WAIT" => StageDue(s) = SendTestModeOff(s, "TESTMODE_OFF_PENDING")
      /\ s.g.stage = "PHYSICAL_BUMPER_OBSERVE" => StageDue(s) = BeginTestModeFallback(s)
  BY DEF StageDue
<1>2. AtRest(s, w) /\ Sorted(s.line) /\ Calm(s.line) /\ Free(w)
  BY RestOnly DEF Resting, AtRest, Good
<1>3. s.g.stage \in Waiting => NoOff(s.line) /\ Steady(w)
  BY DEF Good, Facts, Past, Begun, Maneuver, Stage, Waiting
<1>4. CASE s.g.stage = "REVERSE_WAIT"
  <2> DEFINE t == SendStep(s, "Turn", "TURN_PENDING")
  <2>1. "Turn" \in Command("TURN_PENDING") /\ "TURN_PENDING" \in Step \ {"abort"}
        /\ s.g.entered /\ r.testMode
    BY <1>4 DEF Command, Step, Good, Facts, Wheels
  <2>2. /\ Good(t, w, r) /\ t.g.entered = s.g.entered
        /\ ~t.refused => t.g.stage = "TURN_PENDING" /\ NoOff(t.line) /\ NoAbort(t.line)
    BY <1>2, <1>3, <1>4, <2>1, SendStepOne DEF Waiting
  <2> HIDE DEF t
  <2>3. Sound(s, w, r) /\ ~t.refused => Sound(t, w, r)
    BY <1>4, <2>2 DEF Sound, InMode, Wheels, Own
  <2>4. QED
    BY <1>1, <1>4, <2>2, <2>3 DEF Goes, t
<1>5. CASE s.g.stage = "TURN_WAIT"
  <2> DEFINE t == SendTestModeOff(s, "TESTMODE_OFF_PENDING")
  <2>1. /\ Good(t, w, r) /\ t.g.entered = s.g.entered
        /\ ~t.refused => t.g.stage = "TESTMODE_OFF_PENDING" /\ NoOff(t.line) /\ NoAbort(t.line)
    BY <1>2, <1>3, <1>5, LeaveGood DEF Waiting
  <2> HIDE DEF t
  <2>2. Sound(s, w, r) /\ ~t.refused => Sound(t, w, r)
    BY <1>5, <2>1 DEF Sound, InMode, Wheels, Own
  <2>3. QED
    BY <1>1, <1>5, <2>1, <2>2 DEF Goes, t
<1>6. CASE s.g.stage = "PHYSICAL_BUMPER_OBSERVE"
  BY <1>1, <1>6, FallbackGood
<1>7. QED
  BY <1>4, <1>5, <1>6 DEF Timed, Waiting

LEMMA TickGood ==
    ASSUME NEW s \in State, NEW w, NEW r, Good(s, w, r)
    PROVE  Goes(s, Ticked(s), w, r)
<1> DEFINE m == Released(s)
<1>1. Same(s, m) /\ m \in State /\ m.g.run = s.g.run
  BY ReleasedSame DEF Same, Keeps, Fits
<1>2. Ticked(s) = IF Armed(s) THEN TickArmed(m) ELSE m
  BY DEF Ticked
<1> HIDE DEF m
<1>3. Good(m, w, r) /\ (Sound(s, w, r) => Sound(m, w, r))
  BY <1>1, SameGood
<1>4. CASE Armed(s)
  <2>1. m.g.run
    BY <1>1, <1>4 DEF Armed
  <2>2. Goes(m, PollPose(m), w, r)
    <3> DEFINE n == [m EXCEPT !.g.posePending = TRUE]
    <3>1. n \in State /\ Same(m, n)
      BY <1>1, SetPending DEF Same, Keeps, Fits
    <3>2. "pose" \in Then \ Step /\ "GetPose" \in Command("pose") \ {"TestModeOff"}
      BY DEF Then, Step, Command
    <3>3. PollPose(m) = Send(n, "GetPose", "pose")
      BY DEF PollPose
    <3> HIDE DEF n
    <3>4. Good(n, w, r) /\ (Sound(m, w, r) => Sound(n, w, r))
      BY <1>3, <3>1, SameGood
    <3>5. QED
      BY <3>1, <3>2, <3>3, <3>4, AddPlain DEF Goes
  <2>3. m.g.stage \in Timed => Goes(m, StageDue(m), w, r)
    BY <1>1, <1>3, <2>1, StageDueGood
  <2>4. Goes(m, TickArmed(m), w, r)
    BY <1>3, <2>2, <2>3 DEF TickArmed, Goes
  <2>5. QED
    BY <1>2, <1>3, <1>4, <2>4 DEF Goes
<1>5. CASE ~Armed(s)
  BY <1>2, <1>3, <1>5 DEF Goes
<1>6. QED
  BY <1>4, <1>5

\* The head of the queue goes on the wire.
LEMMA SendNextGood ==
    ASSUME NEW s \in State, NEW t, NEW r, Good(s, None, r), s.line # <<>>,
           t.line = Tail(s.line), t.g = s.g
    PROVE  /\ Good(t, Head(s.line), r)
           /\ Sound(s, None, r) => Sound(t, Head(s.line), r)
           /\ Head(s.line).cmd \in {"Reverse", "Turn"} => s.g.entered /\ r.testMode
<1> DEFINE e == Head(s.line)
<1>1. s.line \in Seq(Call)
  BY FieldTypes
<1>2. e \in Call /\ e # None /\ Range(s.line) = Range(t.line) \cup {e}
  BY <1>1, TailShape, TailRange, NoneAssumption DEF Call
<1>3. Sorted(s.line) /\ Facts(s, None, r) /\ Sorted(t.line)
  BY <1>1, TailSorted DEF Good
<1>4. e.then \notin Step => e.cmd \notin {"Pause", "Reverse", "Turn"}
  BY <1>2 DEF Call, Entry, Then, Step, Command
<1>5. /\ NoOff(s.line) => NoOff(t.line) /\ Steady(e)
      /\ NoPause(t.line) /\ e.cmd # "Pause" => NoPause(s.line)
      /\ NoAbort(s.line) => NoAbort(t.line) /\ e.then # "abort"
      /\ Calm(s.line) => Calm(t.line) /\ e.then \notin Step
  BY <1>2 DEF NoOff, NoPause, NoAbort, Calm, Steady
<1>6. \/ AtRest(s, None)
      \/ Holds(s.line, s.g.stage)
  BY DEF Good, Sent, Queued
<1>7. Holds(s.line, s.g.stage) =>
        \/ /\ Carries(e, s.g.stage) /\ Calm(t.line)
           /\ e.cmd = "Pause" => NoOff(t.line)
        \/ /\ e.then \notin Step /\ e.cmd # "GetState"
           /\ Holds(t.line, s.g.stage)
  BY <1>1, <1>3, TailHolds
<1> HIDE DEF e
<1>8. Sound(s, None, r) => Sound(t, e, r)
  BY <1>5 DEF Sound
<1>9. CASE AtRest(s, None)
  <2>1. AtRest(t, e) /\ e.then \notin Step
    BY <1>5, <1>9 DEF AtRest, Free
  <2>2. Past(t) => Past(s)
    BY <1>4, <1>5, <2>1 DEF Past
  <2>3. Good(t, e, r)
    BY <1>3, <1>5, <2>1, <2>2 DEF Good, Facts
  <2>4. QED
    BY <1>4, <1>8, <2>1, <2>3 DEF e
<1>10. CASE Carries(e, s.g.stage) /\ Calm(t.line) /\ (e.cmd = "Pause" => NoOff(t.line))
  <2>1. Sent(t, e)
    BY <1>2, <1>10 DEF Sent
  <2>2. e.cmd = "Pause" => NoOff(t.line) /\ Steady(e)
    BY <1>10 DEF Steady, IsOff
  <2>3. e.cmd # "Pause" => (Past(t) => Past(s))
    BY <1>5 DEF Past
  <2>4. Good(t, e, r)
    BY <1>3, <1>5, <2>1, <2>2, <2>3 DEF Good, Facts
  <2>5. e.cmd \in {"Reverse", "Turn"} => s.g.stage \in Wheels
    BY <1>2, <1>10 DEF Carries, Call, Step, Command, Wheels
  <2>6. QED
    BY <1>3, <1>8, <2>4, <2>5 DEF Facts, e
<1>11. CASE e.then \notin Step /\ e.cmd # "GetState" /\ Holds(t.line, s.g.stage)
  <2>1. Queued(t, e)
    BY <1>11 DEF Queued, Free
  <2>2. Past(t) => Past(s)
    BY <1>4, <1>5, <1>11 DEF Past
  <2>3. Good(t, e, r)
    BY <1>3, <1>5, <2>1, <2>2 DEF Good, Facts
  <2>4. QED
    BY <1>4, <1>8, <1>11, <2>3 DEF e
<1>12. QED
  BY <1>6, <1>7, <1>9, <1>10, <1>11

-----------------------------------------------------------------------------
(* The invariant.                                                          *)

LEMMA CompletedState ==
    ASSUME NEW s \in State, NEW e \in Call, NEW ok \in BOOLEAN, NEW view \in View
    PROVE  Completed(s, e, ok, view) \in State
<1>1. CASE e.cmd # "GetState"
  BY <1>1, CompletedFits DEF Fits
<1>2. CASE e.cmd = "GetState"
  <2>1. e.then \notin Step
    BY <1>2 DEF Call, Entry, Then, Step, Command
  <2>2. StateSeen(s, ok) \in State
    BY StateSeenState
  <2>3. Completed(s, e, ok, view) = StateSeen(s, ok)
    BY <1>2, <2>1, CompletedPlain
  <2>4. QED
    BY <2>2, <2>3
<1>3. QED
  BY <1>1, <1>2

GInv ==
    /\ Types
    /\ Good(Now, wire, robot)
    /\ faults = 0 /\ ~refused => Sound(Now, wire, robot)

LEMMA InitGInv == Init => GInv
<1> SUFFICES ASSUME Init
             PROVE  GInv
  OBVIOUS
<1>1. Types
  BY InitTypes
<1>2. /\ line = <<>> /\ wire = None /\ g.stage = "IDLE" /\ ~g.entered /\ ~robot.testMode
      /\ robot.ui = "idle" /\ Now.g = g /\ Now.line = line
  BY NowFields DEF Init
<1>3. Range(Now.line) = {} /\ Sorted(Now.line)
  BY <1>2 DEF Range, Sorted
<1>4. /\ "IDLE" \in Resting /\ "IDLE" \notin Wheels /\ "IDLE" \notin Begun /\ "IDLE" \notin InMode
  BY DEF Resting, Wheels, Begun, Maneuver, InMode
<1>5. /\ Calm(Now.line) /\ NoOff(Now.line) /\ NoAbort(Now.line) /\ Free(wire) /\ Steady(wire)
  BY <1>2, <1>3 DEF Calm, NoOff, NoAbort, Free, Steady
<1>6. Good(Now, wire, robot)
  BY <1>2, <1>3, <1>4, <1>5 DEF Good, AtRest, Facts, Past
<1>7. Sound(Now, wire, robot)
  BY <1>2, <1>4, <1>5 DEF Sound
<1>8. QED
  BY <1>1, <1>6, <1>7 DEF GInv

LEMMA NextGood ==
    ASSUME ~ConfigAnytime, GInv, [Next]_vars
    PROVE  /\ Good(Now', wire', robot')
           /\ faults' = 0 /\ ~refused' => Sound(Now', wire', robot')
<1> DEFINE Goal ==
        /\ Good(Now', wire', robot')
        /\ faults' = 0 /\ ~refused' => Sound(Now', wire', robot')
<1>1. /\ Now \in State /\ wire \in Call \cup {None} /\ robot \in Robot /\ faults \in Nat
      /\ Good(Now, wire, robot)
      /\ faults = 0 /\ ~refused => Sound(Now, wire, robot)
      /\ Now.g = g /\ Now.line = line /\ Now.refused = refused
      /\ Now'.refused = refused' /\ Now'.g = g' /\ Now'.line = line'
      /\ refused => refused'
  <2>1. refused => refused'
    BY NextState DEF GInv
  <2>2. faults \in Nat
    BY BoundsAssumption DEF GInv, Types
  <2>3. QED
    BY <2>1, <2>2, NowFields DEF GInv, Types, Now
<1>2. ASSUME NEW t \in State, Becomes(t), Goes(Now, t, wire, robot), wire' = wire,
             robot' = robot, faults' = faults
      PROVE  Goal
  <2>1. Now' = t
    BY <1>2, BecomesState
  <2>2. QED
    BY <1>1, <1>2, <2>1 DEF Goes
<1>3. CASE Tick
  <2>1. Ticked(Now) \in State /\ Goes(Now, Ticked(Now), wire, robot)
    BY <1>1, TickedFits, TickGood DEF Fits
  <2>2. QED
    BY <1>2, <1>3, <2>1 DEF Tick, counters
<1>4. CASE HistoryPoll
  <2>1. "GetState" \in Cmd /\ "state" \in Then \ Step /\ "GetState" \in Command("state") \ {"TestModeOff"}
    BY DEF Cmd, Then, Step, Command
  <2>2. /\ Send(Now, "GetState", "state") \in State
        /\ Goes(Now, Send(Now, "GetState", "state"), wire, robot)
    BY <1>1, <2>1, SendState, AddPlain DEF Goes
  <2>3. QED
    BY <1>2, <1>4, <2>2 DEF HistoryPoll, counters
<1>5. CASE SendNext
  <2>1. /\ wire = None /\ line # <<>> /\ wire' = Head(line) /\ line' = Tail(line)
        /\ g' = g /\ robot' = robot /\ faults' = faults /\ refused' = refused
    BY <1>5 DEF SendNext, counters
  <2>2. /\ Good(Now', Head(line), robot)
        /\ Sound(Now, None, robot) => Sound(Now', Head(line), robot)
    BY <1>1, <2>1, SendNextGood
  <2>3. QED
    BY <1>1, <2>1, <2>2
<1>6. ASSUME NEW ok \in BOOLEAN, NEW view \in View, wire # None, wire' = None,
             Becomes(Completed(Now, wire, ok, view)), Reaction(wire.cmd, ok, robot'),
             faults' = IF ok THEN faults ELSE faults + 1
      PROVE  Goal
  <2>1. wire \in Call
    BY <1>1, <1>6
  <2>2. Completed(Now, wire, ok, view) \in State
    BY <1>1, <2>1, CompletedState
  <2>3. Leaves(Now, wire, ok, robot', Completed(Now, wire, ok, view))
    BY <1>1, <1>6, <2>1, CompletedGood
  <2>4. Now' = Completed(Now, wire, ok, view)
    BY <1>6, <2>2, BecomesState
  <2>5. Leaves(Now, wire, ok, robot', Now')
    BY <2>3, <2>4
  <2>6. Good(Now', None, robot')
    BY <2>5 DEF Leaves
  <2>7. ASSUME faults' = 0, ~refused'
        PROVE  Sound(Now', None, robot')
    <3>1. ok /\ faults = 0 /\ ~refused
      BY <1>1, <1>6, <2>7
    <3>2. QED
      BY <1>1, <2>5, <2>7, <3>1 DEF Leaves
  <2>8. QED
    BY <1>6, <2>6, <2>7
<1>7. CASE Done
  <2>1. PICK view \in View : Becomes(Completed(Now, wire, TRUE, view))
    BY <1>7 DEF Done, View
  <2>2. Reaction(wire.cmd, TRUE, robot') /\ wire # None /\ wire' = None /\ faults' = faults
    BY <1>7 DEF Done, Reaction, counters
  <2>3. QED
    BY <1>6, <2>1, <2>2
<1>8. CASE Fail
  <2>1. Reaction(wire.cmd, FALSE, robot') /\ wire # None /\ wire' = None /\ faults' = faults + 1
        /\ Becomes(Completed(Now, wire, FALSE, "clear")) /\ "clear" \in View
    BY <1>8 DEF Fail, Reaction, View
  <2>2. QED
    BY <1>6, <2>1
<1>9. CASE ApplyConfig
  <2>1. PICK enabled \in BOOLEAN : Becomes(ResetRunState([Now EXCEPT !.g.enabled = enabled]))
    BY <1>9 DEF ApplyConfig
  <2> DEFINE t == ResetRunState([Now EXCEPT !.g.enabled = enabled])
  <2>2. t \in State /\ t.g.stage = "IDLE" /\ ~t.g.entered /\ t.line = line
    BY <1>1, ResetState
  <2>3. Now' = t
    BY <2>1, <2>2, BecomesState
  <2> HIDE DEF t
  <2>4. Now.g.stage \notin Maneuver /\ wire' = wire /\ robot' = robot /\ faults' = faults
    BY <1>1, <1>9 DEF ApplyConfig
  <2>5. /\ Now.g.stage \in Resting /\ Now.g.stage \in Own /\ Now.g.stage \notin InMode
        /\ "IDLE" \in Resting /\ "IDLE" \in Own /\ "IDLE" \notin Wheels /\ "IDLE" \notin Begun
        /\ "IDLE" \notin InMode
    BY <1>1, <2>4, OutsideManeuver DEF Resting, Own, Wheels, Begun, Maneuver, InMode
  <2>6. AtRest(Now, wire) /\ Sorted(line)
    BY <1>1, <2>5, RestOnly DEF Good
  <2>7. Good(t, wire, robot)
    BY <1>1, <2>2, <2>5, <2>6 DEF Good, AtRest, Facts, Past
  <2>8. Sound(Now, wire, robot) => Sound(t, wire, robot)
    BY <1>1, <2>2, <2>5 DEF Sound
  <2>9. QED
    BY <1>1, <2>3, <2>4, <2>7, <2>8
<1>10. CASE BumperTest
  <2> DEFINE m == Pulse(Now, "test")
  <2>1. m \in State /\ Same(Now, m)
    BY <1>1, Relays DEF Same, Keeps, Fits
  <2>2. Becomes(Send(m, "GetSensors", "test")) /\ wire' = wire /\ robot' = robot /\ faults' = faults
    BY <1>10 DEF BumperTest
  <2>3. "GetSensors" \in Cmd /\ "test" \in Then \ Step
        /\ "GetSensors" \in Command("test") \ {"TestModeOff"}
    BY DEF Cmd, Then, Step, Command
  <2> HIDE DEF m
  <2>4. Good(m, wire, robot) /\ (Sound(Now, wire, robot) => Sound(m, wire, robot))
    BY <1>1, <2>1, SameGood
  <2>5. /\ Send(m, "GetSensors", "test") \in State
        /\ Goes(Now, Send(m, "GetSensors", "test"), wire, robot)
    BY <2>1, <2>3, <2>4, SendState, AddPlain DEF Goes
  <2>6. QED
    BY <1>2, <2>2, <2>5
<1>11. ASSUME NEW d \in Deadline, Elapse(d)
       PROVE  Goal
  <2>1. Same(Now, Now') /\ wire' = wire /\ robot' = robot /\ faults' = faults /\ refused' = refused
    <3>1. Now' \in State
      BY NextState DEF GInv
    <3>2. g' = g /\ line' = line /\ refused' = refused
      BY <1>11 DEF Elapse
    <3>3. QED
      BY <1>1, <1>11, <3>1, <3>2 DEF Elapse, Same, Keeps, Fits, counters
  <2>2. Good(Now', wire, robot) /\ (Sound(Now, wire, robot) => Sound(Now', wire, robot))
    BY <1>1, <2>1, SameGood
  <2>3. QED
    BY <1>1, <2>1, <2>2
<1>12. CASE StartClean \/ EndClean
  <2>1. Now' = Now /\ wire' = wire /\ refused' = refused /\ faults' = faults
    BY <1>12 DEF StartClean, EndClean, Now, counters
  <2>2. ~robot.testMode /\ robot'.testMode = robot.testMode /\ robot'.ui \in {"idle", "cleaning"}
    BY <1>1, <1>12 DEF StartClean, EndClean, Robot
  <2>3. Good(Now, wire, robot')
    BY <1>1, <2>2 DEF Good, Facts
  <2>4. Sound(Now, wire, robot) => Sound(Now, wire, robot')
    BY <2>2 DEF Sound
  <2>5. QED
    BY <1>1, <2>1, <2>3, <2>4
<1>13. CASE UNCHANGED vars
  <2>1. Now' = Now /\ wire' = wire /\ refused' = refused /\ faults' = faults /\ robot' = robot
    BY <1>13 DEF vars, Now
  <2>2. QED
    BY <1>1, <2>1
<1>14. QED
  BY <1>3, <1>4, <1>5, <1>7, <1>8, <1>9, <1>10, <1>11, <1>12, <1>13 DEF Next

LEMMA AlwaysGInv ==
    ASSUME ~ConfigAnytime
    PROVE  Spec => []GInv
<1>1. GInv /\ [Next]_vars => GInv'
  <2> SUFFICES ASSUME GInv, [Next]_vars
               PROVE  GInv'
    OBVIOUS
  <2>1. Types'
    BY NextTypes DEF GInv
  <2>2. /\ Good(Now', wire', robot')
        /\ faults' = 0 /\ ~refused' => Sound(Now', wire', robot')
    BY NextGood
  <2>3. QED
    BY <2>1, <2>2 DEF GInv
<1>2. QED
  BY <1>1, InitGInv, PTL DEF Spec

(* Unless a configuration is applied in a run or an escape, the guard       *)
(* drives the wheels only in TestMode and knows that it does, whatever      *)
(* fails, is refused, or is carried out although its answer was lost.       *)
THEOREM WheelsInTestMode ==
    ASSUME ~ConfigAnytime
    PROVE  Spec => DrivesInTestMode
<1>1. GInv /\ [Next]_vars =>
        [wire' # wire /\ wire' # None /\ wire'.cmd \in {"Reverse", "Turn"}
            => robot.testMode /\ g.entered]_vars
  <2> SUFFICES ASSUME GInv, [Next]_vars, wire' # wire, wire' # None,
                      wire'.cmd \in {"Reverse", "Turn"}
               PROVE  robot.testMode /\ g.entered
    OBVIOUS
  <2>1. SendNext
    BY DEF Next, vars, Tick, HistoryPoll, Done, Fail, ApplyConfig, BumperTest, Elapse, StartClean,
           EndClean
  <2>2. wire = None /\ line # <<>> /\ wire' = Head(line) /\ line' = Tail(line) /\ g' = g
    BY <2>1 DEF SendNext
  <2>3. /\ Now \in State /\ Good(Now, None, robot) /\ Now.line = line /\ Now.g = g
        /\ Now'.line = Tail(line) /\ Now'.g = g
    BY <2>2, NowFields DEF GInv, Types, Now
  <2>4. Now.g.entered /\ robot.testMode
    BY <2>2, <2>3, SendNextGood
  <2>5. QED
    BY <2>3, <2>4
<1>2. QED
  BY <1>1, AlwaysGInv, PTL DEF Spec, DrivesInTestMode

(* Unless a configuration is applied in a run or an escape: at rest during  *)
(* a run in which no command failed or was refused, the robot is neither    *)
(* paused nor in TestMode.                                                  *)
THEOREM EscapeReturnsRobot ==
    ASSUME ~ConfigAnytime
    PROVE  Spec => []EscapeGivesBack
<1>1. GInv => EscapeGivesBack
  <2> SUFFICES ASSUME GInv, g.stage \notin Maneuver, faults = 0, ~refused
               PROVE  ~robot.testMode /\ robot.ui # "paused"
    BY DEF EscapeGivesBack
  <2>1. Now \in State /\ Now.g = g /\ Sound(Now, wire, robot)
    BY NowFields DEF GInv, Types
  <2>2. Now.g.stage \in Own /\ Now.g.stage \notin InMode
    BY <2>1, OutsideManeuver
  <2>3. QED
    BY <2>1, <2>2 DEF Sound
<1>2. QED
  BY <1>1, AlwaysGInv, PTL

(* Unless a configuration is applied in a run or an escape: a run in which  *)
(* no command failed or was refused ends with the clean.  That the history  *)
(* looks at no manoeuvre (cleaning_history.cpp) is not enough: the stage    *)
(* must say so for as long as the robot is paused or in TestMode.           *)
THEOREM RunsEndWithTheirClean ==
    ASSUME ~ConfigAnytime
    PROVE  Spec => RunEndsWithClean
<1>1. GInv /\ [Next]_vars =>
        [g.run /\ ~g.run' /\ faults = 0 /\ ~refused => robot.ui = "idle" /\ ~robot.testMode]_vars
  <2> SUFFICES ASSUME GInv, [Next]_vars, g.run, ~g.run', faults = 0, ~refused
               PROVE  robot.ui = "idle" /\ ~robot.testMode
    OBVIOUS
  <2>1. ~Cleaning(robot) /\ g.stage \notin Maneuver
    <3>1. g.run' = g'.run
      OBVIOUS
    <3>2. QED
      BY <3>1, NextState DEF GInv
  <2>2. Now \in State /\ Now.g = g /\ Sound(Now, wire, robot)
    BY NowFields DEF GInv, Types
  <2>3. Now.g.stage \notin InMode
    BY <2>1, <2>2, OutsideManeuver
  <2>4. ~robot.testMode
    BY <2>2, <2>3 DEF Sound
  <2>5. robot \in Robot
    BY DEF GInv, Types
  <2>6. QED
    BY <2>1, <2>4, <2>5 DEF Cleaning, Robot
<1>2. QED
  BY <1>1, AlwaysGInv, PTL DEF Spec, RunEndsWithClean
=============================================================================
