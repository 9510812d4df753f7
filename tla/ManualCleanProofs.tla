------------------------- MODULE ManualCleanProofs -------------------------
(***************************************************************************)
(* Proofs about manual driving, for every set of moves, contacts and every *)
(* queue limit, and for wheel distances of any size.                       *)
(***************************************************************************)
EXTENDS ManualClean, FiniteSetTheorems, SequenceTheorems, TLAPS

(* A front contact or a front stall blocks every move with a forward        *)
(* component, turns on the spot included (manual_clean_manager.cpp:346).    *)
THEOREM FrontBlocksForward ==
    ASSUME NEW flags, NEW l \in Int, NEW r \in Int,
           flags \cap {"frontLeft", "frontRight", "stallFront"} # {},
           Allowed(flags, l, r)
    PROVE  l <= 0 /\ r <= 0
BY DEF Allowed, Forward

(* Whatever flags are raised, a robot on its wheels can be driven straight  *)
(* back by any distance, at the latest after an attempt to go forward.      *)
THEOREM EscapeExists ==
    ASSUME NEW flags, NEW d \in Nat \ {0}
    PROVE  CanEscape(flags, d)
<1> SUFFICES ASSUME "lifted" \notin flags
             PROVE  \/ Allowed(flags, -d, -d)
                    \/ Allowed(Cleared(flags, d, d), -d, -d)
  BY DEF CanEscape
<1>1. /\ Backward(-d, -d) /\ ~Forward(-d, -d) /\ ~(-d > -d)
      /\ Forward(d, d) /\ ~Backward(d, d)
  BY DEF Forward, Backward
<1>2. CASE "stallRear" \notin flags
  BY <1>1, <1>2 DEF Allowed
<1>3. CASE "stallRear" \in flags
  <2>1. "stallRear" \notin Cleared(flags, d, d)
    BY <1>1 DEF Cleared, Stall
  <2>2. "lifted" \notin Cleared(flags, d, d)
    BY DEF Cleared
  <2>3. QED
    BY <1>1, <2>1, <2>2 DEF Allowed
<1>4. QED
  BY <1>2, <1>3

(* The driver is never trapped, in any state the manager can reach.         *)
THEOREM DriverNeverTrapped == Spec => []NeverTrapped
<1>1. NeverTrapped
  <2>1. CanEscape(m.flags, 1)
    BY EscapeExists
  <2>2. QED
    BY <2>1 DEF NeverTrapped
<1>2. QED
  BY <1>1, PTL

-----------------------------------------------------------------------------
(* The queue.                                                              *)

\* One element more, the others in place.
LEMMA InsertAtShape ==
    ASSUME NEW S, NEW q \in Seq(S), NEW e \in S, NEW n \in 1 .. Len(q) + 1
    PROVE  /\ InsertAt(q, n, e) \in Seq(S)
           /\ Len(InsertAt(q, n, e)) = Len(q) + 1
           /\ \A j \in 1 .. Len(q) + 1 :
                InsertAt(q, n, e)[j] = IF j < n THEN q[j] ELSE IF j = n THEN e ELSE q[j - 1]
<1> DEFINE left == SubSeq(q, 1, n - 1)
           right == SubSeq(q, n, Len(q))
           front == left \o <<e>>
           all == front \o right
<1>1. InsertAt(q, n, e) = all
  BY DEF InsertAt
<1>2. Len(q) \in Nat /\ n \in Nat /\ \A i \in 1 .. Len(q) : q[i] \in S
  OBVIOUS
<1>3. /\ left \in Seq(S) /\ Len(left) = n - 1
      /\ \A i \in 1 .. n - 1 : left[i] = q[i]
  <2>1. /\ left \in Seq(S) /\ Len(left) = IF 1 <= n - 1 THEN n - 1 - 1 + 1 ELSE 0
        /\ \A i \in 1 .. n - 1 - 1 + 1 : left[i] = q[1 + i - 1]
    BY <1>2, SubSeqProperties
  <2>2. QED
    BY <1>2, <2>1
<1>4. /\ right \in Seq(S) /\ Len(right) = Len(q) - n + 1
      /\ \A i \in 1 .. Len(q) - n + 1 : right[i] = q[n + i - 1]
  <2>1. /\ right \in Seq(S) /\ Len(right) = IF n <= Len(q) THEN Len(q) - n + 1 ELSE 0
        /\ \A i \in 1 .. Len(q) - n + 1 : right[i] = q[n + i - 1]
    BY <1>2, SubSeqProperties
  <2>2. QED
    BY <1>2, <2>1
<1> HIDE DEF left, right
<1>5. /\ front \in Seq(S) /\ Len(front) = n
      /\ \A i \in 1 .. n : front[i] = IF i < n THEN q[i] ELSE e
  <2>1. <<e>> \in Seq(S) /\ Len(<<e>>) = 1 /\ <<e>>[1] = e
    OBVIOUS
  <2>2. /\ front \in Seq(S) /\ Len(front) = Len(left) + Len(<<e>>)
        /\ \A i \in 1 .. Len(left) + Len(<<e>>) :
              front[i] = IF i <= Len(left) THEN left[i] ELSE <<e>>[i - Len(left)]
    BY <1>3, <2>1, ConcatProperties
  <2>3. QED
    BY <1>2, <1>3, <2>1, <2>2
<1> HIDE DEF front
<1>6. /\ all \in Seq(S) /\ Len(all) = Len(front) + Len(right)
      /\ \A i \in 1 .. Len(front) + Len(right) :
            all[i] = IF i <= Len(front) THEN front[i] ELSE right[i - Len(front)]
  BY <1>4, <1>5, ConcatProperties
<1> HIDE DEF all
<1>7. \A j \in 1 .. Len(q) + 1 : all[j] = IF j < n THEN q[j] ELSE IF j = n THEN e ELSE q[j - 1]
  <2> SUFFICES ASSUME NEW j \in 1 .. Len(q) + 1
               PROVE  all[j] = IF j < n THEN q[j] ELSE IF j = n THEN e ELSE q[j - 1]
    OBVIOUS
  <2>1. CASE j <= n
    BY <1>2, <1>4, <1>5, <1>6, <2>1
  <2>2. CASE j > n
    <3>1. all[j] = right[j - n]
      BY <1>2, <1>4, <1>5, <1>6, <2>2
    <3>2. right[j - n] = q[j - 1]
      <4>1. j - n \in 1 .. Len(q) - n + 1 /\ n + (j - n) - 1 = j - 1
        BY <1>2, <2>2
      <4>2. QED
        BY <1>4, <4>1
    <3>3. QED
      BY <1>2, <2>2, <3>1, <3>2
  <2>3. QED
    BY <1>2, <2>1, <2>2
<1>8. QED
  BY <1>1, <1>2, <1>4, <1>5, <1>6, <1>7

\* What enqueue() makes of the queue: the entry goes behind all that is as
\* urgent, and in front of the first that is not.
LEMMA InsertPlace ==
    ASSUME NEW q \in Seq(Entry), NEW e \in Entry
    PROVE  /\ Insert(q, e) \in Seq(Entry)
           /\ Len(Insert(q, e)) = Len(q) + 1
           /\ \E n \in 1 .. Len(q) + 1 :
                /\ \A j \in 1 .. Len(q) + 1 :
                     Insert(q, e)[j] = IF j < n THEN q[j] ELSE IF j = n THEN e ELSE q[j - 1]
                /\ \A j \in 1 .. n - 1 : Priority(q[j].cmd) <= Priority(e.cmd)
                /\ n <= Len(q) => ~(Priority(q[n].cmd) <= Priority(e.cmd))
<1> DEFINE l == Len(q)
           passes(j) == Priority(q[j].cmd) <= Priority(e.cmd)
           passed == {i \in 1 .. l : \A j \in 1 .. i : passes(j)}
           c == Cardinality(passed)
<1>1. l \in Nat /\ DOMAIN q = 1 .. l
  OBVIOUS
<1>2. Insert(q, e) = InsertAt(q, c + 1, e)
  BY <1>1 DEF Insert
<1> HIDE DEF passes
<1>3. passed \in SUBSET (1 .. l)
  OBVIOUS
<1>4. \A k \in passed : 1 .. k \subseteq passed
  BY <1>1
<1>5. \A k \in 1 .. l : k \in passed => passes(k)
  BY <1>1
<1>6. \A k \in 1 .. l : k \notin passed => \E j \in 1 .. k : ~passes(j)
  OBVIOUS
<1> HIDE DEF passed, l
<1>7. \A k \in 0 .. l : IsFiniteSet(1 .. k) /\ Cardinality(1 .. k) = k
  <2> SUFFICES ASSUME NEW k \in 0 .. l
               PROVE  IsFiniteSet(1 .. k) /\ Cardinality(1 .. k) = k
    OBVIOUS
  <2>1. k \in Int /\ k >= 0
    BY <1>1
  <2>2. IsFiniteSet(1 .. k) /\ Cardinality(1 .. k) = IF 1 > k THEN 0 ELSE k - 1 + 1
    BY <2>1, FS_Interval
  <2>3. QED
    BY <2>1, <2>2
<1>8. IsFiniteSet(passed) /\ c \in 0 .. l
  <2>1. IsFiniteSet(1 .. l) /\ Cardinality(1 .. l) = l
    BY <1>1, <1>7
  <2>2. IsFiniteSet(passed) /\ c <= l
    BY <1>3, <2>1, FS_Subset
  <2>3. c \in Nat
    BY <2>2, FS_CardinalityType
  <2>4. QED
    BY <1>1, <2>2, <2>3
<1>9. passed = 1 .. c
  <2>1. ASSUME NEW k \in passed
        PROVE  k \in 1 .. c
    <3>1. k \in 1 .. l /\ k \in 0 .. l /\ 1 .. k \in SUBSET passed
      BY <1>1, <1>3, <1>4
    <3>2. k <= c
      BY <1>7, <1>8, <3>1, FS_Subset
    <3>3. QED
      BY <1>1, <1>8, <3>1, <3>2
  <2>2. passed \in SUBSET (1 .. c)
    BY <2>1
  <2>3. IsFiniteSet(1 .. c) /\ Cardinality(1 .. c) = Cardinality(passed)
    BY <1>7, <1>8
  <2>4. QED
    BY <2>2, <2>3, FS_Subset
<1>10. \A j \in 1 .. c : passes(j)
  BY <1>1, <1>3, <1>5, <1>9
<1>11. c + 1 <= l => ~passes(c + 1)
  <2> SUFFICES ASSUME c + 1 <= l, passes(c + 1)
               PROVE  FALSE
    OBVIOUS
  <2>1. c + 1 \in 1 .. l /\ c + 1 \notin 1 .. c
    BY <1>1, <1>8
  <2>2. PICK j \in 1 .. c + 1 : ~passes(j)
    BY <1>6, <1>9, <2>1
  <2>3. j \in 1 .. c
    BY <1>8, <2>2
  <2>4. QED
    BY <1>10, <2>2, <2>3
<1>12. PICK n \in 1 .. Len(q) + 1 : n = c + 1
  BY <1>1, <1>8 DEF l
<1>13. Insert(q, e) = InsertAt(q, n, e)
  BY <1>2, <1>12
<1>14. /\ \A j \in 1 .. n - 1 : Priority(q[j].cmd) <= Priority(e.cmd)
       /\ n <= Len(q) => ~(Priority(q[n].cmd) <= Priority(e.cmd))
  BY <1>8, <1>10, <1>11, <1>12 DEF passes, l
<1> HIDE DEF c
<1>15. /\ InsertAt(q, n, e) \in Seq(Entry)
       /\ Len(InsertAt(q, n, e)) = Len(q) + 1
       /\ \A j \in 1 .. Len(q) + 1 :
            InsertAt(q, n, e)[j] = IF j < n THEN q[j] ELSE IF j = n THEN e ELSE q[j - 1]
  BY InsertAtShape, SMTT(60)
<1>16. QED
  BY <1>13, <1>14, <1>15

LEMMA InsertShape ==
    ASSUME NEW q \in Seq(Entry), NEW e \in Entry
    PROVE  /\ Insert(q, e) \in Seq(Entry)
           /\ Len(Insert(q, e)) = Len(q) + 1
           /\ \E n \in 1 .. Len(q) + 1 : \A j \in 1 .. Len(q) + 1 :
                Insert(q, e)[j] = IF j < n THEN q[j] ELSE IF j = n THEN e ELSE q[j - 1]
BY InsertPlace

-----------------------------------------------------------------------------
(* The inductive invariant.                                                *)

Plain == {"WheelsDisable", "WheelsEnable", "WheelsMove", "VacuumOn", "VacuumOff",
          "GetSensors", "GetMotors"}

\* An entry that belongs to no transition and leaves TestMode and LDS alone.
IsPlain(e) == e.then = "nothing" /\ e.cmd \in Plain

Calm(q) == \A i \in DOMAIN q : IsPlain(q[i])
CalmBut(q, i) == \A j \in DOMAIN q \ {i} : IsPlain(q[j])

Resting(g, r) == ~g.enabling /\ ~g.disabling /\ r.testMode = g.active /\ r.lds = g.active

Entering(g, r) == g.enabling /\ ~g.active /\ ~g.disabling /\ ~r.lds
Leaving(g, r) == ~g.enabling /\ g.active /\ g.disabling /\ r.testMode

\* The step of a transition that is under way, and what it finds.
Stage(e, g, r) ==
    \/ e.then = "enable1" /\ e.cmd = "TestModeOn" /\ Entering(g, r) /\ ~r.testMode
    \/ e.then = "enable2" /\ e.cmd = "LdsOn" /\ Entering(g, r) /\ r.testMode
    \/ e.then = "disable1" /\ e.cmd \in {"WheelsDisable", "WheelsEnable"} /\ Leaving(g, r) /\ r.lds
    \/ e.then = "disable2" /\ e.cmd = "LdsOff" /\ Leaving(g, r) /\ r.lds
    \/ e.then = "disable3" /\ e.cmd = "TestModeOff" /\ Leaving(g, r) /\ ~r.lds

\* No transition is under way, or one is, at one of its steps: on the wire or
\* in the queue.
AtRest == Calm(queue) /\ (wire = None \/ IsPlain(wire)) /\ Resting(m, robot)
OnWire == Calm(queue) /\ wire # None /\ Stage(wire, m, robot)
Waiting ==
    /\ wire = None \/ IsPlain(wire)
    /\ \E i \in DOMAIN queue : CalmBut(queue, i) /\ Stage(queue[i], m, robot)

Phase == AtRest \/ OnWire \/ Waiting

StallsCounted == m.moving => m.stalls < StallCount

MCIInv ==
    /\ TypeOK
    /\ StallsCounted
    /\ lost \/ overdue \/ Phase

LEMMA InitMCIInv == Init => MCIInv
<1> SUFFICES ASSUME Init
             PROVE  MCIInv
  OBVIOUS
<1>1. TypeOK
  <2>1. m \in Manager
    BY DEF Init, Manager, StallCount
  <2>2. robot \in Robot
    BY DEF Init, Robot
  <2>3. queue \in Seq(Entry) /\ Len(queue) <= QueueMax
    BY QueueMaxAssumption DEF Init
  <2>4. calls \in 0 .. MaxCalls /\ wire \in Entry \cup {None}
    BY MaxCallsAssumption DEF Init
  <2>5. QED
    BY <2>1, <2>2, <2>3, <2>4 DEF Init, TypeOK
<1>2. StallsCounted /\ AtRest
  BY DEF Init, StallsCounted, AtRest, Calm, Resting
<1>3. QED
  BY <1>1, <1>2 DEF MCIInv, Phase

-----------------------------------------------------------------------------
(* What a handler does to the manager and the queue.                       *)

State == {s \in [m: Manager, queue: Seq(Entry), lost: BOOLEAN] : Len(s.queue) <= QueueMax}

\* What is added to a queue is plain, what was there stays.
KeepsPlain(q, p) ==
    /\ Calm(q) => Calm(p)
    /\ \A i \in DOMAIN q : CalmBut(q, i) => \E k \in DOMAIN p : p[k] = q[i] /\ CalmBut(p, k)

\* A handler that leaves the transitions alone.
Quiet(s, t) ==
    /\ t \in State
    /\ s.lost => t.lost
    /\ t.lost \/ /\ t.m.active = s.m.active
                 /\ t.m.enabling = s.m.enabling
                 /\ t.m.disabling = s.m.disabling
                 /\ KeepsPlain(s.queue, t.queue)

\* A handler that takes a step of a transition, when no other is under way.
Sends(s, t, cmd, then) ==
    /\ t \in State
    /\ s.lost => t.lost
    /\ t.lost \/ /\ t.m.active = s.m.active
                 /\ t.m.enabling = s.m.enabling
                 /\ t.m.disabling = s.m.disabling
                 /\ Calm(s.queue) => \E k \in DOMAIN t.queue :
                        t.queue[k].cmd = cmd /\ t.queue[k].then = then /\ CalmBut(t.queue, k)

\* StallsCounted is not disturbed.
SameWheels(s, t) == t.m.moving = s.m.moving /\ t.m.stalls = s.m.stalls

LEMMA KeepsPlainTransitive ==
    ASSUME NEW p, NEW q, NEW r, KeepsPlain(p, q), KeepsPlain(q, r)
    PROVE  KeepsPlain(p, r)
<1> SUFFICES ASSUME NEW i \in DOMAIN p, CalmBut(p, i)
             PROVE  \E k \in DOMAIN r : r[k] = p[i] /\ CalmBut(r, k)
  BY DEF KeepsPlain
<1>1. PICK j \in DOMAIN q : q[j] = p[i] /\ CalmBut(q, j)
  BY DEF KeepsPlain
<1>2. QED
  BY <1>1 DEF KeepsPlain

LEMMA QuietTransitive ==
    ASSUME NEW s, NEW t, NEW u, Quiet(s, t), Quiet(t, u)
    PROVE  Quiet(s, u)
BY KeepsPlainTransitive DEF Quiet

LEMMA QuietThenSends ==
    ASSUME NEW s, NEW t, NEW u, NEW cmd, NEW then, Quiet(s, t), Sends(t, u, cmd, then)
    PROVE  Sends(s, u, cmd, then)
BY DEF Quiet, Sends, KeepsPlain

LEMMA InsertPlain ==
    ASSUME NEW q \in Seq(Entry), NEW e \in Entry, IsPlain(e)
    PROVE  KeepsPlain(q, Insert(q, e))
<1> DEFINE p == Insert(q, e)
<1>1. PICK n \in 1 .. Len(q) + 1 : \A j \in 1 .. Len(q) + 1 :
        p[j] = IF j < n THEN q[j] ELSE IF j = n THEN e ELSE q[j - 1]
  BY InsertShape
<1>2. DOMAIN p = 1 .. Len(q) + 1 /\ DOMAIN q = 1 .. Len(q) /\ Len(q) \in Nat
  BY InsertShape
<1> HIDE DEF p
<1>3. ASSUME Calm(q)
      PROVE  Calm(p)
  BY <1>1, <1>2, <1>3 DEF Calm
<1>4. ASSUME NEW i \in DOMAIN q, CalmBut(q, i)
      PROVE  \E k \in DOMAIN p : p[k] = q[i] /\ CalmBut(p, k)
  <2> DEFINE k == IF i < n THEN i ELSE i + 1
  <2>1. k \in DOMAIN p /\ p[k] = q[i]
    BY <1>1, <1>2
  <2>2. ASSUME NEW j \in DOMAIN p \ {k}
        PROVE  IsPlain(p[j])
    <3>1. CASE j < n
      BY <1>1, <1>2, <1>4, <2>2, <3>1 DEF CalmBut
    <3>2. CASE j = n
      BY <1>1, <1>2, <3>2
    <3>3. CASE j > n
      <4>1. j - 1 \in DOMAIN q \ {i} /\ p[j] = q[j - 1]
        BY <1>1, <1>2, <2>2, <3>3
      <4>2. QED
        BY <1>4, <4>1 DEF CalmBut
    <3>4. QED
      BY <1>1, <1>2, <3>1, <3>2, <3>3
  <2>3. QED
    BY <2>1, <2>2 DEF CalmBut
<1>5. QED
  BY <1>3, <1>4 DEF KeepsPlain, p

LEMMA InsertStep ==
    ASSUME NEW q \in Seq(Entry), NEW e \in Entry, Calm(q)
    PROVE  \E k \in DOMAIN Insert(q, e) : Insert(q, e)[k] = e /\ CalmBut(Insert(q, e), k)
<1> DEFINE p == Insert(q, e)
<1>1. PICK n \in 1 .. Len(q) + 1 : \A j \in 1 .. Len(q) + 1 :
        p[j] = IF j < n THEN q[j] ELSE IF j = n THEN e ELSE q[j - 1]
  BY InsertShape
<1>2. DOMAIN p = 1 .. Len(q) + 1 /\ DOMAIN q = 1 .. Len(q) /\ Len(q) \in Nat
  BY InsertShape
<1> HIDE DEF p
<1>3. n \in DOMAIN p /\ p[n] = e
  BY <1>1, <1>2
<1>4. ASSUME NEW j \in DOMAIN p \ {n}
      PROVE  IsPlain(p[j])
  BY <1>1, <1>2, <1>4 DEF Calm
<1>5. QED
  BY <1>3, <1>4 DEF CalmBut, p

-----------------------------------------------------------------------------
(* Sending.                                                                *)

\* What a refusal leaves of the manager.
LEMMA RefusedState ==
    ASSUME NEW s \in State, NEW then
    PROVE  /\ Refused(s, then) \in State /\ Refused(s, then).lost
           /\ SameWheels(s, Refused(s, then))
<1> DEFINE t == Refused(s, then)
<1>1. s.m \in Manager /\ s.queue \in Seq(Entry) /\ Len(s.queue) <= QueueMax
  BY DEF State
<1>2. t.queue = s.queue /\ t.lost = TRUE
  BY DEF Refused, State
<1>3. t.m \in Manager /\ t.m.moving = s.m.moving /\ t.m.stalls = s.m.stalls
  BY <1>1, ZenonT(60) DEF Refused, State, Manager
<1>4. t \in State
  BY <1>1, <1>2, <1>3 DEF Refused, State
<1>5. QED
  BY <1>2, <1>3, <1>4 DEF SameWheels

LEMMA SendMoveState ==
    ASSUME NEW s \in State, NEW cmd \in Cmd, NEW move \in Moves \cup {Stopped}, NEW then \in Then
    PROVE  LET t == SendMove(s, cmd, move, then)
               e == [cmd |-> cmd, move |-> move, then |-> then]
           IN  /\ t \in State
               /\ s.lost => t.lost
               /\ SameWheels(s, t)
               /\ t.lost \/ (t.m = s.m /\ t.queue = Insert(s.queue, e))
<1> DEFINE e == [cmd |-> cmd, move |-> move, then |-> then]
           t == SendMove(s, cmd, move, then)
<1>1. s.m \in Manager /\ s.queue \in Seq(Entry) /\ Len(s.queue) <= QueueMax /\ s.lost \in BOOLEAN
  BY DEF State
<1>2. CASE Full(s)
  BY <1>2, RefusedState DEF SendMove
<1>3. CASE ~Full(s)
  <2>1. e \in Entry
    BY DEF Entry
  <2>2. Insert(s.queue, e) \in Seq(Entry) /\ Len(Insert(s.queue, e)) = Len(s.queue) + 1
    BY <1>1, <2>1, InsertShape
  <2>3. t = [s EXCEPT !.queue = Insert(s.queue, e)]
    BY <1>3 DEF SendMove
  <2> HIDE DEF e, t
  <2>4. t.m = s.m /\ t.queue = Insert(s.queue, e) /\ t.lost = s.lost
    BY <2>3 DEF State
  <2>5. Len(t.queue) <= QueueMax
    BY <1>1, <1>3, <2>2, <2>4, QueueMaxAssumption DEF Full
  <2>6. t \in State
    BY <1>1, <2>2, <2>3, <2>4, <2>5 DEF State
  <2>7. QED
    BY <2>4, <2>6 DEF SameWheels, e, t
<1>4. QED
  BY <1>2, <1>3

\* A command outside the transitions.
LEMMA SendPlain ==
    ASSUME NEW s \in State, NEW cmd \in Plain, NEW move \in Moves \cup {Stopped}
    PROVE  /\ Quiet(s, SendMove(s, cmd, move, "nothing"))
           /\ SameWheels(s, SendMove(s, cmd, move, "nothing"))
<1> DEFINE e == [cmd |-> cmd, move |-> move, then |-> "nothing"]
<1>1. e \in Entry /\ IsPlain(e)
  BY DEF Entry, IsPlain, Plain, Cmd, Then
<1>2. s.queue \in Seq(Entry)
  BY DEF State
<1>3. KeepsPlain(s.queue, Insert(s.queue, e))
  BY <1>1, <1>2, InsertPlain
<1>4. cmd \in Cmd /\ "nothing" \in Then
  BY DEF Plain, Cmd, Then
<1>5. QED
  BY <1>3, <1>4, SendMoveState DEF Quiet

\* A step of a transition.
LEMMA SendStep ==
    ASSUME NEW s \in State, NEW cmd \in Cmd, NEW then \in Then
    PROVE  /\ Sends(s, Send(s, cmd, then), cmd, then)
           /\ SameWheels(s, Send(s, cmd, then))
<1> DEFINE e == [cmd |-> cmd, move |-> Stopped, then |-> then]
<1>1. e \in Entry /\ s.queue \in Seq(Entry)
  BY DEF Entry, State
<1>2. Calm(s.queue) => \E k \in DOMAIN Insert(s.queue, e) :
        Insert(s.queue, e)[k] = e /\ CalmBut(Insert(s.queue, e), k)
  BY <1>1, InsertStep
<1>3. QED
  BY <1>2, SendMoveState DEF Sends, Send

-----------------------------------------------------------------------------
(* The handlers that leave the transitions alone.                          *)

Counted(s) == s.m.moving => s.m.stalls < StallCount

\* An assignment to what the transitions do not read.
LEMMA QuietUpdate ==
    ASSUME NEW s \in State, NEW g \in Manager,
           g.active = s.m.active, g.enabling = s.m.enabling, g.disabling = s.m.disabling
    PROVE  Quiet(s, [s EXCEPT !.m = g]) /\ [s EXCEPT !.m = g].m = g
<1> DEFINE t == [s EXCEPT !.m = g]
<1>1. t \in State /\ t.m = g /\ t.queue = s.queue /\ t.lost = s.lost
  BY DEF State
<1>2. KeepsPlain(s.queue, s.queue)
  BY DEF KeepsPlain
<1>3. QED
  BY <1>1, <1>2 DEF Quiet

LEMMA StopWheelsQuiet ==
    ASSUME NEW s \in State
    PROVE  Quiet(s, StopWheels(s)) /\ Counted(StopWheels(s))
<1> DEFINE g == [s.m EXCEPT !.moving = FALSE]
           u == [s EXCEPT !.m = g]
<1>1. g \in Manager /\ g.active = s.m.active /\ g.enabling = s.m.enabling
      /\ g.disabling = s.m.disabling /\ g.moving = FALSE
  BY DEF State, Manager
<1>2. [s EXCEPT !.m.moving = FALSE] = u
  BY DEF State
<1> HIDE DEF g
<1>3. Quiet(s, u) /\ u.m = g
  BY <1>1, QuietUpdate
<1> HIDE DEF u
<1>4. u \in State
  BY <1>3 DEF Quiet
<1>5. Quiet(u, StopWheels(s)) /\ SameWheels(u, StopWheels(s))
  BY <1>2, <1>4, SendPlain DEF StopWheels, Send, Plain
<1>6. QED
  BY <1>1, <1>3, <1>5, QuietTransitive DEF SameWheels, Counted

LEMMA StopAllMotorsQuiet ==
    ASSUME NEW s \in State
    PROVE  Quiet(s, StopAllMotors(s)) /\ SameWheels(s, StopAllMotors(s))
<1> DEFINE u == Send(s, "VacuumOff", "nothing")
           g == [u.m EXCEPT !.vacuumOn = FALSE]
<1>1. CASE s.m.vacuumOn
  <2>1. Quiet(s, u) /\ SameWheels(s, u)
    BY SendPlain DEF Send, Plain
  <2> HIDE DEF u
  <2>2. u \in State
    BY <2>1 DEF Quiet
  <2>3. g \in Manager /\ g.active = u.m.active /\ g.enabling = u.m.enabling
        /\ g.disabling = u.m.disabling /\ g.moving = u.m.moving /\ g.stalls = u.m.stalls
    BY <2>2 DEF State, Manager
  <2>4. [u EXCEPT !.m.vacuumOn = FALSE] = [u EXCEPT !.m = g]
    BY <2>2 DEF State
  <2> HIDE DEF g
  <2>5. Quiet(u, [u EXCEPT !.m = g]) /\ [u EXCEPT !.m = g].m = g
    BY <2>2, <2>3, QuietUpdate
  <2>6. StopAllMotors(s) = [u EXCEPT !.m = g]
    BY <1>1, <2>4 DEF StopAllMotors, u
  <2>7. QED
    BY <2>1, <2>3, <2>5, <2>6, QuietTransitive DEF SameWheels
<1>2. CASE ~s.m.vacuumOn
  <2>1. StopAllMotors(s) = s
    BY <1>2 DEF StopAllMotors
  <2>2. QED
    BY <2>1 DEF Quiet, SameWheels, KeepsPlain
<1>3. QED
  BY <1>1, <1>2

LEMMA ObservedQuiet ==
    ASSUME NEW s \in State, Counted(s), NEW sensors \in SUBSET Contacts
    PROVE  Quiet(s, Observed(s, sensors)) /\ Counted(Observed(s, sensors))
<1> DEFINE new == sensors \ s.m.flags
           g == [s.m EXCEPT !.flags = (@ \cap Stall) \cup sensors]
           s1 == [s EXCEPT !.m = g]
           s2 == IF "lifted" \in new THEN StopAllMotors(StopWheels(s1)) ELSE s1
<1>1. g \in Manager /\ g.active = s.m.active /\ g.enabling = s.m.enabling
      /\ g.disabling = s.m.disabling /\ g.moving = s.m.moving /\ g.stalls = s.m.stalls
  BY ContactsAssumption DEF State, Manager, Flag
<1>2. Observed(s, sensors) = IF new \cap Bumper # {} THEN StopWheels(s2) ELSE s2
  <2>1. [s EXCEPT !.m.flags = (@ \cap Stall) \cup sensors] = s1
    BY DEF State
  <2>2. QED
    BY <2>1 DEF Observed
<1> HIDE DEF g, new
<1>3. Quiet(s, s1) /\ Counted(s1)
  BY <1>1, QuietUpdate DEF Counted
<1>4. s1 \in State
  BY <1>3 DEF Quiet
<1> HIDE DEF s1
<1>5. Quiet(s1, s2) /\ Counted(s2)
  <2>1. Quiet(s1, StopWheels(s1)) /\ Counted(StopWheels(s1)) /\ StopWheels(s1) \in State
    BY <1>4, StopWheelsQuiet DEF Quiet
  <2>2. Quiet(StopWheels(s1), StopAllMotors(StopWheels(s1))) /\ Counted(StopAllMotors(StopWheels(s1)))
    BY <2>1, StopAllMotorsQuiet DEF SameWheels, Counted
  <2>3. Quiet(s1, s1)
    BY <1>4 DEF Quiet, KeepsPlain
  <2>4. QED
    BY <1>3, <2>1, <2>2, <2>3, QuietTransitive
<1>6. s2 \in State
  BY <1>5 DEF Quiet
<1> HIDE DEF s2
<1>7. Quiet(s2, StopWheels(s2)) /\ Counted(StopWheels(s2))
  BY <1>6, StopWheelsQuiet
<1>8. QED
  BY <1>2, <1>3, <1>5, <1>7, QuietTransitive

LEMMA LoadedQuiet ==
    ASSUME NEW s \in State, Counted(s), s.m.moving, NEW overload \in BOOLEAN
    PROVE  Quiet(s, Loaded(s, overload)) /\ Counted(Loaded(s, overload))
<1> DEFINE l == s.m.last[1]
           r == s.m.last[2]
           raised == {f \in Stall : \/ f = "stallFront" /\ Forward(l, r)
                                    \/ f = "stallRear" /\ Backward(l, r)}
           none == [s.m EXCEPT !.stalls = 0]
           more == [s.m EXCEPT !.stalls = @ + 1]
           stalled == [s.m EXCEPT !.stalls = @ + 1, !.flags = @ \cup raised]
<1>1. s.m \in Manager /\ s.m.stalls \in 0 .. 1
  BY DEF Counted, State, Manager, StallCount
<1>2. CASE ~overload
  <2>1. none \in Manager /\ none.active = s.m.active /\ none.enabling = s.m.enabling
        /\ none.disabling = s.m.disabling /\ none.stalls = 0
    BY <1>1 DEF Manager, StallCount
  <2>2. Loaded(s, overload) = [s EXCEPT !.m = none]
    BY <1>2 DEF Loaded, State
  <2> HIDE DEF none
  <2>3. QED
    BY <2>1, <2>2, QuietUpdate DEF Counted, StallCount
<1>3. CASE overload /\ s.m.stalls + 1 < StallCount
  <2>1. more \in Manager /\ more.active = s.m.active /\ more.enabling = s.m.enabling
        /\ more.disabling = s.m.disabling /\ more.stalls < StallCount
    BY <1>1, <1>3 DEF Manager, StallCount
  <2>2. Loaded(s, overload) = [s EXCEPT !.m = more]
    BY <1>3 DEF Loaded, State
  <2> HIDE DEF more
  <2>3. QED
    BY <2>1, <2>2, QuietUpdate DEF Counted
<1>4. CASE overload /\ ~(s.m.stalls + 1 < StallCount)
  <2>1. raised \subseteq Flag
    BY DEF Flag
  <2> HIDE DEF raised
  <2>2. stalled \in Manager /\ stalled.active = s.m.active /\ stalled.enabling = s.m.enabling
        /\ stalled.disabling = s.m.disabling
    <3>1. s.m.stalls + 1 \in 0 .. StallCount
      BY <1>1 DEF StallCount
    <3> DEFINE n == s.m.stalls + 1
               f == s.m.flags \cup raised
    <3>2. f \in SUBSET Flag
      BY <1>1, <2>1 DEF Manager
    <3>3. stalled = [s.m EXCEPT !.stalls = n, !.flags = f]
      BY <1>1 DEF Manager
    <3> HIDE DEF n, f, stalled
    <3>4. QED
      BY <1>1, <3>1, <3>2, <3>3 DEF Manager, n
  <2>3. Loaded(s, overload) = StopWheels([s EXCEPT !.m = stalled])
    <3>1. [s EXCEPT !.m.stalls = @ + 1, !.m.flags = @ \cup raised] = [s EXCEPT !.m = stalled]
      BY <1>1 DEF State, Manager
    <3>2. QED
      BY <1>4, <3>1 DEF Loaded, raised
  <2> HIDE DEF stalled
  <2> DEFINE u == [s EXCEPT !.m = stalled]
  <2>4. Quiet(s, u)
    BY <2>2, QuietUpdate
  <2>5. u \in State
    BY <2>4 DEF Quiet
  <2> HIDE DEF u
  <2>6. Quiet(u, StopWheels(u)) /\ Counted(StopWheels(u))
    BY <2>5, StopWheelsQuiet
  <2>7. QED
    BY <2>3, <2>4, <2>6, QuietTransitive DEF u
<1>5. QED
  BY <1>2, <1>3, <1>4

-----------------------------------------------------------------------------
(* Completions.                                                            *)

LEMMA CompletedPlain ==
    ASSUME NEW s \in State, Counted(s), NEW e \in Entry, IsPlain(e), NEW ok \in BOOLEAN
    PROVE  Quiet(s, Completed(s, e, ok)) /\ Counted(Completed(s, e, ok))
<1>1. CASE e.cmd = "WheelsDisable"
  <2>1. Completed(s, e, ok) = SendMove(s, "WheelsEnable", Stopped, "nothing")
    BY <1>1 DEF Completed, Send, IsPlain
  <2>2. QED
    BY <2>1, SendPlain DEF SameWheels, Counted, Plain
<1>2. CASE e.cmd # "WheelsDisable"
  <2>1. Completed(s, e, ok) = s
    BY <1>2 DEF Completed, IsPlain
  <2>2. QED
    BY <2>1 DEF Quiet, KeepsPlain
<1>3. QED
  BY <1>1, <1>2

\* The end of a transition.
LEMMA ActivatedState ==
    ASSUME NEW s \in State
    PROVE  LET t == Activated(s)
           IN  /\ t \in State /\ Counted(t)
               /\ t.queue = s.queue /\ t.lost = s.lost
               /\ t.m.active /\ ~t.m.enabling /\ t.m.disabling = s.m.disabling
<1> DEFINE g == [active |-> TRUE, enabling |-> FALSE, disabling |-> s.m.disabling,
                 flags |-> {}, moving |-> FALSE, last |-> s.m.last,
                 stalls |-> 0, vacuumOn |-> FALSE, watchdogStopped |-> FALSE]
<1>1. s.m \in Manager
  BY DEF State
<1>2. g \in Manager /\ g.active /\ ~g.enabling /\ g.disabling = s.m.disabling /\ ~g.moving
  <2>1. s.m.disabling \in BOOLEAN /\ s.m.last \in Moves \cup {Stopped} /\ 0 \in 0 .. StallCount
    BY <1>1 DEF Manager, StallCount
  <2>2. QED
    BY <2>1 DEF Manager
<1>3. Activated(s) = [s EXCEPT !.m = g]
  BY DEF Activated
<1> HIDE DEF g
<1>4. QED
  BY <1>2, <1>3 DEF State, Counted

LEMMA LeftState ==
    ASSUME NEW s \in State, Counted(s)
    PROVE  LET t == [s EXCEPT !.m.active = FALSE, !.m.disabling = FALSE]
           IN  /\ t \in State /\ Counted(t)
               /\ t.queue = s.queue /\ t.lost = s.lost
               /\ ~t.m.active /\ t.m.enabling = s.m.enabling /\ ~t.m.disabling
BY DEF State, Manager, Counted

\* The lambda of stop wheels: the motors go off, then the LDS.
LEMMA MotorsThenLds ==
    ASSUME NEW s \in State
    PROVE  /\ Sends(s, Send(StopAllMotors(s), "LdsOff", "disable2"), "LdsOff", "disable2")
           /\ SameWheels(s, Send(StopAllMotors(s), "LdsOff", "disable2"))
<1> DEFINE u == StopAllMotors(s)
<1>1. Quiet(s, u) /\ SameWheels(s, u) /\ u \in State
  BY StopAllMotorsQuiet DEF Quiet
<1> HIDE DEF u
<1>2. /\ Sends(u, Send(u, "LdsOff", "disable2"), "LdsOff", "disable2")
      /\ SameWheels(u, Send(u, "LdsOff", "disable2"))
  BY <1>1, SendStep DEF Cmd, Then
<1>3. QED
  BY <1>1, <1>2, QuietThenSends DEF SameWheels, u

LEMMA CompletedState ==
    ASSUME NEW s \in State, Counted(s), NEW e \in Entry, NEW ok \in BOOLEAN
    PROVE  LET t == Completed(s, e, ok)
           IN  t \in State /\ (s.lost => t.lost) /\ Counted(t)
<1> DEFINE t == Completed(s, e, ok)
           Fine(u) == u \in State /\ (s.lost => u.lost) /\ Counted(u)
<1>1. \A cmd \in Cmd, then \in Then : Fine(Send(s, cmd, then))
  BY SendStep DEF Sends, SameWheels, Counted
<1>2. CASE e.cmd = "WheelsDisable"
  <2>1. t = Send(s, "WheelsEnable", e.then)
    BY <1>2 DEF Completed
  <2>2. QED
    BY <1>1, <2>1 DEF Entry, Cmd
<1> SUFFICES ASSUME e.cmd # "WheelsDisable"
             PROVE  Fine(t)
  BY <1>2
<1> DEFINE given == [s EXCEPT !.m.enabling = FALSE]
<1>3. Fine(given)
  BY DEF State, Manager, Counted
<1>4. CASE e.then = "enable1"
  <2>1. t = IF ok THEN Send(s, "LdsOn", "enable2") ELSE given
    BY <1>4 DEF Completed
  <2>2. QED
    BY <1>1, <1>3, <2>1 DEF Cmd, Then
<1>5. CASE e.then = "enable2" /\ ok
  <2>1. t = Activated(s)
    BY <1>5 DEF Completed
  <2>2. QED
    BY <2>1, ActivatedState
<1>6. CASE e.then = "enable2" /\ ~ok
  <2>1. t = Send(given, "TestModeOff", "nothing")
    BY <1>6 DEF Completed
  <2> HIDE DEF given
  <2>2. Sends(given, t, "TestModeOff", "nothing") /\ SameWheels(given, t)
    BY <1>3, <2>1, SendStep DEF Cmd, Then
  <2>3. QED
    BY <1>3, <2>2 DEF Sends, SameWheels, Counted
<1>7. CASE e.then = "disable1"
  <2>1. t = Send(StopAllMotors(s), "LdsOff", "disable2")
    BY <1>7 DEF Completed
  <2>2. QED
    BY <2>1, MotorsThenLds DEF Sends, SameWheels, Counted
<1>8. CASE e.then = "disable2"
  <2>1. t = Send(s, "TestModeOff", "disable3")
    BY <1>8 DEF Completed
  <2>2. QED
    BY <1>1, <2>1 DEF Cmd, Then
<1>9. CASE e.then = "disable3"
  <2>1. t = [s EXCEPT !.m.active = FALSE, !.m.disabling = FALSE]
    BY <1>9 DEF Completed
  <2>2. QED
    BY <2>1, LeftState
<1>10. CASE e.then = "nothing"
  <2>1. t = s
    BY <1>10 DEF Completed
  <2>2. QED
    BY <2>1
<1>11. e.then \in Then
  BY DEF Entry
<1>12. QED
  BY <1>4, <1>5, <1>6, <1>7, <1>8, <1>9, <1>10, <1>11 DEF Then

-----------------------------------------------------------------------------
(* What a step must show.                                                  *)

\* The variables that no lemma below is about stay within their types.
RestOK ==
    /\ robot' \in Robot
    /\ silent' \in BOOLEAN
    /\ calls' \in 0 .. MaxCalls
    /\ driven' \in BOOLEAN
    /\ overdue' = overdue

\* The wire keeps a command of no transition, or lets it go.
WireFree == wire' = None \/ wire' = wire

SameModes == robot'.testMode = robot.testMode /\ robot'.lds = robot.lds

LEMMA NowState == ASSUME MCIInv PROVE Now \in State /\ Counted(Now)
BY DEF MCIInv, TypeOK, State, Now, StallsCounted, Counted

LEMMA TypesAfter ==
    ASSUME MCIInv, NEW s \in State, Counted(s), Becomes(s), RestOK, WireFree
    PROVE  TypeOK' /\ StallsCounted'
<1>1. m' \in Manager /\ queue' \in Seq(Entry) /\ Len(queue') <= QueueMax /\ lost' \in BOOLEAN
  BY DEF State, Becomes
<1>2. wire' \in Entry \cup {None} /\ overdue' \in BOOLEAN
  BY DEF MCIInv, TypeOK, WireFree, RestOK
<1>3. StallsCounted'
  BY DEF StallsCounted, Counted, Becomes
<1>4. QED
  BY <1>1, <1>2, <1>3 DEF TypeOK, RestOK

\* A handler that leaves the transitions alone, while no step of one is
\* taken off the wire.
LEMMA QuietInv ==
    ASSUME MCIInv, NEW s, Quiet(Now, s), Counted(s), Becomes(s), RestOK, SameModes,
           \/ wire' = wire
           \/ wire' = None /\ (Phase => IsPlain(wire))
    PROVE  MCIInv'
<1>1. s \in State /\ WireFree
  BY DEF Quiet, WireFree
<1>2. TypeOK' /\ StallsCounted'
  BY <1>1, TypesAfter
<1>3. CASE s.lost \/ lost \/ overdue
  <2>1. lost' \/ overdue'
    BY <1>3 DEF Becomes, RestOK, Quiet, Now
  <2>2. QED
    BY <1>2, <2>1 DEF MCIInv
<1>4. CASE ~s.lost /\ Phase
  <2> SUFFICES Phase'
    BY <1>2 DEF MCIInv
  <2>1. /\ m'.active = m.active /\ m'.enabling = m.enabling /\ m'.disabling = m.disabling
        /\ KeepsPlain(queue, queue')
    BY <1>4 DEF Quiet, Now, Becomes
  <2>2. ASSUME NEW e
        PROVE  Stage(e, m', robot') <=> Stage(e, m, robot)
    BY <2>1 DEF Stage, Entering, Leaving, SameModes
  <2>3. CASE AtRest
    <3>1. Calm(queue') /\ Resting(m', robot')
      BY <2>1, <2>3 DEF AtRest, KeepsPlain, Resting, SameModes
    <3>2. wire' = None \/ IsPlain(wire')
      BY <2>3 DEF AtRest
    <3>3. QED
      BY <3>1, <3>2 DEF AtRest, Phase
  <2>4. CASE OnWire
    <3>1. ~IsPlain(wire)
      BY <2>4 DEF OnWire, Stage, IsPlain
    <3>2. wire' = wire
      BY <1>4, <3>1
    <3>3. Calm(queue') /\ Stage(wire', m', robot') /\ wire' # None
      BY <2>1, <2>2, <2>4, <3>2 DEF OnWire, KeepsPlain
    <3>4. QED
      BY <3>3 DEF OnWire, Phase
  <2>5. CASE Waiting
    <3>1. PICK i \in DOMAIN queue : CalmBut(queue, i) /\ Stage(queue[i], m, robot)
      BY <2>5 DEF Waiting
    <3>2. PICK k \in DOMAIN queue' : queue'[k] = queue[i] /\ CalmBut(queue', k)
      BY <2>1, <3>1 DEF KeepsPlain
    <3>3. Stage(queue'[k], m', robot')
      BY <2>2, <3>1, <3>2
    <3>4. wire' = None \/ IsPlain(wire')
      BY <2>5 DEF Waiting
    <3>5. QED
      BY <3>2, <3>3, <3>4 DEF Waiting, Phase
  <2>6. QED
    BY <1>4, <2>3, <2>4, <2>5 DEF Phase
<1>5. QED
  BY <1>3, <1>4 DEF MCIInv

\* A handler that sends a step of a transition.
LEMMA StepInv ==
    ASSUME MCIInv, NEW u, NEW s, NEW cmd, NEW then,
           Sends(u, s, cmd, then), Counted(s), Becomes(s), RestOK, WireFree,
           u.queue = queue, lost => u.lost,
           ~lost /\ ~overdue =>
               /\ Calm(queue)
               /\ wire' = None \/ IsPlain(wire')
               /\ \A e : e.cmd = cmd /\ e.then = then => Stage(e, u.m, robot')
    PROVE  MCIInv'
<1>1. s \in State
  BY DEF Sends
<1>2. TypeOK' /\ StallsCounted'
  BY <1>1, TypesAfter
<1>3. CASE s.lost \/ lost \/ overdue
  <2>1. lost' \/ overdue'
    BY <1>3 DEF Becomes, RestOK, Sends
  <2>2. QED
    BY <1>2, <2>1 DEF MCIInv
<1>4. CASE ~s.lost /\ ~lost /\ ~overdue
  <2>1. m'.active = u.m.active /\ m'.enabling = u.m.enabling /\ m'.disabling = u.m.disabling
    BY <1>4 DEF Sends, Becomes
  <2>2. PICK k \in DOMAIN queue' :
          queue'[k].cmd = cmd /\ queue'[k].then = then /\ CalmBut(queue', k)
    BY <1>4 DEF Sends, Becomes
  <2>3. Stage(queue'[k], u.m, robot')
    BY <1>4, <2>2
  <2>4. Stage(queue'[k], m', robot')
    BY <2>1, <2>3 DEF Stage, Entering, Leaving
  <2>5. wire' = None \/ IsPlain(wire')
    BY <1>4
  <2>6. Phase'
    BY <2>2, <2>4, <2>5 DEF Phase, Waiting
  <2>7. QED
    BY <1>2, <2>6 DEF MCIInv
<1>5. QED
  BY <1>3, <1>4

\* A transition that has ended.
LEMMA RestInv ==
    ASSUME MCIInv, NEW s \in State, Counted(s), Becomes(s), RestOK, WireFree,
           ~lost /\ ~overdue /\ ~s.lost =>
               Calm(s.queue) /\ wire' = None /\ Resting(s.m, robot'),
           lost => s.lost
    PROVE  MCIInv'
<1>1. TypeOK' /\ StallsCounted'
  BY TypesAfter
<1>2. lost' \/ overdue' \/ AtRest'
  BY DEF AtRest, Becomes, RestOK
<1>3. QED
  BY <1>1, <1>2 DEF MCIInv, Phase

-----------------------------------------------------------------------------
(* Each step.                                                              *)

LEMMA CallRest ==
    ASSUME MCIInv, Call, driven' \in BOOLEAN
    PROVE  RestOK /\ SameModes /\ wire' = wire
<1>1. calls' \in 0 .. MaxCalls
  BY MaxCallsAssumption DEF MCIInv, TypeOK, Call
<1>2. QED
  BY <1>1 DEF MCIInv, TypeOK, Call, RestOK, SameModes

LEMMA EnableInv == ASSUME MCIInv, Enable PROVE MCIInv'
<1> DEFINE g == [m EXCEPT !.enabling = TRUE]
           u == [Now EXCEPT !.m = g]
           s == Send(u, "TestModeOn", "enable1")
<1>1. m \in Manager /\ driven' \in BOOLEAN
  BY DEF MCIInv, TypeOK, Enable
<1>2. RestOK /\ SameModes /\ wire' = wire
  BY <1>1, CallRest DEF Enable
<1>3. g \in Manager /\ g.enabling /\ g.active = m.active /\ g.disabling = m.disabling
      /\ g.moving = m.moving /\ g.stalls = m.stalls
  BY <1>1 DEF Manager
<1>4. Becomes(s)
  BY DEF Enable, Now
<1> HIDE DEF g
<1>5. u \in State /\ u.m = g /\ u.queue = queue /\ u.lost = lost
  BY <1>3, NowState DEF State, Now
<1>6. Counted(u)
  BY <1>3, <1>5, NowState DEF Counted, Now
<1> HIDE DEF u
<1>7. Sends(u, s, "TestModeOn", "enable1") /\ SameWheels(u, s)
  BY <1>5, SendStep DEF Cmd, Then
<1> HIDE DEF s
<1>8. Counted(s)
  BY <1>6, <1>7 DEF Counted, SameWheels
<1>9. ASSUME ~lost, ~overdue
      PROVE  /\ Calm(queue)
             /\ wire' = None \/ IsPlain(wire')
             /\ \A e : e.cmd = "TestModeOn" /\ e.then = "enable1" => Stage(e, u.m, robot')
  <2>1. AtRest
    BY <1>9 DEF MCIInv, Phase, OnWire, Waiting, Stage, Entering, Leaving, Enable
  <2>2. Entering(u.m, robot') /\ ~robot'.testMode
    BY <1>2, <1>3, <1>5, <2>1 DEF AtRest, Resting, Entering, SameModes, Enable
  <2>3. QED
    BY <1>2, <2>1, <2>2 DEF AtRest, Stage
<1>10. QED
  BY <1>2, <1>4, <1>5, <1>7, <1>8, <1>9, StepInv DEF WireFree

LEMMA DisableInv == ASSUME MCIInv, Disable PROVE MCIInv'
<1> DEFINE g == [m EXCEPT !.disabling = TRUE]
           u == [Now EXCEPT !.m = g]
           s == Send(u, "WheelsDisable", "disable1")
<1>1. m \in Manager /\ driven' \in BOOLEAN
  BY DEF MCIInv, TypeOK, Disable
<1>2. RestOK /\ SameModes /\ wire' = wire
  BY <1>1, CallRest DEF Disable
<1>3. g \in Manager /\ g.disabling /\ g.active = m.active /\ g.enabling = m.enabling
      /\ g.moving = m.moving /\ g.stalls = m.stalls
  BY <1>1 DEF Manager
<1>4. Becomes(s)
  BY DEF Disable, Now
<1> HIDE DEF g
<1>5. u \in State /\ u.m = g /\ u.queue = queue /\ u.lost = lost
  BY <1>3, NowState DEF State, Now
<1>6. Counted(u)
  BY <1>3, <1>5, NowState DEF Counted, Now
<1> HIDE DEF u
<1>7. Sends(u, s, "WheelsDisable", "disable1") /\ SameWheels(u, s)
  BY <1>5, SendStep DEF Cmd, Then
<1> HIDE DEF s
<1>8. Counted(s)
  BY <1>6, <1>7 DEF Counted, SameWheels
<1>9. ASSUME ~lost, ~overdue
      PROVE  /\ Calm(queue)
             /\ wire' = None \/ IsPlain(wire')
             /\ \A e : e.cmd = "WheelsDisable" /\ e.then = "disable1" => Stage(e, u.m, robot')
  <2>1. AtRest
    BY <1>9 DEF MCIInv, Phase, OnWire, Waiting, Stage, Entering, Leaving, Disable
  <2>2. Leaving(u.m, robot') /\ robot'.lds
    BY <1>2, <1>3, <1>5, <2>1 DEF AtRest, Resting, Leaving, SameModes, Disable
  <2>3. QED
    BY <1>2, <2>1, <2>2 DEF AtRest, Stage
<1>10. QED
  BY <1>2, <1>4, <1>5, <1>7, <1>8, <1>9, StepInv DEF WireFree

LEMMA StopInv == ASSUME MCIInv, Stop PROVE MCIInv'
<1>1. RestOK /\ SameModes /\ wire' = wire
  BY CallRest DEF MCIInv, TypeOK, Stop
<1>2. Quiet(Now, StopWheels(Now)) /\ Counted(StopWheels(Now))
  BY NowState, StopWheelsQuiet
<1>3. QED
  BY <1>1, <1>2, QuietInv DEF Stop

LEMMA SetMotorsInv == ASSUME MCIInv, SetMotors PROVE MCIInv'
<1> DEFINE cmd == IF m.vacuumOn THEN "VacuumOff" ELSE "VacuumOn"
           u == Send(Now, cmd, "nothing")
           g == [u.m EXCEPT !.vacuumOn = ~@]
           s == [u EXCEPT !.m = g]
<1>1. RestOK /\ SameModes /\ wire' = wire
  BY CallRest DEF MCIInv, TypeOK, SetMotors
<1>2. Quiet(Now, u) /\ SameWheels(Now, u)
  BY NowState, SendPlain DEF Send, Plain
<1>3. Becomes([u EXCEPT !.m.vacuumOn = ~@])
  BY DEF SetMotors
<1> HIDE DEF u
<1>4. u \in State
  BY <1>2 DEF Quiet
<1>5. g \in Manager /\ g.active = u.m.active /\ g.enabling = u.m.enabling
      /\ g.disabling = u.m.disabling /\ g.moving = u.m.moving /\ g.stalls = u.m.stalls
  BY <1>4 DEF State, Manager
<1>6. Becomes(s)
  BY <1>3, <1>4 DEF State
<1> HIDE DEF g
<1>7. Quiet(u, s) /\ s.m = g
  BY <1>4, <1>5, QuietUpdate
<1>8. Quiet(Now, s) /\ Counted(s)
  BY <1>2, <1>5, <1>7, NowState, QuietTransitive DEF SameWheels, Counted
<1> HIDE DEF s
<1>9. QED
  BY <1>1, <1>6, <1>8, QuietInv

LEMMA MoveInv ==
    ASSUME MCIInv, NEW mv \in Moves, Move(mv[1], mv[2])
    PROVE  MCIInv'
<1> DEFINE l == mv[1]
           r == mv[2]
           f == Cleared(m.flags, l, r)
           h == [m EXCEPT !.flags = f]
           g == [h EXCEPT !.last = <<l, r>>, !.moving = TRUE,
                          !.stalls = IF m.moving THEN m.stalls ELSE 0]
<1>1. m \in Manager /\ driven \in BOOLEAN /\ mv = <<l, r>>
  BY MovesAssumption DEF MCIInv, TypeOK
<1>2. f \in SUBSET Flag
  BY <1>1 DEF Cleared, Manager
<1> HIDE DEF f
<1>3. h \in Manager /\ h.active = m.active /\ h.enabling = m.enabling
      /\ h.disabling = m.disabling /\ h.moving = m.moving /\ h.stalls = m.stalls
  BY <1>1, <1>2 DEF Manager
<1>4. [Now EXCEPT !.m.flags = f] = [Now EXCEPT !.m = h] /\ [Now EXCEPT !.m = h].m = h
  BY DEF Now
<1> HIDE DEF h, l, r
<1>5. CASE Allowed(m.flags, l, r)
  <2> DEFINE u == [Now EXCEPT !.m = g]
             s == SendMove(u, "WheelsMove", <<l, r>>, "nothing")
  <2>1. g \in Manager /\ g.active = h.active /\ g.enabling = h.enabling
        /\ g.disabling = h.disabling /\ g.stalls < StallCount
    <3>1. (IF m.moving THEN h.stalls ELSE 0) \in 0 .. StallCount
          /\ (IF m.moving THEN h.stalls ELSE 0) < StallCount
      BY <1>1, <1>3 DEF MCIInv, StallsCounted, StallCount, Manager
    <3>2. <<l, r>> \in Moves \cup {Stopped}
      BY <1>1
    <3>3. QED
      BY <1>3, <3>1, <3>2 DEF Manager
  <2>2. Becomes(s) /\ driven' \in BOOLEAN
    <3>1. [[Now EXCEPT !.m.flags = f] EXCEPT
               !.m = [@ EXCEPT !.last = <<l, r>>, !.moving = TRUE,
                               !.stalls = IF m.moving THEN m.stalls ELSE 0]] = u
      BY <1>4 DEF Now
    <3>2. QED
      BY <1>1, <1>5, <3>1 DEF Move, l, r, f, Backward, Forward
  <2>3. RestOK /\ SameModes /\ wire' = wire
    BY <2>2, CallRest DEF Move
  <2> HIDE DEF g
  <2>4. Quiet(Now, u) /\ u.m = g
    BY <1>3, <2>1, NowState, QuietUpdate DEF Now
  <2> HIDE DEF u
  <2>5. u \in State /\ Counted(u)
    BY <2>1, <2>4 DEF Quiet, Counted
  <2>6. Quiet(u, s) /\ SameWheels(u, s)
    BY <1>1, <2>5, SendPlain DEF Plain
  <2> HIDE DEF s
  <2>7. Quiet(Now, s) /\ Counted(s)
    BY <2>4, <2>5, <2>6, QuietTransitive DEF SameWheels, Counted
  <2>8. QED
    BY <2>2, <2>3, <2>7, QuietInv
<1>6. CASE ~Allowed(m.flags, l, r)
  <2> DEFINE u == [Now EXCEPT !.m = h]
             s == StopWheels(u)
  <2>1. Becomes(s) /\ driven' \in BOOLEAN
    BY <1>1, <1>4, <1>6 DEF Move, l, r, f
  <2>2. RestOK /\ SameModes /\ wire' = wire
    BY <2>1, CallRest DEF Move
  <2>3. Quiet(Now, u) /\ u.m = h
    BY <1>3, NowState, QuietUpdate DEF Now
  <2> HIDE DEF u
  <2>4. Quiet(u, s) /\ Counted(s)
    BY <2>3, StopWheelsQuiet DEF Quiet
  <2> HIDE DEF s
  <2>5. QED
    BY <2>1, <2>2, <2>3, <2>4, QuietTransitive, QuietInv
<1>7. QED
  BY <1>5, <1>6

LEMMA EnableTimeoutInv == ASSUME MCIInv, EnableTimeout PROVE MCIInv'
<1>1. m' \in Manager /\ m'.moving = m.moving /\ m'.stalls = m.stalls
  BY DEF MCIInv, TypeOK, EnableTimeout, Manager
<1>2. TypeOK' /\ StallsCounted' /\ overdue'
  BY <1>1 DEF MCIInv, TypeOK, EnableTimeout, StallsCounted
<1>3. QED
  BY <1>2 DEF MCIInv

LEMMA PollInv ==
    ASSUME MCIInv, NEW cmd \in {"GetSensors", "GetMotors"}, Poll(cmd)
    PROVE  MCIInv'
<1>1. RestOK /\ SameModes /\ wire' = wire
  BY DEF MCIInv, TypeOK, Poll, RestOK, SameModes
<1> DEFINE s == Send(Now, cmd, "nothing")
<1>2. Quiet(Now, s) /\ SameWheels(Now, s)
  BY NowState, SendPlain DEF Send, Plain
<1>3. Becomes(s)
  BY DEF Poll
<1> HIDE DEF s
<1>4. QED
  BY <1>1, <1>2, <1>3, NowState, QuietInv DEF SameWheels, Counted

LEMMA WatchdogInv == ASSUME MCIInv, Watchdog PROVE MCIInv'
<1> DEFINE g == [m EXCEPT !.watchdogStopped = TRUE]
           u == [Now EXCEPT !.m = g]
           s == StopWheels(u)
<1>1. RestOK /\ SameModes /\ wire' = wire /\ m \in Manager
  BY DEF MCIInv, TypeOK, Watchdog, RestOK, SameModes
<1>2. g \in Manager /\ g.active = m.active /\ g.enabling = m.enabling
      /\ g.disabling = m.disabling
  BY <1>1 DEF Manager
<1>3. Becomes(s)
  BY DEF Watchdog, Now
<1> HIDE DEF g
<1>4. Quiet(Now, u)
  BY <1>2, NowState, QuietUpdate DEF Now
<1> HIDE DEF u
<1>5. Quiet(u, s) /\ Counted(s)
  BY <1>4, StopWheelsQuiet DEF Quiet
<1> HIDE DEF s
<1>6. QED
  BY <1>1, <1>3, <1>4, <1>5, QuietTransitive, QuietInv

\* The head of the queue goes on the wire.
LEMMA SendNextInv == ASSUME MCIInv, SendNext PROVE MCIInv'
<1>1. /\ queue \in Seq(Entry) /\ queue # <<>> /\ Len(queue) <= QueueMax
      /\ wire = None /\ wire' = Head(queue) /\ queue' = Tail(queue)
      /\ m' = m /\ robot' = robot /\ lost' = lost /\ overdue' = overdue
  BY DEF MCIInv, TypeOK, SendNext
<1>2. /\ Len(queue) \in Nat \ {0} /\ DOMAIN queue = 1 .. Len(queue)
      /\ Head(queue) = queue[1] /\ Head(queue) \in Entry
      /\ Tail(queue) \in Seq(Entry) /\ DOMAIN Tail(queue) = 1 .. Len(queue) - 1
      /\ Len(Tail(queue)) = Len(queue) - 1
      /\ \A i \in 1 .. Len(queue) - 1 : Tail(queue)[i] = queue[i + 1]
  BY <1>1, QueueMaxAssumption
<1>3. TypeOK'
  <2>1. Len(queue') <= QueueMax
    BY <1>1, <1>2, QueueMaxAssumption
  <2>2. QED
    BY <1>1, <1>2, <2>1 DEF MCIInv, TypeOK, SendNext
<1>4. StallsCounted'
  BY <1>1 DEF MCIInv, StallsCounted
<1>5. wire' # None
  BY <1>1, <1>2, NoneAssumption
<1>6. CASE AtRest
  <2>1. IsPlain(wire')
    BY <1>1, <1>2, <1>6 DEF AtRest, Calm
  <2>2. Calm(queue')
    BY <1>1, <1>2, <1>6 DEF AtRest, Calm
  <2>3. Resting(m', robot')
    BY <1>1, <1>6 DEF AtRest
  <2>4. QED
    BY <1>3, <1>4, <2>1, <2>2, <2>3 DEF MCIInv, Phase, AtRest
<1>7. CASE Waiting
  <2>1. PICK i \in DOMAIN queue : CalmBut(queue, i) /\ Stage(queue[i], m, robot)
    BY <1>7 DEF Waiting
  <2>2. CASE i = 1
    <3>1. Stage(wire', m', robot')
      BY <1>1, <1>2, <2>1, <2>2
    <3>2. Calm(queue')
      BY <1>1, <1>2, <2>1, <2>2 DEF Calm, CalmBut
    <3>3. QED
      BY <1>3, <1>4, <1>5, <3>1, <3>2 DEF MCIInv, Phase, OnWire
  <2>3. CASE i # 1
    <3>1. IsPlain(wire')
      BY <1>1, <1>2, <2>1, <2>3 DEF CalmBut
    <3>2. i - 1 \in DOMAIN queue' /\ queue'[i - 1] = queue[i]
      BY <1>1, <1>2, <2>1, <2>3
    <3>3. CalmBut(queue', i - 1)
      <4> SUFFICES ASSUME NEW j \in DOMAIN queue' \ {i - 1}
                   PROVE  IsPlain(queue'[j])
        BY DEF CalmBut
      <4>1. j + 1 \in DOMAIN queue \ {i} /\ queue'[j] = queue[j + 1]
        BY <1>1, <1>2, <2>1
      <4>2. QED
        BY <2>1, <4>1 DEF CalmBut
    <3>4. Stage(queue'[i - 1], m', robot')
      BY <1>1, <2>1, <3>2
    <3>5. Waiting'
      BY <3>1, <3>2, <3>3, <3>4 DEF Waiting
    <3>6. QED
      BY <1>3, <1>4, <3>5 DEF MCIInv, Phase
  <2>4. QED
    BY <2>2, <2>3
<1>8. ~OnWire
  BY <1>1 DEF OnWire
<1>9. CASE lost \/ overdue
  BY <1>1, <1>3, <1>4, <1>9 DEF MCIInv
<1>10. QED
  BY <1>6, <1>7, <1>8, <1>9 DEF MCIInv, Phase

LEMMA DoesRobot ==
    ASSUME robot \in Robot, NEW e \in Entry
    PROVE  /\ Does(e) \in Robot
           /\ Does(e).testMode = IF e.cmd = "TestModeOn" THEN TRUE
                                 ELSE IF e.cmd = "TestModeOff" THEN FALSE ELSE robot.testMode
           /\ Does(e).lds = IF e.cmd = "LdsOn" THEN TRUE
                            ELSE IF e.cmd = "LdsOff" THEN FALSE ELSE robot.lds
BY DEF Robot, Entry, Does

LEMMA FailInv == ASSUME MCIInv, Fail PROVE MCIInv'
<1> DEFINE u == [Now EXCEPT !.lost = TRUE]
           s == Completed(u, wire, FALSE)
<1>1. wire \in Entry /\ robot \in Robot
  BY DEF MCIInv, TypeOK, Fail
<1>2. RestOK /\ WireFree
  BY <1>1, DoesRobot DEF MCIInv, TypeOK, Fail, RestOK, WireFree
<1>3. u \in State /\ Counted(u) /\ u.lost
  BY NowState DEF Now, State, Counted
<1>4. Becomes(s)
  BY DEF Fail
<1> HIDE DEF u
<1>5. s \in State /\ Counted(s) /\ s.lost
  BY <1>1, <1>3, CompletedState
<1> HIDE DEF s
<1>6. QED
  BY <1>2, <1>4, <1>5, RestInv

LEMMA SensorsReadInv ==
    ASSUME MCIInv, NEW sensors \in SUBSET Contacts, SensorsRead(sensors)
    PROVE  MCIInv'
<1>1. RestOK /\ SameModes /\ wire' = None
  BY DEF MCIInv, TypeOK, SensorsRead, RestOK, SameModes
<1>2. Phase => IsPlain(wire)
  BY DEF SensorsRead, Phase, AtRest, OnWire, Waiting, Stage
<1> DEFINE s == IF m.active THEN Observed(Now, sensors) ELSE Now
<1>3. Becomes(s)
  BY DEF SensorsRead, Becomes, Now
<1>4. Quiet(Now, s) /\ Counted(s)
  <2>1. Quiet(Now, Now)
    BY NowState DEF Quiet, KeepsPlain
  <2>2. QED
    BY <2>1, NowState, ObservedQuiet
<1> HIDE DEF s
<1>5. QED
  BY <1>1, <1>2, <1>3, <1>4, QuietInv

LEMMA LoadReadInv ==
    ASSUME MCIInv, NEW overload \in BOOLEAN, LoadRead(overload)
    PROVE  MCIInv'
<1>1. RestOK /\ SameModes /\ wire' = None
  BY DEF MCIInv, TypeOK, LoadRead, RestOK, SameModes
<1>2. Phase => IsPlain(wire)
  BY DEF LoadRead, Phase, AtRest, OnWire, Waiting, Stage
<1> DEFINE s == IF m.active /\ m.moving THEN Loaded(Now, overload) ELSE Now
<1>3. Becomes(s)
  BY DEF LoadRead, Becomes, Now
<1>4. Quiet(Now, s) /\ Counted(s)
  <2>1. Quiet(Now, Now)
    BY NowState DEF Quiet, KeepsPlain
  <2>2. m.moving => Now.m.moving
    BY DEF Now
  <2>3. QED
    BY <2>1, <2>2, NowState, LoadedQuiet
<1> HIDE DEF s
<1>5. QED
  BY <1>1, <1>2, <1>3, <1>4, QuietInv

\* The wheels and the client's silence are no business of the transitions.
LEMMA WorldInv == ASSUME MCIInv, Arrive \/ FallSilent PROVE MCIInv'
<1>1. Becomes(Now) /\ wire' = wire
  BY DEF Arrive, FallSilent, Becomes, Now
<1>2. Quiet(Now, Now)
  BY NowState DEF Quiet, KeepsPlain
<1>3. RestOK /\ SameModes
  <2>1. robot' \in Robot /\ SameModes
    BY DEF MCIInv, TypeOK, Arrive, FallSilent, Robot, SameModes
  <2>2. QED
    BY <2>1 DEF MCIInv, TypeOK, Arrive, FallSilent, RestOK
<1>4. QED
  BY <1>1, <1>2, <1>3, NowState, QuietInv

\* A command is answered: the robot has carried it out, and its lambda takes
\* the transition a step further.
LEMMA DoneInv == ASSUME MCIInv, Done PROVE MCIInv'
<1> DEFINE s == Completed(Now, wire, TRUE)
<1>1. wire \in Entry /\ robot \in Robot /\ wire' = None /\ overdue' = overdue
  BY DEF MCIInv, TypeOK, Done
<1>2. /\ robot' \in Robot
      /\ robot'.testMode = IF wire.cmd = "TestModeOn" THEN TRUE
                           ELSE IF wire.cmd = "TestModeOff" THEN FALSE ELSE robot.testMode
      /\ robot'.lds = IF wire.cmd = "LdsOn" THEN TRUE
                      ELSE IF wire.cmd = "LdsOff" THEN FALSE ELSE robot.lds
  BY <1>1, DoesRobot DEF Done
<1>3. RestOK /\ WireFree
  BY <1>1, <1>2 DEF MCIInv, TypeOK, Done, RestOK, WireFree
<1>4. Becomes(s)
  BY DEF Done
<1> HIDE DEF s
<1>5. Now \in State /\ Counted(Now) /\ Now.m = m /\ Now.queue = queue /\ Now.lost = lost
  BY NowState DEF Now
<1>6. s \in State /\ Counted(s) /\ (lost => s.lost)
  BY <1>1, <1>5, CompletedState DEF s
<1>7. CASE lost \/ overdue
  <2>1. lost' \/ overdue'
    BY <1>1, <1>4, <1>6, <1>7 DEF Becomes
  <2>2. QED
    BY <1>3, <1>4, <1>6, <2>1, TypesAfter DEF MCIInv
<1>8. CASE AtRest \/ Waiting
  <2>1. IsPlain(wire)
    BY <1>8 DEF AtRest, Waiting, Done
  <2>2. SameModes
    BY <1>2, <2>1 DEF IsPlain, Plain, SameModes
  <2>3. Quiet(Now, s) /\ Counted(s)
    BY <1>1, <1>5, <2>1, CompletedPlain DEF s
  <2>4. QED
    BY <1>1, <1>3, <1>4, <2>1, <2>2, <2>3, QuietInv
<1>9. CASE OnWire
  <2>1. Calm(queue) /\ Stage(wire, m, robot)
    BY <1>9 DEF OnWire
  <2> DEFINE
        StepTo(cmd, then) ==
          /\ Sends(Now, s, cmd, then)
          /\ \A e : e.cmd = cmd /\ e.then = then => Stage(e, m, robot')
  <2>2. ASSUME NEW cmd, NEW then, StepTo(cmd, then)
        PROVE  MCIInv'
    <3>1. ~lost /\ ~overdue =>
            /\ Calm(queue)
            /\ wire' = None \/ IsPlain(wire')
            /\ \A e : e.cmd = cmd /\ e.then = then => Stage(e, Now.m, robot')
      BY <1>1, <1>5, <2>1, <2>2
    <3>2. QED
      BY <1>3, <1>4, <1>5, <1>6, <2>2, <3>1, StepInv
  <2>3. CASE wire.then = "enable1"
    <3>1. wire.cmd = "TestModeOn" /\ Entering(m, robot)
      BY <2>1, <2>3 DEF Stage
    <3>2. s = Send(Now, "LdsOn", "enable2")
      BY <2>3, <3>1 DEF s, Completed
    <3>3. Sends(Now, s, "LdsOn", "enable2")
      BY <1>5, <3>2, SendStep DEF Cmd, Then
    <3>4. Entering(m, robot') /\ robot'.testMode
      BY <1>2, <3>1 DEF Entering
    <3>5. StepTo("LdsOn", "enable2")
      BY <3>3, <3>4 DEF Stage
    <3>6. QED
      BY <2>2, <3>5
  <2>4. CASE wire.then = "enable2"
    <3>1. wire.cmd = "LdsOn" /\ Entering(m, robot) /\ robot.testMode
      BY <2>1, <2>4 DEF Stage
    <3>2. s = Activated(Now)
      BY <2>4, <3>1 DEF s, Completed
    <3>3. s.queue = queue /\ s.m.active /\ ~s.m.enabling /\ s.m.disabling = m.disabling
      BY <1>5, <3>2, ActivatedState
    <3>4. Resting(s.m, robot')
      <4>1. s.m.active \in BOOLEAN /\ robot'.testMode = TRUE /\ robot'.lds = TRUE
        BY <1>2, <1>6, <3>1 DEF State, Manager, Robot
      <4>2. QED
        BY <3>1, <3>3, <4>1 DEF Resting, Entering
    <3>5. QED
      BY <1>1, <1>3, <1>4, <1>6, <2>1, <3>3, <3>4, RestInv
  <2>5. CASE wire.then = "disable1"
    <3>1. wire.cmd \in {"WheelsDisable", "WheelsEnable"} /\ Leaving(m, robot) /\ robot.lds
      BY <2>1, <2>5 DEF Stage
    <3>2. Leaving(m, robot') /\ robot'.lds
      BY <1>2, <3>1 DEF Leaving
    <3>3. CASE wire.cmd = "WheelsDisable"
      <4>1. s = Send(Now, "WheelsEnable", "disable1")
        BY <2>5, <3>3 DEF s, Completed
      <4>2. Sends(Now, s, "WheelsEnable", "disable1")
        BY <1>5, <4>1, SendStep DEF Cmd, Then
      <4>3. StepTo("WheelsEnable", "disable1")
        BY <3>2, <4>2 DEF Stage
      <4>4. QED
        BY <2>2, <4>3
    <3>4. CASE wire.cmd = "WheelsEnable"
      <4>1. s = Send(StopAllMotors(Now), "LdsOff", "disable2")
        BY <2>5, <3>4 DEF s, Completed
      <4>2. Sends(Now, s, "LdsOff", "disable2")
        BY <1>5, <4>1, MotorsThenLds
      <4>3. StepTo("LdsOff", "disable2")
        BY <3>2, <4>2 DEF Stage
      <4>4. QED
        BY <2>2, <4>3
    <3>5. QED
      BY <3>1, <3>3, <3>4
  <2>6. CASE wire.then = "disable2"
    <3>1. wire.cmd = "LdsOff" /\ Leaving(m, robot)
      BY <2>1, <2>6 DEF Stage
    <3>2. s = Send(Now, "TestModeOff", "disable3")
      BY <2>6, <3>1 DEF s, Completed
    <3>3. Sends(Now, s, "TestModeOff", "disable3")
      BY <1>5, <3>2, SendStep DEF Cmd, Then
    <3>4. Leaving(m, robot') /\ ~robot'.lds
      BY <1>2, <3>1 DEF Leaving
    <3>5. StepTo("TestModeOff", "disable3")
      BY <3>3, <3>4 DEF Stage
    <3>6. QED
      BY <2>2, <3>5
  <2>7. CASE wire.then = "disable3"
    <3>1. wire.cmd = "TestModeOff" /\ Leaving(m, robot) /\ ~robot.lds
      BY <2>1, <2>7 DEF Stage
    <3>2. s = [Now EXCEPT !.m.active = FALSE, !.m.disabling = FALSE]
      BY <2>7, <3>1 DEF s, Completed
    <3>3. s.queue = queue /\ ~s.m.active /\ s.m.enabling = m.enabling /\ ~s.m.disabling
      BY <1>5, <3>2, LeftState
    <3>4. Resting(s.m, robot')
      <4>1. s.m.active \in BOOLEAN /\ robot'.testMode = FALSE /\ robot'.lds \in BOOLEAN /\ ~robot'.lds
        BY <1>2, <1>6, <3>1 DEF State, Manager, Robot
      <4>2. QED
        BY <3>1, <3>3, <4>1 DEF Resting, Leaving
    <3>5. QED
      BY <1>1, <1>3, <1>4, <1>6, <2>1, <3>3, <3>4, RestInv
  <2>8. wire.then \in {"enable1", "enable2", "disable1", "disable2", "disable3"}
    BY <2>1 DEF Stage
  <2>9. QED
    BY <2>3, <2>4, <2>5, <2>6, <2>7, <2>8
<1>10. QED
  BY <1>7, <1>8, <1>9 DEF MCIInv, Phase

-----------------------------------------------------------------------------
(* The theorems.                                                           *)

LEMMA NextMCIInv == MCIInv /\ [Next]_vars => MCIInv'
<1> SUFFICES ASSUME MCIInv, [Next]_vars
             PROVE  MCIInv'
  OBVIOUS
<1>1. CASE Enable \/ Disable \/ Stop \/ SetMotors
  BY <1>1, EnableInv, DisableInv, StopInv, SetMotorsInv
<1>2. CASE \E mv \in Moves : Move(mv[1], mv[2])
  BY <1>2, MoveInv
<1>3. CASE EnableTimeout \/ Watchdog
  BY <1>3, EnableTimeoutInv, WatchdogInv
<1>4. CASE PollBumpers \/ PollStall
  BY <1>4, PollInv DEF PollBumpers, PollStall
<1>5. CASE SendNext \/ Fail \/ Done
  BY <1>5, SendNextInv, FailInv, DoneInv
<1>6. CASE \E sensors \in SUBSET Contacts : SensorsRead(sensors)
  BY <1>6, SensorsReadInv
<1>7. CASE \E overload \in BOOLEAN : LoadRead(overload)
  BY <1>7, LoadReadInv
<1>8. CASE Arrive \/ FallSilent
  BY <1>8, WorldInv
<1>9. CASE UNCHANGED vars
  BY <1>9 DEF vars, MCIInv, TypeOK, StallsCounted, Phase, AtRest, OnWire, Waiting
<1>10. QED
  BY <1>1, <1>2, <1>3, <1>4, <1>5, <1>6, <1>7, <1>8, <1>9 DEF Next, Line

(* The strengthening holds in every state, with any faults.                 *)
THEOREM TransitionsInOrder == Spec => []MCIInv
<1>1. QED
  BY InitMCIInv, NextMCIInv, PTL DEF Spec

(* Every variable keeps its type: the queue never outgrows its limit        *)
(* (neato_serial.cpp:166), and stalls never count past MANUAL_STALL_COUNT   *)
(* whatever the order of moves and answers (manual_clean_manager.cpp:302).  *)
THEOREM ManualTypeCorrect == Spec => []TypeOK
<1>1. MCIInv => TypeOK
  BY DEF MCIInv
<1>2. QED
  BY <1>1, TransitionsInOrder, PTL

(* When nothing was refused, failed or given up and the line is quiet, the  *)
(* robot is in TestMode with its LDS turning exactly while manual mode is   *)
(* active (manual_clean_manager.cpp:10-106), whatever moves, stops, polls,  *)
(* contacts and silences came in between and however long the queue.        *)
THEOREM ModeAgrees == Spec => []ModeMatchesRobot
<1>1. MCIInv => ModeMatchesRobot
  <2> SUFFICES ASSUME MCIInv, Settled
               PROVE  robot.testMode = m.active /\ robot.lds = m.active
    BY DEF ModeMatchesRobot
  <2>1. AtRest
    BY DEF Settled, MCIInv, Phase, OnWire, Waiting
  <2>2. QED
    BY <2>1 DEF AtRest, Resting
<1>2. QED
  BY <1>1, TransitionsInOrder, PTL

-----------------------------------------------------------------------------
(* What the wheels may still be made to do.                                *)

\* A move the manager may go on with: it knows that the robot moves, and has
\* seen nothing that speaks against it.
Safe(mv, g) ==
    \/ mv = Stopped
    \/ /\ g.moving /\ "lifted" \notin g.flags
       /\ Forward(mv[1], mv[2]) => g.flags \cap {"frontLeft", "frontRight"} = {}

IsWheels(cmd) == cmd \in {"WheelsDisable", "WheelsEnable", "WheelsMove"}

\* The commands to the wheels are at the front of a queue, in the order they
\* were given.
WheelsFirst(q) == \A i, j \in DOMAIN q : i < j /\ IsWheels(q[j].cmd) => IsWheels(q[i].cmd)

HasStop(q) == \E i \in DOMAIN q : q[i].cmd = "WheelsDisable"
HasNoMove(q) == \A i \in DOMAIN q : q[i].cmd # "WheelsMove"

\* A move that no stop follows.
LooseAt(q, i) ==
    q[i].cmd = "WheelsMove" /\ \A j \in DOMAIN q : j > i => q[j].cmd # "WheelsDisable"

\* Every move of the queue that no stop follows is safe for the manager g.
LooseSafe(q, g) == \A i \in DOMAIN q : LooseAt(q, i) => Safe(q[i].move, g)

IsOn(w, cmd) == w # None /\ w.cmd = cmd

Entered(g, w, r) == g.enabling /\ (r.testMode \/ IsOn(w, "TestModeOn"))

\* Whatever no stop follows is safe: in the queue, on the wire, of the wheels.
\* Wheels turn in TestMode only, and manual mode is entered standing still.
Driving ==
    /\ WheelsFirst(queue)
    /\ ~robot.testMode => robot.wheels = Stopped
    /\ LooseSafe(queue, m)
    /\ ~HasStop(queue) /\ IsOn(wire, "WheelsMove") => Safe(wire.move, m)
    /\ ~HasStop(queue) /\ ~IsOn(wire, "WheelsDisable") => Safe(robot.wheels, m)
    /\ Entered(m, wire, robot) =>
            HasNoMove(queue) /\ ~IsOn(wire, "WheelsMove") /\ robot.wheels = Stopped

MCDInv == MCIInv /\ (lost \/ overdue \/ Driving)

LEMMA WheelsPriority ==
    ASSUME NEW c \in Cmd
    PROVE  Priority(c) \in {1, 2, 3} /\ (Priority(c) = 1 <=> IsWheels(c))
BY DEF Cmd, Priority, IsWheels

\* What enqueue() does to the moves and stops of a queue: a stop follows every
\* move, anything else leaves them as they follow each other.
LEMMA InsertWheels ==
    ASSUME NEW q \in Seq(Entry), NEW e \in Entry, WheelsFirst(q)
    PROVE  LET p == Insert(q, e)
           IN  /\ WheelsFirst(p)
               /\ HasStop(q) => HasStop(p)
               /\ e.cmd = "WheelsDisable" => HasStop(p) /\ \A i \in DOMAIN p : ~LooseAt(p, i)
               /\ \A i \in DOMAIN p : LooseAt(p, i) =>
                    p[i] = e \/ \E k \in DOMAIN q : LooseAt(q, k) /\ q[k] = p[i]
               /\ HasNoMove(q) /\ e.cmd # "WheelsMove" => HasNoMove(p)
<1> DEFINE p == Insert(q, e)
           l == Len(q)
<1>1. PICK n \in 1 .. Len(q) + 1 :
        /\ \A j \in 1 .. Len(q) + 1 :
             p[j] = IF j < n THEN q[j] ELSE IF j = n THEN e ELSE q[j - 1]
        /\ \A j \in 1 .. n - 1 : Priority(q[j].cmd) <= Priority(e.cmd)
        /\ n <= Len(q) => ~(Priority(q[n].cmd) <= Priority(e.cmd))
  BY InsertPlace
<1>2. DOMAIN p = 1 .. l + 1 /\ DOMAIN q = 1 .. l /\ l \in Nat /\ n \in 1 .. l + 1
  BY InsertPlace
<1>3. /\ \A j \in 1 .. l : q[j].cmd \in Cmd
      /\ e.cmd \in Cmd
  <2>1. \A j \in 1 .. l : q[j] \in Entry
    BY <1>2
  <2>2. QED
    BY <2>1 DEF Entry
<1>4. \A j \in 1 .. l : j < n /\ IsWheels(e.cmd) => IsWheels(q[j].cmd)
  BY <1>1, <1>2, <1>3, WheelsPriority
<1>5. n <= l => ~IsWheels(q[n].cmd)
  BY <1>1, <1>2, <1>3, WheelsPriority
<1> HIDE DEF p, l
<1>6. \A j \in 1 .. l : j >= n => ~IsWheels(q[j].cmd)
  BY <1>2, <1>5 DEF WheelsFirst
<1>7. /\ \A j \in 1 .. l + 1 : j < n => j \in 1 .. l /\ p[j] = q[j]
      /\ p[n] = e
      /\ \A j \in 1 .. l + 1 : j > n => j - 1 \in 1 .. l /\ j - 1 >= n /\ p[j] = q[j - 1]
  BY <1>1, <1>2 DEF l
<1>8. WheelsFirst(p)
  <2> SUFFICES ASSUME NEW i \in 1 .. l + 1, NEW j \in 1 .. l + 1, i < j, IsWheels(p[j].cmd)
               PROVE  IsWheels(p[i].cmd)
    BY <1>2 DEF WheelsFirst
  <2>1. j <= n
    BY <1>2, <1>6, <1>7
  <2>2. i < n /\ p[i] = q[i] /\ i \in 1 .. l
    BY <1>2, <1>7, <2>1
  <2>3. CASE j = n
    BY <1>4, <1>7, <2>2, <2>3
  <2>4. CASE j < n
    BY <1>2, <1>7, <2>2, <2>4 DEF WheelsFirst
  <2>5. QED
    BY <1>2, <2>1, <2>3, <2>4
<1>9. \A k \in 1 .. l : \E j \in 1 .. l + 1 : p[j] = q[k]
  <2> SUFFICES ASSUME NEW k \in 1 .. l
               PROVE  \E j \in 1 .. l + 1 : p[j] = q[k]
    OBVIOUS
  <2>1. CASE k < n
    BY <1>2, <1>7, <2>1
  <2>2. CASE k >= n
    <3>1. k + 1 \in 1 .. l + 1 /\ k + 1 > n /\ k + 1 - 1 = k
      BY <1>2, <2>2
    <3>2. QED
      BY <1>7, <3>1
  <2>3. QED
    BY <1>2, <2>1, <2>2
<1>10. HasStop(q) => HasStop(p)
  BY <1>2, <1>9 DEF HasStop
<1>11. ASSUME e.cmd = "WheelsDisable"
       PROVE  HasStop(p) /\ \A i \in DOMAIN p : ~LooseAt(p, i)
  <2>1. p[n].cmd = "WheelsDisable" /\ n \in DOMAIN p
    BY <1>2, <1>7, <1>11
  <2>2. \A i \in DOMAIN p : p[i].cmd = "WheelsMove" => i < n
    BY <1>2, <1>6, <1>7, <1>11 DEF IsWheels
  <2>3. QED
    BY <2>1, <2>2 DEF HasStop, LooseAt
<1>12. ASSUME NEW i \in DOMAIN p, LooseAt(p, i)
       PROVE  p[i] = e \/ \E k \in DOMAIN q : LooseAt(q, k) /\ q[k] = p[i]
  <2>1. CASE i = n
    BY <1>7, <2>1
  <2>2. CASE i < n
    <3>1. i \in 1 .. l /\ q[i] = p[i]
      BY <1>2, <1>7, <2>2
    <3>2. ASSUME NEW j \in DOMAIN q, j > i
          PROVE  q[j].cmd # "WheelsDisable"
      <4>1. CASE j < n
        BY <1>2, <1>7, <1>12, <3>2, <4>1 DEF LooseAt
      <4>2. CASE j >= n
        BY <1>2, <1>6, <3>2, <4>2 DEF IsWheels
      <4>3. QED
        BY <1>2, <4>1, <4>2
    <3>3. QED
      BY <1>2, <1>12, <3>1, <3>2 DEF LooseAt
  <2>3. CASE i > n
    BY <1>2, <1>6, <1>7, <1>12, <2>3 DEF LooseAt, IsWheels
  <2>4. QED
    BY <1>2, <2>1, <2>2, <2>3
<1>13. HasNoMove(q) /\ e.cmd # "WheelsMove" => HasNoMove(p)
  BY <1>2, <1>7 DEF HasNoMove
<1>14. QED
  BY <1>8, <1>10, <1>11, <1>12, <1>13 DEF p

-----------------------------------------------------------------------------
(* What the handlers do to the moves.                                      *)

\* The order of the queue is kept, stops are not lost, and only an active
\* manager sends moves.
Orderly(s, t) ==
    /\ s.lost => t.lost
    /\ t.lost \/ /\ t.m.active => s.m.active
                 /\ WheelsFirst(s.queue) =>
                        /\ WheelsFirst(t.queue)
                        /\ HasStop(s.queue) => HasStop(t.queue)
                        /\ s.m.active \/ (HasNoMove(s.queue) => HasNoMove(t.queue))

\* A handler that lets the moves go on.
Mild(s, t) ==
    /\ Orderly(s, t)
    /\ t.lost \/ /\ \A mv : Safe(mv, s.m) => Safe(mv, t.m)
                 /\ WheelsFirst(s.queue) /\ LooseSafe(s.queue, s.m) => LooseSafe(t.queue, t.m)

\* A handler that stops them.
Brakes(s, t) ==
    /\ Orderly(s, t)
    /\ t.lost \/ (WheelsFirst(s.queue) => HasStop(t.queue) /\ LooseSafe(t.queue, t.m))

LEMMA MildTransitive ==
    ASSUME NEW s, NEW t, NEW u, Mild(s, t), Mild(t, u)
    PROVE  Mild(s, u)
<1>1. Orderly(s, u)
  BY DEF Mild, Orderly
<1>2. QED
  BY <1>1 DEF Mild, Orderly

LEMMA MildThenBrakes ==
    ASSUME NEW s, NEW t, NEW u, Mild(s, t), Brakes(t, u)
    PROVE  Brakes(s, u)
<1>1. Orderly(s, u)
  BY DEF Mild, Brakes, Orderly
<1>2. QED
  BY <1>1 DEF Mild, Brakes, Orderly

LEMMA BrakesThenMild ==
    ASSUME NEW s, NEW t, NEW u, Brakes(s, t), Mild(t, u)
    PROVE  Brakes(s, u)
<1>1. Orderly(s, u)
  BY DEF Mild, Brakes, Orderly
<1>2. QED
  BY <1>1 DEF Mild, Brakes, Orderly

LEMMA MildReflexive == ASSUME NEW s PROVE Mild(s, s)
BY DEF Mild, Orderly

\* An assignment to what a move's safety does not depend on.
LEMMA MildUpdate ==
    ASSUME NEW s \in State, NEW g \in Manager,
           g.active => s.m.active,
           s.m.moving => g.moving,
           g.flags \cap {"lifted", "frontLeft", "frontRight"} \subseteq s.m.flags
    PROVE  Mild(s, [s EXCEPT !.m = g])
<1> DEFINE t == [s EXCEPT !.m = g]
<1>1. t.m = g /\ t.queue = s.queue /\ t.lost = s.lost
  BY DEF State
<1> HIDE DEF t
<1>2. ASSUME NEW mv, Safe(mv, s.m)
      PROVE  Safe(mv, t.m)
  BY <1>1, <1>2 DEF Safe
<1>3. LooseSafe(s.queue, s.m) => LooseSafe(t.queue, t.m)
  BY <1>1, <1>2 DEF LooseSafe
<1>4. QED
  BY <1>1, <1>2, <1>3 DEF Mild, Orderly, t

\* A command that is not a move.
LEMMA SendWheels ==
    ASSUME NEW s \in State, NEW cmd \in Cmd, NEW then \in Then, cmd # "WheelsMove"
    PROVE  /\ Mild(s, Send(s, cmd, then))
           /\ cmd = "WheelsDisable" => Brakes(s, Send(s, cmd, then))
<1> DEFINE e == [cmd |-> cmd, move |-> Stopped, then |-> then]
           t == Send(s, cmd, then)
<1>1. e \in Entry /\ e.cmd = cmd /\ s.queue \in Seq(Entry)
  BY DEF Entry, State
<1>2. (s.lost => t.lost) /\ (t.lost \/ (t.m = s.m /\ t.queue = Insert(s.queue, e)))
  BY SendMoveState DEF Send
<1> SUFFICES Mild(s, t) /\ (cmd = "WheelsDisable" => Brakes(s, t))
  OBVIOUS
<1> HIDE DEF t, e
<1>3. CASE t.lost
  BY <1>2, <1>3 DEF Mild, Brakes, Orderly
<1>4. CASE ~t.lost
  <2>1. t.m = s.m /\ t.queue = Insert(s.queue, e)
    BY <1>2, <1>4
  <2>2. ASSUME WheelsFirst(s.queue)
        PROVE  /\ WheelsFirst(t.queue)
               /\ HasStop(s.queue) => HasStop(t.queue)
               /\ HasNoMove(s.queue) => HasNoMove(t.queue)
               /\ LooseSafe(s.queue, s.m) => LooseSafe(t.queue, t.m)
               /\ cmd = "WheelsDisable" => HasStop(t.queue) /\ LooseSafe(t.queue, t.m)
    <3>1. /\ WheelsFirst(t.queue)
          /\ HasStop(s.queue) => HasStop(t.queue)
          /\ cmd = "WheelsDisable" =>
                HasStop(t.queue) /\ \A i \in DOMAIN t.queue : ~LooseAt(t.queue, i)
          /\ \A i \in DOMAIN t.queue : LooseAt(t.queue, i) =>
                t.queue[i] = e
                \/ \E k \in DOMAIN s.queue : LooseAt(s.queue, k) /\ s.queue[k] = t.queue[i]
          /\ HasNoMove(s.queue) => HasNoMove(t.queue)
      BY <1>1, <2>1, <2>2, InsertWheels
    <3>2. LooseSafe(s.queue, s.m) => LooseSafe(t.queue, t.m)
      <4> SUFFICES ASSUME LooseSafe(s.queue, s.m), NEW i \in DOMAIN t.queue,
                          LooseAt(t.queue, i)
                   PROVE  Safe(t.queue[i].move, t.m)
        BY DEF LooseSafe
      <4>1. t.queue[i] # e
        BY <1>1 DEF LooseAt
      <4>2. PICK k \in DOMAIN s.queue : LooseAt(s.queue, k) /\ s.queue[k] = t.queue[i]
        BY <3>1, <4>1
      <4>3. QED
        BY <2>1, <4>2 DEF LooseSafe
    <3>3. QED
      BY <3>1, <3>2 DEF LooseSafe
  <2>3. QED
    BY <1>2, <1>4, <2>1, <2>2 DEF Mild, Brakes, Orderly
<1>5. QED
  BY <1>3, <1>4

LEMMA StopWheelsBrakes ==
    ASSUME NEW s \in State
    PROVE  Brakes(s, StopWheels(s))
<1> DEFINE g == [s.m EXCEPT !.moving = FALSE]
           u == [s EXCEPT !.m = g]
<1>1. g \in Manager /\ g.active = s.m.active
  BY DEF State, Manager
<1>2. [s EXCEPT !.m.moving = FALSE] = u
  BY DEF State
<1> HIDE DEF g
<1>3. u \in State /\ u.m = g /\ u.queue = s.queue /\ u.lost = s.lost
  BY <1>1 DEF State
<1> HIDE DEF u
<1>4. Brakes(u, StopWheels(s))
  BY <1>2, <1>3, SendWheels DEF StopWheels, Cmd, Then
<1>5. QED
  BY <1>1, <1>3, <1>4 DEF Brakes, Orderly

LEMMA StopAllMotorsMild ==
    ASSUME NEW s \in State
    PROVE  Mild(s, StopAllMotors(s))
<1> DEFINE u == Send(s, "VacuumOff", "nothing")
           g == [u.m EXCEPT !.vacuumOn = FALSE]
<1>1. CASE s.m.vacuumOn
  <2>1. Mild(s, u)
    BY SendWheels DEF Cmd, Then
  <2>2. u \in State
    BY SendMoveState DEF Send, Cmd, Then
  <2> HIDE DEF u
  <2>3. g \in Manager /\ g.active = u.m.active /\ g.moving = u.m.moving /\ g.flags = u.m.flags
    BY <2>2 DEF State, Manager
  <2>4. [u EXCEPT !.m.vacuumOn = FALSE] = [u EXCEPT !.m = g]
    BY <2>2 DEF State
  <2> HIDE DEF g
  <2>5. Mild(u, [u EXCEPT !.m = g])
    BY <2>2, <2>3, MildUpdate
  <2>6. StopAllMotors(s) = [u EXCEPT !.m = g]
    BY <1>1, <2>4 DEF StopAllMotors, u
  <2>7. QED
    BY <2>1, <2>5, <2>6, MildTransitive
<1>2. CASE ~s.m.vacuumOn
  BY <1>2, MildReflexive DEF StopAllMotors
<1>3. QED
  BY <1>1, <1>2

\* A contact that is new stops the wheels; what was known already has stopped
\* them before.
LEMMA ObservedWheels ==
    ASSUME NEW s \in State, NEW sensors \in SUBSET Contacts
    PROVE  Mild(s, Observed(s, sensors)) \/ Brakes(s, Observed(s, sensors))
<1> DEFINE new == sensors \ s.m.flags
           g == [s.m EXCEPT !.flags = (@ \cap Stall) \cup sensors]
           s1 == [s EXCEPT !.m = g]
           s2 == IF "lifted" \in new THEN StopAllMotors(StopWheels(s1)) ELSE s1
<1>1. g \in Manager /\ g.active = s.m.active /\ g.moving = s.m.moving
      /\ g.flags = (s.m.flags \cap Stall) \cup sensors
  BY ContactsAssumption DEF State, Manager, Flag
<1>2. Observed(s, sensors) = IF new \cap Bumper # {} THEN StopWheels(s2) ELSE s2
  <2>1. [s EXCEPT !.m.flags = (@ \cap Stall) \cup sensors] = s1
    BY DEF State
  <2>2. QED
    BY <2>1 DEF Observed
<1> HIDE DEF g
<1>3. s1 \in State /\ s1.m = g /\ s1.queue = s.queue /\ s1.lost = s.lost
  BY <1>1 DEF State
<1>4. Orderly(s, s1)
  BY <1>1, <1>3 DEF Orderly
<1>5. ASSUME "lifted" \notin new, new \cap Bumper = {}
      PROVE  Mild(s, s1)
  <2>1. g.flags \cap {"lifted", "frontLeft", "frontRight"} \subseteq s.m.flags
    BY <1>1, <1>5 DEF Stall, Bumper
  <2>2. QED
    BY <1>1, <2>1, MildUpdate
<1> HIDE DEF new, s1
<1>6. ASSUME NEW t, Brakes(s1, t)
      PROVE  Brakes(s, t)
  BY <1>1, <1>3, <1>6 DEF Brakes, Orderly
<1>7. s2 \in State /\ ("lifted" \in new => Brakes(s1, s2)) /\ ("lifted" \notin new => s2 = s1)
  <2>1. Brakes(s1, StopWheels(s1)) /\ StopWheels(s1) \in State
    BY <1>3, StopWheelsBrakes, StopWheelsQuiet DEF Quiet
  <2>2. /\ Brakes(s1, StopAllMotors(StopWheels(s1)))
        /\ StopAllMotors(StopWheels(s1)) \in State
    BY <2>1, StopAllMotorsMild, StopAllMotorsQuiet, BrakesThenMild DEF Quiet
  <2>3. QED
    BY <1>3, <2>2
<1> HIDE DEF s2
<1>8. Brakes(s2, StopWheels(s2))
  BY <1>7, StopWheelsBrakes
<1>9. CASE new \cap Bumper # {}
  <2>1. "lifted" \in new => Brakes(s1, StopWheels(s2))
    BY <1>7, <1>8 DEF Brakes, Orderly
  <2>2. QED
    BY <1>2, <1>6, <1>7, <1>8, <1>9, <2>1
<1>10. CASE new \cap Bumper = {}
  BY <1>2, <1>5, <1>6, <1>7, <1>10
<1>11. QED
  BY <1>9, <1>10

LEMMA LoadedWheels ==
    ASSUME NEW s \in State, NEW overload \in BOOLEAN, s.m.stalls < StallCount
    PROVE  Mild(s, Loaded(s, overload)) \/ Brakes(s, Loaded(s, overload))
<1> DEFINE l == s.m.last[1]
           r == s.m.last[2]
           raised == {f \in Stall : \/ f = "stallFront" /\ Forward(l, r)
                                    \/ f = "stallRear" /\ Backward(l, r)}
           none == [s.m EXCEPT !.stalls = 0]
           more == [s.m EXCEPT !.stalls = @ + 1]
           stalled == [s.m EXCEPT !.stalls = @ + 1, !.flags = @ \cup raised]
<1>1. s.m \in Manager /\ s.m.stalls \in 0 .. 1
  BY DEF State, Manager, StallCount
<1>2. CASE ~overload
  <2>1. none \in Manager /\ none.active = s.m.active /\ none.moving = s.m.moving
        /\ none.flags = s.m.flags
    BY <1>1 DEF Manager, StallCount
  <2>2. Loaded(s, overload) = [s EXCEPT !.m = none]
    BY <1>2 DEF Loaded, State
  <2> HIDE DEF none
  <2>3. QED
    BY <2>1, <2>2, MildUpdate
<1>3. CASE overload /\ s.m.stalls + 1 < StallCount
  <2>1. more \in Manager /\ more.active = s.m.active /\ more.moving = s.m.moving
        /\ more.flags = s.m.flags
    BY <1>1, <1>3 DEF Manager, StallCount
  <2>2. Loaded(s, overload) = [s EXCEPT !.m = more]
    BY <1>3 DEF Loaded, State
  <2> HIDE DEF more
  <2>3. QED
    BY <2>1, <2>2, MildUpdate
<1>4. CASE overload /\ ~(s.m.stalls + 1 < StallCount)
  <2>1. raised \subseteq Flag
    BY DEF Flag
  <2> HIDE DEF raised
  <2>2. stalled \in Manager /\ stalled.active = s.m.active
    <3>1. s.m.stalls + 1 \in 0 .. StallCount
      BY <1>1 DEF StallCount
    <3> DEFINE n == s.m.stalls + 1
               f == s.m.flags \cup raised
    <3>2. f \in SUBSET Flag
      BY <1>1, <2>1 DEF Manager
    <3>3. stalled = [s.m EXCEPT !.stalls = n, !.flags = f]
      BY <1>1 DEF Manager
    <3> HIDE DEF n, f, stalled
    <3>4. QED
      BY <1>1, <3>1, <3>2, <3>3 DEF Manager, n
  <2>3. Loaded(s, overload) = StopWheels([s EXCEPT !.m = stalled])
    <3>1. [s EXCEPT !.m.stalls = @ + 1, !.m.flags = @ \cup raised] = [s EXCEPT !.m = stalled]
      BY <1>1 DEF State, Manager
    <3>2. QED
      BY <1>4, <3>1 DEF Loaded, raised
  <2> HIDE DEF stalled
  <2> DEFINE u == [s EXCEPT !.m = stalled]
  <2>4. u \in State /\ u.m = stalled /\ u.queue = s.queue /\ u.lost = s.lost
    BY <2>2 DEF State
  <2> HIDE DEF u
  <2>5. Brakes(u, StopWheels(u))
    BY <2>4, StopWheelsBrakes
  <2>6. Brakes(s, StopWheels(u))
    BY <2>2, <2>4, <2>5 DEF Brakes, Orderly
  <2>7. QED
    BY <2>3, <2>6 DEF u
<1>5. QED
  BY <1>2, <1>3, <1>4

\* The lambda of a command that ends no enable sequence.
LEMMA CompletedWheels ==
    ASSUME NEW s \in State, NEW e \in Entry, e.then # "enable2"
    PROVE  Mild(s, Completed(s, e, TRUE))
<1> DEFINE t == Completed(s, e, TRUE)
<1>1. CASE e.cmd = "WheelsDisable"
  <2>1. t = Send(s, "WheelsEnable", e.then) /\ e.then \in Then
    BY <1>1 DEF Completed, Entry
  <2>2. QED
    BY <2>1, SendWheels DEF Cmd
<1> SUFFICES ASSUME e.cmd # "WheelsDisable"
             PROVE  Mild(s, t)
  BY <1>1
<1>2. CASE e.then = "enable1"
  <2>1. t = Send(s, "LdsOn", "enable2")
    BY <1>2 DEF Completed
  <2>2. QED
    BY <2>1, SendWheels DEF Cmd, Then
<1>3. CASE e.then = "disable1"
  <2> DEFINE u == StopAllMotors(s)
  <2>1. t = Send(u, "LdsOff", "disable2")
    BY <1>3 DEF Completed
  <2>2. Mild(s, u) /\ u \in State
    BY StopAllMotorsMild, StopAllMotorsQuiet DEF Quiet
  <2> HIDE DEF u
  <2>3. Mild(u, t)
    BY <2>1, <2>2, SendWheels DEF Cmd, Then
  <2>4. QED
    BY <2>2, <2>3, MildTransitive
<1>4. CASE e.then = "disable2"
  <2>1. t = Send(s, "TestModeOff", "disable3")
    BY <1>4 DEF Completed
  <2>2. QED
    BY <2>1, SendWheels DEF Cmd, Then
<1>5. CASE e.then = "disable3"
  <2> DEFINE g == [s.m EXCEPT !.active = FALSE, !.disabling = FALSE]
  <2>1. t = [s EXCEPT !.m = g]
    BY <1>5 DEF Completed, State
  <2>2. g \in Manager /\ ~g.active /\ g.moving = s.m.moving /\ g.flags = s.m.flags
    BY DEF State, Manager
  <2> HIDE DEF g
  <2>3. QED
    BY <2>1, <2>2, MildUpdate
<1>6. CASE e.then = "nothing"
  <2>1. t = s
    BY <1>6 DEF Completed
  <2>2. QED
    BY <2>1, MildReflexive
<1>7. e.then \in Then
  BY DEF Entry
<1>8. QED
  BY <1>2, <1>3, <1>4, <1>5, <1>6, <1>7 DEF Then

-----------------------------------------------------------------------------
(* Each step, as long as nothing was refused or failed.                    *)

LEMMA InitMCDInv == Init => MCDInv
<1> SUFFICES ASSUME Init
             PROVE  MCDInv
  OBVIOUS
<1>1. queue = <<>> /\ wire = None /\ robot.wheels = Stopped /\ ~m.enabling
  BY DEF Init
<1>2. Driving
  BY <1>1 DEF Driving, WheelsFirst, LooseSafe, HasNoMove, IsOn, Entered, Safe
<1>3. QED
  BY <1>2, InitMCIInv DEF MCDInv

\* What a handler that does not complete a command of the wheels must show.
LEMMA SteadyDriving ==
    ASSUME Driving, NEW s, Mild(Now, s) \/ Brakes(Now, s), ~s.lost, Becomes(s),
           robot' = robot,
           wire' = wire \/ (wire' = None /\ ~IsOn(wire, "WheelsDisable")),
           Entered(m', wire, robot) => Entered(m, wire, robot) /\ ~m.active
    PROVE  Driving'
<1>1. Now.m = m /\ Now.queue = queue /\ m' = s.m /\ queue' = s.queue
  BY DEF Now, Becomes
<1>2. /\ WheelsFirst(queue')
      /\ HasStop(queue) => HasStop(queue')
      /\ m.active \/ (HasNoMove(queue) => HasNoMove(queue'))
  BY <1>1 DEF Mild, Brakes, Orderly, Driving
<1>3. LooseSafe(queue', m')
  BY <1>1 DEF Mild, Brakes, Driving
<1>4. HasStop(queue') \/ \A mv : Safe(mv, m) => Safe(mv, m')
  BY <1>1 DEF Mild, Brakes, Driving
<1>5. \A cmd : IsOn(wire', cmd) => IsOn(wire, cmd) /\ wire' = wire
  BY DEF IsOn
<1>6. IsOn(wire, "WheelsDisable") => IsOn(wire', "WheelsDisable")
  BY DEF IsOn
<1>7. Entered(m', wire', robot') => Entered(m', wire, robot)
  BY <1>5 DEF Entered
<1>8. QED
  BY <1>2, <1>3, <1>4, <1>5, <1>6, <1>7 DEF Driving

\* A manager that is active is not on its way in.
LEMMA ActiveNotEntering == ASSUME Phase, m.active PROVE ~m.enabling
BY DEF Phase, AtRest, OnWire, Waiting, Stage, Resting, Entering, Leaving

LEMMA EnableDriving == ASSUME MCIInv, Phase, Driving, Enable, ~lost' PROVE Driving'
<1> DEFINE g == [m EXCEPT !.enabling = TRUE]
           u == [Now EXCEPT !.m = g]
           s == Send(u, "TestModeOn", "enable1")
<1>1. g \in Manager /\ g.active = m.active /\ g.moving = m.moving /\ g.flags = m.flags
  BY DEF MCIInv, TypeOK, Manager
<1>2. Becomes(s) /\ robot' = robot /\ wire' = wire
  BY DEF Enable, Call, Now
<1> HIDE DEF g
<1>3. Mild(Now, u) /\ u \in State
  <2>1. Mild(Now, u)
    BY <1>1, NowState, MildUpdate DEF Now
  <2>2. QED
    BY <1>1, <2>1, NowState DEF State
<1> HIDE DEF u
<1>4. Mild(Now, s)
  BY <1>3, SendWheels, MildTransitive DEF Cmd, Then
<1> HIDE DEF s
<1>5. AtRest
  BY DEF Phase, OnWire, Waiting, Stage, Entering, Leaving, Enable
<1>6. ~Entered(m', wire, robot)
  BY <1>5 DEF AtRest, Resting, Entered, IsOn, IsPlain, Plain, Enable
<1>7. QED
  BY <1>2, <1>4, <1>6, SteadyDriving DEF Becomes

LEMMA DisableDriving == ASSUME MCIInv, Phase, Driving, Disable, ~lost' PROVE Driving'
<1> DEFINE g == [m EXCEPT !.disabling = TRUE]
           u == [Now EXCEPT !.m = g]
           s == Send(u, "WheelsDisable", "disable1")
<1>1. g \in Manager /\ g.active = m.active /\ g.moving = m.moving /\ g.flags = m.flags
      /\ g.enabling = m.enabling
  BY DEF MCIInv, TypeOK, Manager
<1>2. Becomes(s) /\ robot' = robot /\ wire' = wire
  BY DEF Disable, Call, Now
<1> HIDE DEF g
<1>3. Mild(Now, u) /\ u \in State /\ u.m = g
  <2>1. Mild(Now, u)
    BY <1>1, NowState, MildUpdate DEF Now
  <2>2. QED
    BY <1>1, <2>1, NowState DEF State
<1> HIDE DEF u
<1>4. Mild(Now, s)
  BY <1>3, SendWheels, MildTransitive DEF Cmd, Then
<1>5. s.lost \/ s.m = g
  BY <1>3, SendMoveState DEF Send, Cmd, Then
<1> HIDE DEF s
<1>6. ~Entered(m', wire, robot)
  BY <1>1, <1>2, <1>5, ActiveNotEntering DEF Entered, Disable, Becomes
<1>7. QED
  BY <1>2, <1>4, <1>6, SteadyDriving DEF Becomes

\* The calls and ticks of an active manager whose handler is quiet.
LEMMA ActiveDriving ==
    ASSUME Phase, Driving, NEW s, Quiet(Now, s), Mild(Now, s) \/ Brakes(Now, s), ~s.lost,
           Becomes(s), m.active, robot' = robot,
           wire' = wire \/ (wire' = None /\ ~IsOn(wire, "WheelsDisable"))
    PROVE  Driving'
<1>1. m'.enabling = m.enabling
  BY DEF Quiet, Becomes, Now
<1>2. ~Entered(m', wire, robot)
  BY <1>1, ActiveNotEntering DEF Entered
<1>3. QED
  BY <1>2, SteadyDriving

LEMMA StopDriving == ASSUME MCIInv, Phase, Driving, Stop, ~lost' PROVE Driving'
<1>1. Becomes(StopWheels(Now)) /\ m.active /\ robot' = robot /\ wire' = wire
  BY DEF Stop, Call
<1>2. Quiet(Now, StopWheels(Now)) /\ Brakes(Now, StopWheels(Now))
  BY NowState, StopWheelsQuiet, StopWheelsBrakes
<1>3. QED
  BY <1>1, <1>2, ActiveDriving DEF Becomes

LEMMA SetMotorsDriving == ASSUME MCIInv, Phase, Driving, SetMotors, ~lost' PROVE Driving'
<1> DEFINE cmd == IF m.vacuumOn THEN "VacuumOff" ELSE "VacuumOn"
           u == Send(Now, cmd, "nothing")
           g == [u.m EXCEPT !.vacuumOn = ~@]
           s == [u EXCEPT !.m = g]
<1>1. robot' = robot /\ wire' = wire /\ m.active /\ Becomes([u EXCEPT !.m.vacuumOn = ~@])
  BY DEF SetMotors, Call
<1>2. Mild(Now, u) /\ Quiet(Now, u) /\ u \in State
  BY NowState, SendWheels, SendPlain DEF Send, Plain, Cmd, Then, Quiet
<1> HIDE DEF u
<1>3. g \in Manager /\ g.active = u.m.active /\ g.enabling = u.m.enabling
      /\ g.disabling = u.m.disabling /\ g.moving = u.m.moving /\ g.flags = u.m.flags
  BY <1>2 DEF State, Manager
<1>4. Becomes(s)
  BY <1>1, <1>2 DEF State
<1> HIDE DEF g
<1>5. Quiet(Now, s) /\ Mild(Now, s)
  BY <1>2, <1>3, QuietUpdate, MildUpdate, QuietTransitive, MildTransitive
<1> HIDE DEF s
<1>6. QED
  BY <1>1, <1>4, <1>5, ActiveDriving DEF Becomes

\* A move that is allowed is safe, and so is every other still under way.
LEMMA SendMoveMild ==
    ASSUME NEW s \in State, NEW g \in Manager, NEW mv \in Moves,
           g.active, s.m.active, g.moving, g.flags \subseteq s.m.flags,
           Safe(mv, g)
    PROVE  LET u == [s EXCEPT !.m = g]
           IN  Mild(s, SendMove(u, "WheelsMove", mv, "nothing"))
<1> DEFINE e == [cmd |-> "WheelsMove", move |-> mv, then |-> "nothing"]
           u == [s EXCEPT !.m = g]
           t == SendMove(u, "WheelsMove", mv, "nothing")
<1> SUFFICES Mild(s, t)
  OBVIOUS
<1>1. e \in Entry /\ e.cmd = "WheelsMove" /\ e.move = mv /\ s.queue \in Seq(Entry)
  BY DEF Entry, State, Cmd, Then
<1>2. u \in State /\ u.m = g /\ u.queue = s.queue /\ u.lost = s.lost
  BY DEF State
<1> HIDE DEF u
<1>3. (s.lost => t.lost) /\ (t.lost \/ (t.m = g /\ t.queue = Insert(s.queue, e)))
  <2>1. "WheelsMove" \in Cmd /\ "nothing" \in Then /\ mv \in Moves \cup {Stopped}
    BY DEF Cmd, Then
  <2>2. QED
    BY <1>2, <2>1, SendMoveState
<1> HIDE DEF t, e
<1>4. \A x : Safe(x, s.m) => Safe(x, g)
  BY DEF Safe
<1>5. CASE t.lost
  BY <1>3, <1>5 DEF Mild, Orderly
<1>6. CASE ~t.lost
  <2>1. t.m = g /\ t.queue = Insert(s.queue, e)
    BY <1>3, <1>6
  <2>2. ASSUME WheelsFirst(s.queue)
        PROVE  /\ WheelsFirst(t.queue)
               /\ HasStop(s.queue) => HasStop(t.queue)
               /\ LooseSafe(s.queue, s.m) => LooseSafe(t.queue, t.m)
    <3>1. /\ WheelsFirst(t.queue)
          /\ HasStop(s.queue) => HasStop(t.queue)
          /\ \A i \in DOMAIN t.queue : LooseAt(t.queue, i) =>
                t.queue[i] = e
                \/ \E k \in DOMAIN s.queue : LooseAt(s.queue, k) /\ s.queue[k] = t.queue[i]
      BY <1>1, <2>1, <2>2, InsertWheels
    <3>2. LooseSafe(s.queue, s.m) => LooseSafe(t.queue, t.m)
      BY <1>1, <1>4, <2>1, <3>1 DEF LooseSafe
    <3>3. QED
      BY <3>1, <3>2
  <2>3. QED
    BY <1>3, <1>4, <1>6, <2>1, <2>2 DEF Mild, Orderly
<1>7. QED
  BY <1>5, <1>6

LEMMA MoveDriving ==
    ASSUME MCIInv, Phase, Driving, NEW mv \in Moves, Move(mv[1], mv[2]), ~lost'
    PROVE  Driving'
<1> DEFINE l == mv[1]
           r == mv[2]
           f == Cleared(m.flags, l, r)
           h == [m EXCEPT !.flags = f]
           g == [h EXCEPT !.last = <<l, r>>, !.moving = TRUE,
                          !.stalls = IF m.moving THEN m.stalls ELSE 0]
<1>1. m \in Manager /\ mv = <<l, r>> /\ m.active /\ robot' = robot /\ wire' = wire
  BY MovesAssumption DEF MCIInv, TypeOK, Move, Call
<1>2. f \in SUBSET Flag /\ f \subseteq m.flags
  BY <1>1 DEF Cleared, Manager
<1> HIDE DEF f
<1>3. h \in Manager /\ h.active = m.active /\ h.enabling = m.enabling
      /\ h.disabling = m.disabling /\ h.moving = m.moving /\ h.stalls = m.stalls
      /\ h.flags = f
  BY <1>1, <1>2 DEF Manager
<1>4. [Now EXCEPT !.m.flags = f] = [Now EXCEPT !.m = h] /\ [Now EXCEPT !.m = h].m = h
  BY DEF Now
<1> HIDE DEF h, l, r
<1>5. CASE Allowed(m.flags, l, r)
  <2> DEFINE u == [Now EXCEPT !.m = g]
             s == SendMove(u, "WheelsMove", mv, "nothing")
  <2>1. g \in Manager /\ g.active /\ g.enabling = h.enabling /\ g.moving /\ g.flags = f
        /\ g.disabling = h.disabling /\ g.active = m.active
    <3>1. (IF m.moving THEN h.stalls ELSE 0) \in 0 .. StallCount
      BY <1>1, <1>3 DEF StallCount, Manager
    <3>2. <<l, r>> \in Moves \cup {Stopped}
      BY <1>1
    <3>3. QED
      BY <1>1, <1>3, <3>1, <3>2 DEF Manager
  <2>2. Becomes(s)
    <3>1. [[Now EXCEPT !.m.flags = f] EXCEPT
               !.m = [@ EXCEPT !.last = <<l, r>>, !.moving = TRUE,
                               !.stalls = IF m.moving THEN m.stalls ELSE 0]] = u
      BY <1>4 DEF Now
    <3>2. QED
      BY <1>1, <1>5, <3>1 DEF Move, l, r, f
  <2> HIDE DEF g
  <2>3. Safe(mv, g)
    BY <1>2, <1>5, <2>1 DEF Safe, Allowed, l, r
  <2>4. Now \in State /\ Now.m = m
    BY NowState DEF Now
  <2>5. Mild(Now, s)
    BY <1>1, <1>2, <2>1, <2>3, <2>4, SendMoveMild
  <2>6. Quiet(Now, u)
    BY <1>3, <2>1, <2>4, QuietUpdate
  <2> HIDE DEF u
  <2>7. Quiet(u, s)
    BY <2>6, SendPlain DEF Plain, Quiet
  <2> HIDE DEF s
  <2>8. QED
    BY <1>1, <2>2, <2>5, <2>6, <2>7, QuietTransitive, ActiveDriving DEF Becomes
<1>6. CASE ~Allowed(m.flags, l, r)
  <2> DEFINE u == [Now EXCEPT !.m = h]
             s == StopWheels(u)
  <2>1. Becomes(s)
    BY <1>1, <1>4, <1>6 DEF Move, l, r, f
  <2>2. Quiet(Now, u) /\ Mild(Now, u)
    <3>1. h.active = m.active /\ h.moving = m.moving /\ h.flags \subseteq m.flags
      BY <1>2, <1>3
    <3>2. Now \in State /\ Now.m = m
      BY NowState DEF Now
    <3>3. QED
      BY <1>3, <3>1, <3>2, QuietUpdate, MildUpdate
  <2> HIDE DEF u
  <2>3. Quiet(u, s) /\ Brakes(u, s)
    BY <2>2, StopWheelsQuiet, StopWheelsBrakes DEF Quiet
  <2> HIDE DEF s
  <2>4. QED
    BY <1>1, <2>1, <2>2, <2>3, QuietTransitive, MildThenBrakes, ActiveDriving DEF Becomes
<1>7. QED
  BY <1>5, <1>6

LEMMA PollDriving ==
    ASSUME MCIInv, Phase, Driving, NEW cmd \in {"GetSensors", "GetMotors"}, Poll(cmd), ~lost'
    PROVE  Driving'
<1> DEFINE s == Send(Now, cmd, "nothing")
<1>1. Quiet(Now, s) /\ Mild(Now, s)
  BY NowState, SendPlain, SendWheels DEF Send, Plain, Cmd, Then
<1>2. Becomes(s) /\ m.active /\ robot' = robot /\ wire' = wire
  BY DEF Poll
<1> HIDE DEF s
<1>3. QED
  BY <1>1, <1>2, ActiveDriving DEF Becomes

LEMMA WatchdogDriving == ASSUME MCIInv, Phase, Driving, Watchdog, ~lost' PROVE Driving'
<1> DEFINE g == [m EXCEPT !.watchdogStopped = TRUE]
           u == [Now EXCEPT !.m = g]
           s == StopWheels(u)
<1>1. m.active /\ robot' = robot /\ wire' = wire /\ m \in Manager
  BY DEF MCIInv, TypeOK, Watchdog
<1>2. g \in Manager /\ g.active = m.active /\ g.enabling = m.enabling
      /\ g.disabling = m.disabling /\ g.moving = m.moving /\ g.flags = m.flags
  BY <1>1 DEF Manager
<1>3. Becomes(s)
  BY DEF Watchdog, Now
<1> HIDE DEF g
<1>4. Quiet(Now, u) /\ Mild(Now, u)
  <2>1. Now \in State /\ Now.m = m
    BY NowState DEF Now
  <2>2. QED
    BY <1>2, <2>1, QuietUpdate, MildUpdate
<1> HIDE DEF u
<1>5. Quiet(u, s) /\ Brakes(u, s)
  BY <1>4, StopWheelsQuiet, StopWheelsBrakes DEF Quiet
<1> HIDE DEF s
<1>6. QED
  BY <1>1, <1>3, <1>4, <1>5, QuietTransitive, MildThenBrakes, ActiveDriving DEF Becomes

LEMMA SensorsReadDriving ==
    ASSUME MCIInv, Phase, Driving, NEW sensors \in SUBSET Contacts, SensorsRead(sensors), ~lost'
    PROVE  Driving'
<1>1. robot' = robot /\ wire' = None /\ ~IsOn(wire, "WheelsDisable")
  BY DEF SensorsRead, IsOn
<1>2. CASE m.active
  <2> DEFINE s == Observed(Now, sensors)
  <2>1. Becomes(s)
    BY <1>2 DEF SensorsRead
  <2>2. Quiet(Now, s) /\ (Mild(Now, s) \/ Brakes(Now, s))
    BY NowState, ObservedQuiet, ObservedWheels
  <2> HIDE DEF s
  <2>3. QED
    BY <1>1, <1>2, <2>1, <2>2, ActiveDriving DEF Becomes
<1>3. CASE ~m.active
  <2>1. Becomes(Now) /\ Mild(Now, Now) /\ m' = m
    BY <1>3, MildReflexive DEF SensorsRead, Becomes, Now
  <2>2. QED
    BY <1>1, <1>3, <2>1, SteadyDriving DEF Becomes
<1>4. QED
  BY <1>2, <1>3

LEMMA LoadReadDriving ==
    ASSUME MCIInv, Phase, Driving, NEW overload \in BOOLEAN, LoadRead(overload), ~lost'
    PROVE  Driving'
<1>1. robot' = robot /\ wire' = None /\ ~IsOn(wire, "WheelsDisable")
  BY DEF LoadRead, IsOn
<1>2. CASE m.active /\ m.moving
  <2> DEFINE s == Loaded(Now, overload)
  <2>1. Becomes(s) /\ m.active
    BY <1>2 DEF LoadRead
  <2>2. Now \in State /\ Counted(Now) /\ Now.m = m
    BY NowState DEF Now
  <2>3. Quiet(Now, s) /\ (Mild(Now, s) \/ Brakes(Now, s))
    BY <1>2, <2>2, LoadedQuiet, LoadedWheels DEF Counted
  <2> HIDE DEF s
  <2>4. QED
    BY <1>1, <2>1, <2>3, ActiveDriving DEF Becomes
<1>3. CASE ~(m.active /\ m.moving)
  <2>1. Becomes(Now) /\ Mild(Now, Now) /\ m' = m
    BY <1>3, MildReflexive DEF LoadRead, Becomes, Now
  <2>2. Entered(m, wire, robot) => ~m.active
    BY ActiveNotEntering DEF Entered
  <2>3. QED
    BY <1>1, <2>1, <2>2, SteadyDriving DEF Becomes
<1>4. QED
  BY <1>2, <1>3

LEMMA WorldDriving == ASSUME MCIInv, Driving, Arrive \/ FallSilent PROVE Driving'
<1>1. m' = m /\ queue' = queue /\ wire' = wire
  BY DEF Arrive, FallSilent
<1>2. robot' = robot \/ (robot'.testMode = robot.testMode /\ robot'.wheels = Stopped)
  BY DEF Arrive, FallSilent, MCIInv, TypeOK, Robot
<1>3. QED
  BY <1>1, <1>2 DEF Driving, Entered, Safe

\* The head of the queue goes on the wire: before TestMode is switched on no
\* move is left.
LEMMA SendNextDriving == ASSUME MCIInv, Phase, Driving, SendNext PROVE Driving'
<1>1. /\ queue \in Seq(Entry) /\ queue # <<>> /\ Len(queue) <= QueueMax
      /\ wire = None /\ wire' = Head(queue) /\ queue' = Tail(queue)
      /\ m' = m /\ robot' = robot
  BY DEF MCIInv, TypeOK, SendNext
<1> DEFINE l == Len(queue)
<1>2. /\ l \in Nat \ {0} /\ DOMAIN queue = 1 .. l
      /\ wire' = queue[1] /\ queue[1] \in Entry
      /\ DOMAIN queue' = 1 .. l - 1
      /\ \A i \in 1 .. l - 1 : queue'[i] = queue[i + 1] /\ i + 1 \in 1 .. l
  BY <1>1, QueueMaxAssumption
<1>3. wire' # None /\ wire = None
  BY <1>1, <1>2, NoneAssumption
<1> HIDE DEF l
<1>4. WheelsFirst(queue')
  <2> SUFFICES ASSUME NEW i \in 1 .. l - 1, NEW j \in 1 .. l - 1, i < j, IsWheels(queue'[j].cmd)
               PROVE  IsWheels(queue'[i].cmd)
    BY <1>2 DEF WheelsFirst
  <2>1. i + 1 < j + 1
    BY <1>2
  <2>2. QED
    BY <1>2, <2>1 DEF Driving, WheelsFirst
<1>5. \A j \in DOMAIN queue : j > 1 => j - 1 \in DOMAIN queue' /\ queue'[j - 1] = queue[j]
  BY <1>2
<1>6. HasStop(queue) => HasStop(queue') \/ wire'.cmd = "WheelsDisable"
  <2> SUFFICES ASSUME NEW j \in DOMAIN queue, queue[j].cmd = "WheelsDisable"
               PROVE  HasStop(queue') \/ wire'.cmd = "WheelsDisable"
    BY DEF HasStop
  <2>1. CASE j = 1
    BY <1>2, <2>1
  <2>2. CASE j > 1
    BY <1>5, <2>2 DEF HasStop
  <2>3. QED
    BY <1>2, <2>1, <2>2
<1>7. ASSUME NEW i \in DOMAIN queue', LooseAt(queue', i)
      PROVE  Safe(queue'[i].move, m)
  <2>1. i + 1 \in DOMAIN queue /\ queue'[i] = queue[i + 1]
    BY <1>2
  <2>2. ASSUME NEW j \in DOMAIN queue, j > i + 1
        PROVE  queue[j].cmd # "WheelsDisable"
    <3>1. j > 1 /\ j - 1 > i
      BY <1>2, <2>2
    <3>2. QED
      BY <1>5, <1>7, <3>1 DEF LooseAt
  <2>3. LooseAt(queue, i + 1)
    BY <1>7, <2>1, <2>2 DEF LooseAt
  <2>4. QED
    BY <2>1, <2>3 DEF Driving, LooseSafe
<1>8. ASSUME ~HasStop(queue'), wire'.cmd = "WheelsMove"
      PROVE  Safe(wire'.move, m)
  <2>1. ~HasStop(queue)
    BY <1>6, <1>8
  <2>2. LooseAt(queue, 1) /\ 1 \in DOMAIN queue
    BY <1>2, <1>8, <2>1 DEF LooseAt, HasStop
  <2>3. QED
    BY <1>2, <2>2 DEF Driving, LooseSafe
<1>9. ~HasStop(queue') /\ wire'.cmd # "WheelsDisable" => Safe(robot.wheels, m)
  BY <1>3, <1>6 DEF Driving, IsOn
<1>10. ASSUME Entered(m, wire', robot)
       PROVE  HasNoMove(queue') /\ wire'.cmd # "WheelsMove" /\ robot.wheels = Stopped
  <2>1. CASE robot.testMode
    <3>1. HasNoMove(queue) /\ robot.wheels = Stopped
      BY <1>10, <2>1 DEF Driving, Entered
    <3>2. QED
      BY <1>2, <3>1 DEF HasNoMove
  <2>2. CASE ~robot.testMode
    <3>1. wire'.cmd = "TestModeOn" /\ robot.wheels = Stopped
      BY <1>10, <2>2 DEF Entered, IsOn, Driving
    <3>2. ASSUME NEW i \in DOMAIN queue'
          PROVE  queue'[i].cmd # "WheelsMove"
      <4>1. i + 1 \in DOMAIN queue /\ 1 \in DOMAIN queue /\ 1 < i + 1 /\ queue'[i] = queue[i + 1]
        BY <1>2
      <4>2. ~IsWheels(queue[1].cmd)
        BY <1>2, <3>1 DEF IsWheels
      <4>3. ~IsWheels(queue[i + 1].cmd)
        BY <4>1, <4>2 DEF Driving, WheelsFirst
      <4>4. QED
        BY <4>1, <4>3 DEF IsWheels
    <3>3. QED
      BY <3>1, <3>2 DEF HasNoMove
  <2>3. QED
    BY <2>1, <2>2
<1>11. QED
  BY <1>1, <1>3, <1>4, <1>7, <1>8, <1>9, <1>10 DEF Driving, LooseSafe, IsOn

LEMMA DoesWheels ==
    ASSUME robot \in Robot, NEW e \in Entry
    PROVE  /\ e.cmd = "WheelsMove" =>
                Does(e).wheels \in {robot.wheels, e.move}
                /\ (~robot.testMode => Does(e).wheels = robot.wheels)
           /\ e.cmd = "TestModeOff" => Does(e).wheels = Stopped
           /\ e.cmd = "WheelsDisable" /\ robot.testMode => Does(e).wheels = Stopped
           /\ e.cmd # "WheelsMove" => Does(e).wheels \in {robot.wheels, Stopped}
BY DEF Robot, Entry, Does

\* The robot has carried a command out.
LEMMA DoneDriving == ASSUME MCIInv, Phase, Driving, Done, ~lost' PROVE Driving'
<1> DEFINE s == Completed(Now, wire, TRUE)
<1>1. wire \in Entry /\ robot \in Robot /\ wire' = None /\ wire # None /\ robot' = Does(wire)
  BY DEF MCIInv, TypeOK, Done
<1>2. Becomes(s) /\ m' = s.m /\ queue' = s.queue /\ ~s.lost
  BY DEF Done, Becomes
<1>3. Now \in State /\ Now.m = m /\ Now.queue = queue /\ Now.lost = lost
  BY NowState DEF Now
<1>4. robot'.testMode = IF wire.cmd = "TestModeOn" THEN TRUE
                        ELSE IF wire.cmd = "TestModeOff" THEN FALSE ELSE robot.testMode
  BY <1>1, DoesRobot
<1>5. \A cmd : IsOn(wire, cmd) <=> wire.cmd = cmd
  BY <1>1 DEF IsOn
<1>6. \A cmd : ~IsOn(wire', cmd)
  BY <1>1 DEF IsOn
<1>7. ~robot'.testMode => robot'.wheels = Stopped
  <2>1. CASE wire.cmd = "TestModeOff"
    BY <1>1, <2>1, DoesWheels
  <2>2. CASE wire.cmd # "TestModeOff"
    BY <1>1, <1>4, <2>2, DoesWheels DEF Driving
  <2>3. QED
    BY <2>1, <2>2
<1>8. ~HasStop(queue) => Safe(robot'.wheels, m)
  <2> SUFFICES ASSUME ~HasStop(queue)
               PROVE  Safe(robot'.wheels, m)
    OBVIOUS
  <2>1. CASE wire.cmd = "WheelsDisable"
    <3>1. robot'.wheels = Stopped
      BY <1>1, <2>1, DoesWheels DEF Driving
    <3>2. QED
      BY <3>1 DEF Safe
  <2>2. CASE wire.cmd = "WheelsMove"
    BY <1>1, <1>5, <2>2, DoesWheels DEF Driving
  <2>3. CASE wire.cmd \notin {"WheelsDisable", "WheelsMove"}
    <3>1. Safe(robot.wheels, m) /\ Safe(Stopped, m)
      BY <1>5, <2>3 DEF Driving, Safe
    <3>2. QED
      BY <1>1, <2>3, <3>1, DoesWheels
  <2>4. QED
    BY <2>1, <2>2, <2>3
<1>9. Entered(m, wire, robot) => robot'.wheels = Stopped /\ HasNoMove(queue)
  BY <1>1, <1>5, DoesWheels DEF Driving
<1>10. CASE wire.then = "enable2"
  <2>1. wire.cmd = "LdsOn" /\ m.enabling /\ robot.testMode
    BY <1>1, <1>10 DEF Phase, AtRest, OnWire, Waiting, IsPlain, Stage, Entering
  <2>2. s = Activated(Now)
    BY <1>10, <2>1 DEF Completed
  <2>3. s.queue = queue /\ ~s.m.enabling
    BY <1>3, <2>2, ActivatedState
  <2>4. HasNoMove(queue) /\ robot'.wheels = Stopped
    BY <1>9, <2>1 DEF Entered
  <2>5. LooseSafe(queue', m') /\ Safe(robot'.wheels, m')
    BY <1>2, <2>3, <2>4 DEF HasNoMove, LooseSafe, LooseAt, Safe
  <2>6. ~Entered(m', wire', robot')
    BY <1>2, <2>3 DEF Entered
  <2>7. WheelsFirst(queue')
    BY <1>2, <2>3 DEF Driving
  <2>8. QED
    BY <1>6, <1>7, <2>5, <2>6, <2>7 DEF Driving
<1>11. CASE wire.then # "enable2"
  <2>1. Mild(Now, s)
    BY <1>1, <1>3, <1>11, CompletedWheels
  <2>2. m'.enabling => m.enabling
    <3>1. CASE wire.cmd = "WheelsDisable"
      <4>1. s = Send(Now, "WheelsEnable", wire.then)
        BY <3>1 DEF Completed
      <4>2. wire.then \in Then /\ "WheelsEnable" \in Cmd
        BY <1>1 DEF Entry, Cmd
      <4>3. QED
        BY <1>2, <1>3, <4>1, <4>2, SendMoveState DEF Send
    <3>2. CASE IsPlain(wire) /\ wire.cmd # "WheelsDisable"
      <4>1. s = Now
        BY <3>2 DEF Completed, IsPlain
      <4>2. QED
        BY <1>2, <1>3, <4>1
    <3>3. CASE ~IsPlain(wire) /\ wire.cmd # "WheelsDisable"
      <4>1. Stage(wire, m, robot)
        BY <1>1, <3>3 DEF Phase, AtRest, OnWire, Waiting
      <4>2. CASE wire.then = "enable1"
        BY <4>1, <4>2 DEF Stage, Entering
      <4>3. CASE wire.then = "disable1"
        <5>1. s = Send(StopAllMotors(Now), "LdsOff", "disable2")
          BY <3>3, <4>3 DEF Completed
        <5>2. Sends(Now, s, "LdsOff", "disable2")
          BY <1>3, <5>1, MotorsThenLds
        <5>3. QED
          BY <1>2, <1>3, <5>2 DEF Sends
      <4>4. CASE wire.then = "disable2"
        <5>1. s = Send(Now, "TestModeOff", "disable3")
          BY <3>3, <4>4 DEF Completed
        <5>2. QED
          BY <1>2, <1>3, <5>1, SendMoveState DEF Send, Cmd, Then
      <4>5. CASE wire.then = "disable3"
        <5>1. s = [Now EXCEPT !.m.active = FALSE, !.m.disabling = FALSE]
          BY <3>3, <4>5 DEF Completed
        <5>2. QED
          BY <1>2, <1>3, <5>1, NowState, LeftState
      <4>6. QED
        BY <1>11, <4>1, <4>2, <4>3, <4>4, <4>5 DEF Stage
    <3>4. QED
      BY <3>1, <3>2, <3>3
  <2>3. ASSUME Entered(m', wire', robot')
        PROVE  HasNoMove(queue') /\ robot'.wheels = Stopped
    <3>1. m.enabling /\ robot'.testMode
      BY <1>6, <2>2, <2>3 DEF Entered
    <3>2. Entered(m, wire, robot)
      BY <1>4, <1>5, <3>1 DEF Entered
    <3>3. ~m.active
      BY <3>1, ActiveNotEntering
    <3>4. QED
      BY <1>2, <1>3, <1>9, <2>1, <3>2, <3>3 DEF Mild, Orderly, Driving
  <2>4. /\ WheelsFirst(queue') /\ LooseSafe(queue', m')
        /\ HasStop(queue) => HasStop(queue')
        /\ \A mv : Safe(mv, m) => Safe(mv, m')
    BY <1>2, <1>3, <2>1 DEF Mild, Orderly, Driving
  <2>5. QED
    BY <1>6, <1>7, <1>8, <2>3, <2>4 DEF Driving
<1>12. QED
  BY <1>10, <1>11

\* What was lost stays lost, a sequence given up stays given up.
LEMMA HistoryStays ==
    ASSUME MCIInv, Next
    PROVE  (lost => lost') /\ (overdue => overdue')
<1>1. /\ Now \in State /\ Counted(Now) /\ Now.m = m /\ Now.lost = lost
      /\ m \in Manager /\ lost \in BOOLEAN
  BY NowState DEF Now, MCIInv, TypeOK
<1>2. \A g \in Manager : [Now EXCEPT !.m = g] \in State /\ [Now EXCEPT !.m = g].lost = lost
  BY <1>1 DEF State
<1>3. \A s \in State, cmd \in Cmd, move \in Moves \cup {Stopped}, then \in Then :
        SendMove(s, cmd, move, then) \in State /\ (s.lost => SendMove(s, cmd, move, then).lost)
  BY SendMoveState
<1>4. \A s \in State : s.lost => StopWheels(s).lost
  BY StopWheelsQuiet DEF Quiet
<1>5. overdue => overdue'
  <2>1. CASE Enable \/ Disable \/ Stop \/ SetMotors
    BY <2>1 DEF Enable, Disable, Stop, SetMotors, Call
  <2>2. ASSUME NEW mv \in Moves, Move(mv[1], mv[2])
        PROVE  overdue' = overdue
    BY <2>2 DEF Move, Call
  <2>3. CASE PollBumpers \/ PollStall \/ Watchdog \/ EnableTimeout
    BY <2>3 DEF PollBumpers, PollStall, Poll, Watchdog, EnableTimeout
  <2>4. CASE SendNext \/ Fail \/ Done \/ Arrive \/ FallSilent
    BY <2>4 DEF SendNext, Fail, Done, Arrive, FallSilent
  <2>5. ASSUME NEW sensors \in SUBSET Contacts, SensorsRead(sensors)
        PROVE  overdue' = overdue
    BY <2>5 DEF SensorsRead
  <2>6. ASSUME NEW overload \in BOOLEAN, LoadRead(overload)
        PROVE  overdue' = overdue
    BY <2>6 DEF LoadRead
  <2>7. QED
    BY <2>1, <2>2, <2>3, <2>4, <2>5, <2>6 DEF Next, Line
<1> SUFFICES ASSUME lost
             PROVE  lost'
  BY <1>5
<1>6. CASE Enable
  <2> DEFINE g == [m EXCEPT !.enabling = TRUE]
  <2>1. g \in Manager /\ Becomes(Send([Now EXCEPT !.m = g], "TestModeOn", "enable1"))
    BY <1>1, <1>6 DEF Enable, Manager, Now
  <2> HIDE DEF g
  <2>2. QED
    BY <1>2, <1>3, <2>1 DEF Becomes, Send, Cmd, Then
<1>7. CASE Disable
  <2> DEFINE g == [m EXCEPT !.disabling = TRUE]
  <2>1. g \in Manager /\ Becomes(Send([Now EXCEPT !.m = g], "WheelsDisable", "disable1"))
    BY <1>1, <1>7 DEF Disable, Manager, Now
  <2> HIDE DEF g
  <2>2. QED
    BY <1>2, <1>3, <2>1 DEF Becomes, Send, Cmd, Then
<1>8. CASE Stop
  BY <1>1, <1>4, <1>8 DEF Stop, Becomes
<1>9. CASE SetMotors
  <2> DEFINE cmd == IF m.vacuumOn THEN "VacuumOff" ELSE "VacuumOn"
             u == Send(Now, cmd, "nothing")
  <2>1. u \in State /\ u.lost
    BY <1>1, <1>3 DEF Send, Cmd, Then
  <2>2. Becomes([u EXCEPT !.m.vacuumOn = ~@])
    BY <1>9 DEF SetMotors
  <2> HIDE DEF u
  <2>3. QED
    BY <2>1, <2>2 DEF State, Becomes
<1>10. ASSUME NEW mv \in Moves, Move(mv[1], mv[2])
       PROVE  lost'
  <2> DEFINE l == mv[1]
             r == mv[2]
             f == Cleared(m.flags, l, r)
             h == [m EXCEPT !.flags = f]
             k == IF m.moving THEN m.stalls ELSE 0
             g == [h EXCEPT !.last = <<l, r>>, !.moving = TRUE, !.stalls = k]
  <2>1. mv = <<l, r>> /\ k \in 0 .. StallCount /\ f \in SUBSET Flag
    BY <1>1, MovesAssumption DEF StallCount, Manager, Cleared
  <2> HIDE DEF f, k
  <2>2. h \in Manager
    BY <1>1, <2>1 DEF Manager
  <2>3. g \in Manager
    BY <2>1, <2>2 DEF Manager
  <2>4. [Now EXCEPT !.m.flags = f] = [Now EXCEPT !.m = h]
    BY DEF Now
  <2> HIDE DEF h
  <2>5. CASE Allowed(m.flags, l, r)
    <3>1. [[Now EXCEPT !.m.flags = f] EXCEPT !.m = [@ EXCEPT !.last = <<l, r>>, !.moving = TRUE,
                                                         !.stalls = k]]
            = [Now EXCEPT !.m = g]
      BY <2>4 DEF Now
    <3>2. Becomes(SendMove([Now EXCEPT !.m = g], "WheelsMove", <<l, r>>, "nothing"))
      BY <1>10, <2>5, <3>1 DEF Move, f, k
    <3> HIDE DEF g
    <3>3. [Now EXCEPT !.m = g] \in State /\ [Now EXCEPT !.m = g].lost
      BY <1>2, <2>3
    <3>4. <<l, r>> \in Moves \cup {Stopped} /\ "WheelsMove" \in Cmd /\ "nothing" \in Then
      BY <2>1 DEF Cmd, Then
    <3>5. QED
      BY <1>3, <3>2, <3>3, <3>4 DEF Becomes
  <2>6. CASE ~Allowed(m.flags, l, r)
    <3>1. Becomes(StopWheels([Now EXCEPT !.m = h]))
      BY <1>10, <2>4, <2>6 DEF Move, f
    <3>2. QED
      BY <1>2, <1>4, <2>2, <3>1 DEF Becomes
  <2>7. QED
    BY <2>5, <2>6
<1>11. CASE PollBumpers \/ PollStall
  BY <1>1, <1>3, <1>11 DEF PollBumpers, PollStall, Poll, Send, Becomes, Cmd, Then
<1>12. CASE Watchdog
  <2> DEFINE g == [m EXCEPT !.watchdogStopped = TRUE]
  <2>1. g \in Manager /\ Becomes(StopWheels([Now EXCEPT !.m = g]))
    BY <1>1, <1>12 DEF Watchdog, Manager, Now
  <2> HIDE DEF g
  <2>2. QED
    BY <1>2, <1>4, <2>1 DEF Becomes
<1>13. CASE Fail
  <2> DEFINE u == [Now EXCEPT !.lost = TRUE]
  <2>1. wire \in Entry /\ u \in State /\ Counted(u) /\ u.lost
    BY <1>1, <1>13 DEF MCIInv, TypeOK, Fail, State, Counted
  <2>2. Becomes(Completed(u, wire, FALSE))
    BY <1>13 DEF Fail
  <2> HIDE DEF u
  <2>3. QED
    BY <2>1, <2>2, CompletedState DEF Becomes
<1>14. CASE Done
  BY <1>1, <1>14, CompletedState DEF MCIInv, TypeOK, Done, Becomes
<1>15. ASSUME NEW sensors \in SUBSET Contacts, SensorsRead(sensors)
       PROVE  lost'
  BY <1>1, <1>15, ObservedQuiet DEF SensorsRead, Quiet, Becomes
<1>16. ASSUME NEW overload \in BOOLEAN, LoadRead(overload)
       PROVE  lost'
  BY <1>1, <1>16, LoadedQuiet DEF LoadRead, Quiet, Becomes
<1>17. CASE EnableTimeout \/ SendNext \/ Arrive \/ FallSilent
  BY <1>17 DEF EnableTimeout, SendNext, Arrive, FallSilent
<1>18. QED
  BY <1>6, <1>7, <1>8, <1>9, <1>10, <1>11, <1>12, <1>13, <1>14, <1>15, <1>16, <1>17
     DEF Next, Line

-----------------------------------------------------------------------------
(* The theorems about the wheels.                                          *)

LEMMA NextMCDInv == MCDInv /\ [Next]_vars => MCDInv'
<1> SUFFICES ASSUME MCDInv, [Next]_vars
             PROVE  MCDInv'
  OBVIOUS
<1>1. MCIInv /\ MCIInv'
  BY NextMCIInv DEF MCDInv
<1>2. CASE UNCHANGED vars
  BY <1>1, <1>2 DEF vars, MCDInv, Driving, Entered, IsOn
<1>3. CASE Next
  <2> SUFFICES ASSUME ~lost', ~overdue'
               PROVE  Driving'
    BY <1>1 DEF MCDInv
  <2>1. ~lost /\ ~overdue
    BY <1>1, <1>3, HistoryStays
  <2>2. Phase /\ Driving
    BY <1>1, <2>1 DEF MCDInv, MCIInv
  <2>3. CASE Enable \/ Disable \/ Stop \/ SetMotors
    BY <1>1, <2>2, <2>3, EnableDriving, DisableDriving, StopDriving, SetMotorsDriving
  <2>4. CASE \E mv \in Moves : Move(mv[1], mv[2])
    BY <1>1, <2>2, <2>4, MoveDriving
  <2>5. CASE EnableTimeout
    BY <2>5 DEF EnableTimeout
  <2>6. CASE PollBumpers \/ PollStall
    BY <1>1, <2>2, <2>6, PollDriving DEF PollBumpers, PollStall
  <2>7. CASE Watchdog
    BY <1>1, <2>2, <2>7, WatchdogDriving
  <2>8. CASE SendNext
    BY <1>1, <2>2, <2>8, SendNextDriving
  <2>9. CASE Fail
    <3> DEFINE u == [Now EXCEPT !.lost = TRUE]
    <3>1. wire \in Entry /\ u \in State /\ Counted(u) /\ u.lost
      BY <1>1, <2>9, NowState DEF MCIInv, TypeOK, Fail, Now, State, Counted
    <3>2. Becomes(Completed(u, wire, FALSE))
      BY <2>9 DEF Fail
    <3> HIDE DEF u
    <3>3. QED
      BY <3>1, <3>2, CompletedState DEF Becomes
  <2>10. CASE Done
    BY <1>1, <2>2, <2>10, DoneDriving
  <2>11. CASE \E sensors \in SUBSET Contacts : SensorsRead(sensors)
    BY <1>1, <2>2, <2>11, SensorsReadDriving
  <2>12. CASE \E overload \in BOOLEAN : LoadRead(overload)
    BY <1>1, <2>2, <2>12, LoadReadDriving
  <2>13. CASE Arrive \/ FallSilent
    BY <1>1, <2>2, <2>13, WorldDriving
  <2>14. QED
    BY <1>3, <2>3, <2>4, <2>5, <2>6, <2>7, <2>8, <2>9, <2>10, <2>11, <2>12, <2>13 DEF Next, Line
<1>4. QED
  BY <1>2, <1>3

\* Whatever no stop follows is safe, in every state that lost no command.
LEMMA AlwaysDriving == Spec => []MCDInv
<1>1. QED
  BY InitMCDInv, NextMCDInv, PTL DEF Spec

(* Once everything sent has been carried out, a robot seen off the floor    *)
(* stands still, and one against a front bumper does not drive forward      *)
(* (manual_clean_manager.cpp:283-300), for any moves, sensors and queue     *)
(* limit: a stop overtakes nothing that moves, and nothing that moves       *)
(* overtakes it.                                                            *)
THEOREM ContactsAreHeeded == Spec => []ContactStops
<1>1. MCDInv => ContactStops
  <2> SUFFICES ASSUME MCDInv, Settled
               PROVE  ContactStops
    BY DEF ContactStops
  <2>1. Safe(robot.wheels, m)
    BY DEF Settled, MCDInv, Driving, HasStop, IsOn
  <2>2. ~Forward(Stopped[1], Stopped[2])
    BY DEF Stopped, Forward
  <2>3. QED
    BY <2>1, <2>2 DEF Safe, ContactStops
<1>2. QED
  BY <1>1, AlwaysDriving, PTL

(* The stall detection is never blind: wheels that turn, when the line is   *)
(* quiet, are wheels the manager polls the load of                          *)
(* (manual_clean_manager.cpp:245).                                          *)
THEOREM TurningIsWatched == Spec => []MotionIsWatched
<1>1. MCDInv => MotionIsWatched
  BY DEF MotionIsWatched, Settled, MCDInv, Driving, HasStop, IsOn, Safe
<1>2. QED
  BY <1>1, AlwaysDriving, PTL
=============================================================================
