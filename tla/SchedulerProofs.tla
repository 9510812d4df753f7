--------------------------- MODULE SchedulerProofs ---------------------------
(***************************************************************************)
(* Proofs about Scheduler, for every schedule, every window and delay, and *)
(* any order of ticks, answers, commands, faults, requests of the user and *)
(* restarts of the robot.  Where a theorem needs the power to stay on or   *)
(* the times to leave room for each other, its hypotheses say so; they are *)
(* defined below as Apart, Timely, Spread and Quick.                       *)
(*                                                                         *)
(* The handlers of the bridge are functions on the record Now of all it    *)
(* holds.  The lemmas follow such a value through the calls of a handler:  *)
(* s is what the bridge holds, R the reads whose answer is being handed    *)
(* out, A those of them still to be, t the time, w the slow ticks so far.  *)
(***************************************************************************)
EXTENDS Scheduler, FiniteSetTheorems, SequenceTheorems, WellFoundedInduction, TLAPS

-----------------------------------------------------------------------------
(* What the helpers of the scheduler do to what the bridge holds.  Mem is  *)
(* the type of the record Now: the Scheduler object, what is kept over *)
(* a reboot, the queues.                                                   *)
Purpose == {"ahead", "slot", "boot", "auto"}
Rams == [fired: SUBSET Slot, firedAuto: BOOLEAN, pending: Slot \cup {None}, issuedAt: 0 .. End,
         aheadPending: BOOLEAN]
Logs == [cleaned: [Slot -> 0 .. 2], restarted: [Slot -> 0 .. 2], skipped: SUBSET Slot,
         excused: SUBSET Slot, wild: BOOLEAN]
Mem == [ram: Rams, prepared: Slot \cup {None}, skip: BOOLEAN, uptime: 0 .. Grace,
        rebootPending: BOOLEAN, reads: Seq(Read), charger: Slot \cup {None}, orders: Seq(Order),
        log: Logs]

LEMMA UpIs == \A n \in 0 .. 2 : Up(n) \in 0 .. 2 /\ Up(n) > 0 /\ Up(n) >= n /\ (n = 0 => Up(n) = 1)
BY DEF Up

LEMMA ExcuseIs ==
    ASSUME NEW s \in Mem, NEW slots \in SUBSET Slot
    PROVE  LET t == Excuse(s, slots)
           IN  /\ t \in Mem
               /\ t.log = [s.log EXCEPT !.excused = @ \cup slots]
               /\ t.ram = s.ram /\ t.prepared = s.prepared /\ t.skip = s.skip
               /\ t.rebootPending = s.rebootPending /\ t.reads = s.reads
               /\ t.charger = s.charger /\ t.orders = s.orders
BY DEF Excuse, Mem, Logs

LEMMA AskIs ==
    ASSUME NEW s \in Mem, NEW for \in Purpose, NEW slot \in Slot \cup {None}, NEW first \in BOOLEAN
    PROVE  LET t == Ask(s, for, slot, first)
           IN  /\ t \in Mem
               /\ t.reads = Append(s.reads, [for |-> for, slot |-> slot, first |-> first])
               /\ t.ram = s.ram /\ t.prepared = s.prepared /\ t.skip = s.skip
               /\ t.rebootPending = s.rebootPending /\ t.log = s.log
               /\ t.charger = s.charger /\ t.orders = s.orders
<1> DEFINE t == Ask(s, for, slot, first)
           r == [for |-> for, slot |-> slot, first |-> first]
<1>1. r \in Read /\ s.reads \in Seq(Read)
  BY DEF Read, Purpose, Mem
<1>2. Append(s.reads, r) \in Seq(Read)
  BY <1>1, AppendProperties
<1>3. t = [s EXCEPT !.reads = Append(s.reads, r)]
  BY DEF Ask
<1> HIDE DEF r, t
<1>4. t \in Mem /\ t.reads = Append(s.reads, r)
      /\ \A x \in DOMAIN s : x # "reads" => t[x] = s[x]
  BY <1>2, <1>3 DEF Mem
<1>5. QED
  BY <1>3, <1>4 DEF r, t, Mem

LEMMA CommandIs ==
    ASSUME NEW s \in Mem, NEW cmd \in {"restart", "clean"}, NEW for \in Purpose,
           NEW slot \in Slot \cup {None}
    PROVE  LET t == Command(s, cmd, for, slot)
           IN  /\ t \in Mem
               /\ t.orders = Append(s.orders, [cmd |-> cmd, for |-> for, slot |-> slot])
               /\ t.ram = s.ram /\ t.prepared = s.prepared /\ t.skip = s.skip
               /\ t.rebootPending = s.rebootPending /\ t.log = s.log
               /\ t.charger = s.charger /\ t.reads = s.reads
<1> DEFINE t == Command(s, cmd, for, slot)
           o == [cmd |-> cmd, for |-> for, slot |-> slot]
<1>1. o \in Order /\ s.orders \in Seq(Order)
  BY DEF Order, Purpose, Mem
<1>2. Append(s.orders, o) \in Seq(Order)
  BY <1>1, AppendProperties
<1>3. t = [s EXCEPT !.orders = Append(s.orders, o)]
  BY DEF Command
<1> HIDE DEF o, t
<1>4. t \in Mem /\ t.orders = Append(s.orders, o)
      /\ \A x \in DOMAIN s : x # "orders" => t[x] = s[x]
  BY <1>2, <1>3 DEF Mem
<1>5. QED
  BY <1>3, <1>4 DEF o, t, Mem

LEMMA ClearIs ==
    ASSUME NEW s \in Mem
    PROVE  LET t == ClearPendingClean(s)
           IN  /\ t \in Mem
               /\ t.ram = [s.ram EXCEPT !.pending = None, !.issuedAt = 0]
               /\ t.prepared = s.prepared /\ t.skip = s.skip
               /\ t.rebootPending = s.rebootPending /\ t.log = s.log
               /\ t.charger = s.charger /\ t.reads = s.reads /\ t.orders = s.orders
<1> DEFINE t == ClearPendingClean(s)
           a == [s.ram EXCEPT !.pending = None]
           b == [a EXCEPT !.issuedAt = 0]
<1>1. 0 \in 0 .. End
  BY TimesAssumption
<1>2. a \in Rams /\ b \in Rams
  BY <1>1 DEF Mem, Rams
<1>3. t = [s EXCEPT !.ram = b]
  BY DEF ClearPendingClean, Mem, Rams
<1> HIDE DEF a, b, t
<1>4. t \in Mem /\ t.ram = b /\ \A x \in DOMAIN s : x # "ram" => t[x] = s[x]
  BY <1>2, <1>3 DEF Mem
<1>5. QED
  BY <1>3, <1>4 DEF a, b, t, Mem

LEMMA TriggerIs ==
    ASSUME NEW s \in Mem, NEW for \in {"slot", "boot"}, NEW slot \in Slot, NEW garbage
    PROVE  LET t == TriggerClean(s, for, slot, garbage)
           IN  /\ t \in Mem
               /\ t.orders = Append(s.orders, [cmd |-> "clean", for |-> for, slot |-> slot])
               /\ t.log = [s.log EXCEPT !.cleaned[slot] = Up(@)]
               /\ t.ram = s.ram /\ t.prepared = s.prepared /\ t.skip = s.skip
               /\ t.rebootPending = s.rebootPending
               /\ t.charger = s.charger /\ t.reads = s.reads
<1> DEFINE c == Command(s, "clean", for, slot)
           t == TriggerClean(s, for, slot, garbage)
<1>1. slot # None
  BY AtAssumption
<1>2. t = [c EXCEPT !.log.cleaned[slot] = Up(@)]
  BY <1>1 DEF TriggerClean
<1>3. /\ c \in Mem
      /\ c.orders = Append(s.orders, [cmd |-> "clean", for |-> for, slot |-> slot])
      /\ c.ram = s.ram /\ c.prepared = s.prepared /\ c.skip = s.skip
      /\ c.rebootPending = s.rebootPending /\ c.log = s.log
      /\ c.charger = s.charger /\ c.reads = s.reads
  BY CommandIs DEF Purpose
<1> HIDE DEF c
<1>4. t.log = [s.log EXCEPT !.cleaned[slot] = Up(@)]
  BY <1>2, <1>3 DEF Mem, Logs
<1>5. t.log \in Logs
  BY <1>3, <1>4, UpIs, SMTT(60) DEF Mem, Logs
<1>6. QED
  BY <1>2, <1>3, <1>4, <1>5 DEF Mem

-----------------------------------------------------------------------------
(* Reads of the robot's state and orders to it, one by one.  A slot is at  *)
(* most once on either queue.                                              *)
\* A read for a slot's clean, and a restart ordered for one.
ReadOf(r, y) == r.for = "slot" /\ r.slot = y
RestartOf(o, y) == o.cmd = "restart" /\ o.for = "slot" /\ o.slot = y

Asked(R, A, y) == \E i \in A : ReadOf(R[i], y)
Ordered(q, y) == \E i \in DOMAIN q : RestartOf(q[i], y)
Closed(l, y) == l.cleaned[y] > 0 \/ y \in l.skipped

OneRead(R, A) == \A y \in Slot : \A i, j \in A : ReadOf(R[i], y) /\ ReadOf(R[j], y) => i = j
OneOrder(q) ==
    \A y \in Slot : \A i, j \in DOMAIN q : RestartOf(q[i], y) /\ RestartOf(q[j], y) => i = j

ReadFormed(r) == r.slot = None <=> r.for \in {"boot", "auto"}
OrderFormed(o) ==
    /\ o.for \in {"ahead", "slot"} => o.slot \in Slot
    /\ o.cmd = "clean" => o.for \in {"slot", "boot"}
    /\ o.cmd = "restart" => o.for \in {"slot", "ahead", "auto"}

LEMMA AppendedOrder ==
    ASSUME NEW q \in Seq(Order), NEW o \in Order
    PROVE  LET p == Append(q, o)
           IN  /\ \A y : Ordered(p, y) <=> Ordered(q, y) \/ RestartOf(o, y)
               /\ \A i \in DOMAIN p : p[i] = o \/ \E j \in DOMAIN q : p[i] = q[j]
               /\ OneOrder(q) /\ (\A y \in Slot : RestartOf(o, y) => ~Ordered(q, y)) => OneOrder(p)
<1> DEFINE p == Append(q, o)
           n == Len(q) + 1
<1>1. /\ p \in Seq(Order) /\ DOMAIN p = 1 .. n /\ DOMAIN q = 1 .. Len(q) /\ Len(q) \in Nat
      /\ p[n] = o
      /\ \A i \in DOMAIN q : p[i] = q[i]
  BY AppendProperties
<1>2. \A i \in DOMAIN p : i = n \/ i \in DOMAIN q
  BY <1>1
<1>3. n \in DOMAIN p /\ DOMAIN q \subseteq DOMAIN p /\ n \notin DOMAIN q
  BY <1>1
<1> HIDE DEF p, n
<1>4. \A y : Ordered(p, y) <=> Ordered(q, y) \/ RestartOf(o, y)
  BY <1>1, <1>2, <1>3, Zenon DEF Ordered
<1>5. \A i \in DOMAIN p : p[i] = o \/ \E j \in DOMAIN q : p[i] = q[j]
  BY <1>1, <1>2, Zenon
<1>6. ASSUME OneOrder(q), \A y \in Slot : RestartOf(o, y) => ~Ordered(q, y)
      PROVE  OneOrder(p)
  BY <1>1, <1>2, <1>6, Zenon DEF OneOrder, Ordered
<1>7. QED
  BY <1>4, <1>5, <1>6 DEF p

LEMMA TakenOrder ==
    ASSUME NEW q \in Seq(Order), q # <<>>
    PROVE  /\ Head(q) \in Order /\ Tail(q) \in Seq(Order) /\ 1 \in DOMAIN q /\ q[1] = Head(q)
           /\ \A i \in DOMAIN Tail(q) : \E j \in DOMAIN q : Tail(q)[i] = q[j]
           /\ \A y : Ordered(Tail(q), y) => Ordered(q, y)
           /\ OneOrder(q) => OneOrder(Tail(q))
           /\ OneOrder(q) => \A y \in Slot : RestartOf(Head(q), y) => ~Ordered(Tail(q), y)
<1> DEFINE p == Tail(q)
<1>1. /\ Head(q) \in Order /\ p \in Seq(Order) /\ 1 \in DOMAIN q /\ q[1] = Head(q)
      /\ Len(q) \in Nat \ {0} /\ DOMAIN q = 1 .. Len(q)
      /\ DOMAIN p = 1 .. Len(q) - 1 /\ \A i \in DOMAIN p : p[i] = q[i + 1]
  BY HeadTailProperties
<1>2. \A i \in DOMAIN p : i \in Int /\ i + 1 \in DOMAIN q /\ i + 1 # 1
  BY <1>1
<1>3. \A i, j \in DOMAIN p : i + 1 = j + 1 => i = j
  BY <1>2
<1> HIDE DEF p
<1>4. \A i \in DOMAIN p : \E j \in DOMAIN q : p[i] = q[j]
  BY <1>1, <1>2
<1>5. \A y : Ordered(p, y) => Ordered(q, y)
  BY <1>4 DEF Ordered
<1>6. OneOrder(q) => OneOrder(p)
  <2> SUFFICES ASSUME OneOrder(q), NEW y \in Slot, NEW i \in DOMAIN p, NEW j \in DOMAIN p,
                      RestartOf(p[i], y), RestartOf(p[j], y)
               PROVE  i = j
    BY DEF OneOrder
  <2>1. RestartOf(q[i + 1], y) /\ RestartOf(q[j + 1], y) /\ i + 1 \in DOMAIN q /\ j + 1 \in DOMAIN q
    BY <1>1, <1>2
  <2>2. i + 1 = j + 1
    BY <2>1 DEF OneOrder
  <2>3. QED
    BY <1>3, <2>2
<1>7. OneOrder(q) => \A y \in Slot : RestartOf(Head(q), y) => ~Ordered(p, y)
  <2> SUFFICES ASSUME OneOrder(q), NEW y \in Slot, RestartOf(Head(q), y), NEW i \in DOMAIN p,
                      RestartOf(p[i], y)
               PROVE  FALSE
    BY DEF Ordered
  <2>1. RestartOf(q[i + 1], y) /\ RestartOf(q[1], y) /\ i + 1 \in DOMAIN q /\ 1 \in DOMAIN q
    BY <1>1, <1>2
  <2>2. QED
    BY <1>2, <2>1 DEF OneOrder
<1>8. QED
  BY <1>1, <1>4, <1>5, <1>6, <1>7 DEF p

LEMMA AppendedRead ==
    ASSUME NEW q \in Seq(Read), NEW r \in Read
    PROVE  LET p == Append(q, r)
           IN  /\ p \in Seq(Read)
               /\ \A y : Asked(p, DOMAIN p, y) <=> Asked(q, DOMAIN q, y) \/ ReadOf(r, y)
               /\ \A i \in DOMAIN p : p[i] = r \/ \E j \in DOMAIN q : p[i] = q[j]
               /\ OneRead(q, DOMAIN q) /\ (\A y \in Slot : ReadOf(r, y) => ~Asked(q, DOMAIN q, y))
                    => OneRead(p, DOMAIN p)
<1> DEFINE p == Append(q, r)
           n == Len(q) + 1
<1>1. /\ p \in Seq(Read) /\ DOMAIN p = 1 .. n /\ DOMAIN q = 1 .. Len(q) /\ Len(q) \in Nat
      /\ p[n] = r
      /\ \A i \in DOMAIN q : p[i] = q[i]
  BY AppendProperties
<1>2. \A i \in DOMAIN p : i = n \/ i \in DOMAIN q
  BY <1>1
<1>3. n \in DOMAIN p /\ DOMAIN q \subseteq DOMAIN p /\ n \notin DOMAIN q
  BY <1>1
<1> HIDE DEF p, n
<1>4. \A y : Asked(p, DOMAIN p, y) <=> Asked(q, DOMAIN q, y) \/ ReadOf(r, y)
  BY <1>1, <1>2, <1>3, Zenon DEF Asked
<1>5. \A i \in DOMAIN p : p[i] = r \/ \E j \in DOMAIN q : p[i] = q[j]
  BY <1>1, <1>2, Zenon
<1>6. ASSUME OneRead(q, DOMAIN q), \A y \in Slot : ReadOf(r, y) => ~Asked(q, DOMAIN q, y)
      PROVE  OneRead(p, DOMAIN p)
  BY <1>1, <1>2, <1>6, Zenon DEF OneRead, Asked
<1>7. QED
  BY <1>1, <1>4, <1>5, <1>6 DEF p

-----------------------------------------------------------------------------
(* Where a slot may be: the invariant behind CleansOnce and SkipIsKept,    *)
(* stated of any value of what the bridge holds, so that the calls of one  *)
(* handler can be followed one after another.                              *)
\* The restart ahead of a slot is due, or was w ticks ago.
Near(x, t, w) == x \in Slot /\ At[x] <= t + Lead /\ t + Lead < At[x] + LeadWindow + w

AheadNear(s, R, A, t, w) ==
    /\ \A i \in A : R[i].for = "ahead" => Near(R[i].slot, t, w)
    /\ s.charger # None => Near(s.charger, t, w)
    /\ \A i \in DOMAIN s.orders : s.orders[i].for = "ahead" => Near(s.orders[i].slot, t, w)
    /\ s.rebootPending => \E x \in Slot : Near(x, t, w)

\* A slot is asked for, ordered a restart for, awaited after it or closed, but
\* one of these at most; its window has begun, and if it may fire again it is over.
Begun(s, t, y) == t >= At[y] /\ (y \in s.ram.fired \/ t >= At[y] + Window)
Single(s, R, A, y) ==
    /\ ~(Asked(R, A, y) /\ Ordered(s.orders, y)) /\ ~(Asked(R, A, y) /\ s.ram.pending = y)
    /\ ~(Asked(R, A, y) /\ Closed(s.log, y)) /\ ~(Ordered(s.orders, y) /\ s.ram.pending = y)
    /\ ~(Ordered(s.orders, y) /\ Closed(s.log, y)) /\ ~(s.ram.pending = y /\ Closed(s.log, y))
Claimed(s, R, A, y) ==
    Asked(R, A, y) \/ Ordered(s.orders, y) \/ s.ram.pending = y \/ Closed(s.log, y)
PerSlot(s, R, A, t, y) ==
    /\ Single(s, R, A, y)
    /\ Claimed(s, R, A, y) => Begun(s, t, y)
    /\ s.log.cleaned[y] <= 1
    /\ y \in s.log.skipped => s.log.cleaned[y] = 0

Formed(s, R, A, t) ==
    /\ R \in Seq(Read) /\ A \subseteq DOMAIN R
    /\ \A i \in A : ReadFormed(R[i])
    /\ \A i \in DOMAIN s.orders : OrderFormed(s.orders[i])
    /\ \A y \in s.ram.fired : t >= At[y]

(* s is what the bridge holds, R the reads that are being answered and A   *)
(* those of them that are still to be, t the time and w the slow ticks.    *)
Good(s, R, A, t, w) ==
    /\ s \in Mem /\ t \in Nat /\ w \in Nat
    /\ Formed(s, R, A, t)
    /\ OneRead(R, A) /\ OneOrder(s.orders)
    /\ AheadNear(s, R, A, t, w)
    /\ \A y \in Slot : PerSlot(s, R, A, t, y)

\* Nothing is under way for a slot whose window has begun.
Free(s, R, A, t, y) == y \in Slot /\ ~Claimed(s, R, A, y) /\ Begun(s, t, y)

LEMMA SlotIs == Slot \subseteq Nat /\ None \notin Slot /\ \A y \in Slot : At[y] \in Nat
BY AtAssumption, LenProperties DEF Slot

LEMMA KeptGood ==
    ASSUME NEW s, NEW R, NEW A, NEW t, NEW w, Good(s, R, A, t, w), NEW u \in Mem,
           u.orders = s.orders, u.ram.pending \in {s.ram.pending, None},
           u.log.cleaned = s.log.cleaned, u.log.skipped = s.log.skipped,
           u.charger \in {s.charger, None}, u.rebootPending => s.rebootPending,
           s.ram.fired \subseteq u.ram.fired, \A y \in u.ram.fired : t >= At[y]
    PROVE  Good(u, R, A, t, w) /\ \A y : Free(s, R, A, t, y) => Free(u, R, A, t, y)
<1>1. \A y \in Slot : Claimed(u, R, A, y) => Claimed(s, R, A, y)
  BY SlotIs DEF Claimed, Closed
<1>2. \A y \in Slot : Begun(s, t, y) => Begun(u, t, y)
  BY DEF Begun
<1>3. \A y \in Slot : Single(s, R, A, y) => Single(u, R, A, y)
  BY SlotIs DEF Single, Closed
<1>4. \A y \in Slot : PerSlot(s, R, A, t, y) => PerSlot(u, R, A, t, y)
  BY <1>1, <1>2, <1>3 DEF PerSlot
<1>5. Formed(u, R, A, t)
  BY DEF Good, Formed
<1>6. AheadNear(u, R, A, t, w)
  BY DEF Good, AheadNear
<1>7. \A y : Free(s, R, A, t, y) => Free(u, R, A, t, y)
  BY <1>1, <1>2 DEF Free
<1>8. QED
  BY <1>4, <1>5, <1>6, <1>7 DEF Good

LEMMA DroppedGood ==
    ASSUME NEW s, NEW R, NEW A, NEW t, NEW w, Good(s, R, A, t, w), NEW i \in A
    PROVE  /\ Good(s, R, A \ {i}, t, w)
           /\ \A y \in Slot : ReadOf(R[i], y) => Free(s, R, A \ {i}, t, y)
<1> DEFINE B == A \ {i}
<1>1. \A y : Asked(R, B, y) => Asked(R, A, y)
  BY DEF Asked
<1>2. \A y \in Slot : PerSlot(s, R, B, t, y)
  BY <1>1 DEF Good, PerSlot, Single, Claimed
<1>3. Formed(s, R, B, t) /\ AheadNear(s, R, B, t, w) /\ OneRead(R, B)
  BY DEF Good, Formed, AheadNear, OneRead
<1>4. ASSUME NEW y \in Slot, ReadOf(R[i], y)
      PROVE  Free(s, R, B, t, y)
  <2>1. ~Asked(R, B, y) /\ Asked(R, A, y)
    BY <1>4 DEF Asked, Good, OneRead
  <2>2. QED
    BY <2>1 DEF Good, PerSlot, Single, Claimed, Free
<1>5. QED
  BY <1>2, <1>3, <1>4 DEF Good

LEMMA UnfiredGood ==
    ASSUME NEW s, NEW R, NEW A, NEW t, NEW w, Good(s, R, A, t, w), NEW x, Free(s, R, A, t, x)
    PROVE  Good([s EXCEPT !.ram.fired = @ \ {x}], R, A, t, w)
<1> DEFINE u == [s EXCEPT !.ram.fired = @ \ {x}]
<1>1. u.ram = [s.ram EXCEPT !.fired = @ \ {x}] /\ u = [s EXCEPT !.ram = u.ram]
  BY DEF Good, Mem
<1> HIDE DEF u
<1>2. /\ u \in Mem /\ u.ram.fired = s.ram.fired \ {x} /\ u.ram.pending = s.ram.pending
      /\ u.orders = s.orders /\ u.log = s.log /\ u.charger = s.charger
      /\ u.rebootPending = s.rebootPending
  BY <1>1 DEF Good, Mem, Rams
<1>3. ASSUME NEW y \in Slot
      PROVE  PerSlot(u, R, A, t, y)
  BY <1>2, <1>3 DEF Good, PerSlot, Single, Claimed, Begun, Free
<1>4. QED
  BY <1>2, <1>3 DEF Good, Formed, AheadNear, u

LEMMA CommandGood ==
    ASSUME NEW s, NEW R, NEW A, NEW t, NEW w, Good(s, R, A, t, w),
           NEW cmd \in {"restart", "clean"}, NEW for \in Purpose, NEW slot \in Slot \cup {None},
           cmd = "clean" => for \in {"slot", "boot"},
           cmd = "restart" => for \in {"slot", "ahead", "auto"},
           for \in {"ahead", "slot"} => slot \in Slot,
           for = "ahead" => Near(slot, t, w),
           cmd = "restart" /\ for = "slot" => Free(s, R, A, t, slot)
    PROVE  Good(Command(s, cmd, for, slot), R, A, t, w)
<1> DEFINE u == Command(s, cmd, for, slot)
           o == [cmd |-> cmd, for |-> for, slot |-> slot]
<1>1. /\ u \in Mem /\ u.orders = Append(s.orders, o)
      /\ u.ram = s.ram /\ u.log = s.log /\ u.charger = s.charger
      /\ u.rebootPending = s.rebootPending
  BY CommandIs DEF Good
<1>2. o \in Order /\ o.cmd = cmd /\ o.for = for /\ o.slot = slot /\ s.orders \in Seq(Order)
  BY DEF Order, Purpose, Good, Mem
<1> HIDE DEF o, u
<1>3. \A y : RestartOf(o, y) => Free(s, R, A, t, y)
  BY <1>2 DEF RestartOf
<1>4. /\ \A y : Ordered(u.orders, y) <=> Ordered(s.orders, y) \/ RestartOf(o, y)
      /\ \A i \in DOMAIN u.orders : u.orders[i] = o
                                    \/ \E j \in DOMAIN s.orders : u.orders[i] = s.orders[j]
      /\ OneOrder(u.orders)
  BY <1>1, <1>2, <1>3, AppendedOrder DEF Good, Free, Claimed
<1>5. ASSUME NEW y \in Slot
      PROVE  PerSlot(u, R, A, t, y)
  <2>1. PerSlot(s, R, A, t, y) /\ (RestartOf(o, y) => Free(s, R, A, t, y))
    BY <1>3 DEF Good
  <2>2. u.ram = s.ram /\ u.log = s.log
        /\ (Ordered(u.orders, y) <=> Ordered(s.orders, y) \/ RestartOf(o, y))
    BY <1>1, <1>4
  <2>3. QED
    BY <2>1, <2>2 DEF PerSlot, Single, Claimed, Begun, Free
<1>6. OrderFormed(o) /\ (o.for = "ahead" => Near(o.slot, t, w))
  BY <1>2 DEF OrderFormed
<1>7. Formed(u, R, A, t) /\ AheadNear(u, R, A, t, w)
  BY <1>1, <1>4, <1>6 DEF Good, Formed, AheadNear
<1>8. QED
  BY <1>1, <1>4, <1>5, <1>7 DEF Good, u

-----------------------------------------------------------------------------
(* The calls keep it: a clean is sent, an awaited one is given up.         *)
LEMMA TriggerGood ==
    ASSUME NEW s, NEW R, NEW A, NEW t, NEW w, Good(s, R, A, t, w), NEW garbage,
           NEW for \in {"slot", "boot"}, NEW x, Free(s, R, A, t, x)
    PROVE  Good(TriggerClean(s, for, x, garbage), R, A, t, w)
<1> DEFINE u == TriggerClean(s, for, x, garbage)
           o == [cmd |-> "clean", for |-> for, slot |-> x]
<1>0. x \in Slot /\ s \in Mem
  BY DEF Free, Good
<1>1. /\ u \in Mem /\ u.orders = Append(s.orders, o)
      /\ u.log = [s.log EXCEPT !.cleaned[x] = Up(@)]
      /\ u.ram = s.ram /\ u.charger = s.charger
      /\ u.rebootPending = s.rebootPending
  BY <1>0, TriggerIs
<1>2. /\ o \in Order /\ o.cmd = "clean" /\ o.for \in {"slot", "boot"} /\ o.slot \in Slot
      /\ s.orders \in Seq(Order)
      /\ \A y : ~RestartOf(o, y)
  BY <1>0 DEF Order, Good, Mem, RestartOf
<1> HIDE DEF o, u
<1>3. /\ \A y : Ordered(u.orders, y) <=> Ordered(s.orders, y)
      /\ \A i \in DOMAIN u.orders : u.orders[i] = o
                                    \/ \E j \in DOMAIN s.orders : u.orders[i] = s.orders[j]
      /\ OneOrder(u.orders)
  BY <1>1, <1>2, AppendedOrder DEF Good
<1>4. u.log.skipped = s.log.skipped /\ s.log.cleaned[x] = 0 /\ u.log.cleaned[x] <= 1
      /\ \A y \in Slot : y # x => u.log.cleaned[y] = s.log.cleaned[y]
  <2>1. s.log \in Logs /\ s.log.cleaned[x] \in 0 .. 2 /\ ~(s.log.cleaned[x] > 0)
    BY <1>0 DEF Good, Mem, Logs, Free, Claimed, Closed
  <2>2. s.log.cleaned[x] = 0
    BY <2>1
  <2>3. u.log.cleaned = [s.log.cleaned EXCEPT ![x] = Up(s.log.cleaned[x])]
    BY <1>1, <2>1 DEF Logs
  <2>4. u.log.cleaned[x] = 1
    BY <1>0, <2>1, <2>2, <2>3, UpIs DEF Logs
  <2>5. QED
    BY <1>0, <1>1, <2>1, <2>2, <2>3, <2>4 DEF Logs
<1>5. ASSUME NEW y \in Slot
      PROVE  PerSlot(u, R, A, t, y)
  <2>1. PerSlot(s, R, A, t, y)
    BY DEF Good
  <2>2. u.ram = s.ram /\ (Ordered(u.orders, y) <=> Ordered(s.orders, y))
    BY <1>1, <1>3
  <2>3. CASE y = x
    <3>1. y \notin s.log.skipped
      BY <2>3 DEF Free, Claimed, Closed
    <3>2. QED
      BY <1>4, <2>1, <2>2, <2>3, <3>1 DEF PerSlot, Single, Claimed, Begun, Free
  <2>4. CASE y # x
    <3>1. Closed(u.log, y) <=> Closed(s.log, y)
      BY <1>4, <2>4 DEF Closed
    <3>2. QED
      BY <1>4, <2>1, <2>2, <2>4, <3>1 DEF PerSlot, Single, Claimed, Begun
  <2>5. QED
    BY <2>3, <2>4
<1>6. OrderFormed(o) /\ o.for # "ahead"
  BY <1>2 DEF OrderFormed
<1>7. Formed(u, R, A, t) /\ AheadNear(u, R, A, t, w)
  BY <1>1, <1>3, <1>6 DEF Good, Formed, AheadNear
<1>8. QED
  BY <1>1, <1>3, <1>5, <1>7 DEF Good, u

LEMMA ClearGood ==
    ASSUME NEW s, NEW R, NEW A, NEW t, NEW w, Good(s, R, A, t, w)
    PROVE  /\ Good(ClearPendingClean(s), R, A, t, w)
           /\ s.ram.pending # None => Free(ClearPendingClean(s), R, A, t, s.ram.pending)
<1> DEFINE u == ClearPendingClean(s)
<1>1. /\ u \in Mem /\ u.ram = [s.ram EXCEPT !.pending = None, !.issuedAt = 0]
      /\ u.log = s.log /\ u.charger = s.charger /\ u.orders = s.orders
      /\ u.rebootPending = s.rebootPending
  BY ClearIs DEF Good
<1> HIDE DEF u
<1>2. u.ram.fired = s.ram.fired /\ u.ram.pending = None
  BY <1>1 DEF Good, Mem, Rams
<1>3. Good(u, R, A, t, w)
  BY <1>1, <1>2, KeptGood DEF Good, Formed
<1>4. ASSUME s.ram.pending # None
      PROVE  Free(u, R, A, t, s.ram.pending)
  <2> DEFINE x == s.ram.pending
  <2>1. x \in Slot /\ x # None
    BY <1>4 DEF Good, Mem, Rams
  <2>2. PerSlot(s, R, A, t, x)
    BY <2>1 DEF Good
  <2>3. ~Claimed(u, R, A, x)
    BY <1>1, <1>2, <2>1, <2>2 DEF PerSlot, Single, Claimed
  <2>4. Begun(u, t, x)
    BY <1>2, <2>2 DEF PerSlot, Claimed, Begun
  <2>5. QED
    BY <2>1, <2>3, <2>4 DEF Free
<1>5. QED
  BY <1>3, <1>4 DEF u

\* The order of the two does not matter.
LEMMA ClearsTriggered ==
    ASSUME NEW s \in Mem, NEW garbage, NEW x \in Slot
    PROVE  ClearPendingClean(TriggerClean(s, "boot", x, garbage)) =
               TriggerClean(ClearPendingClean(s), "boot", x, garbage)
<1>1. x # None
  BY SlotIs
<1>2. QED
  BY <1>1 DEF ClearPendingClean, TriggerClean, Command, Mem, Rams, Logs

LEMMA WildGood ==
    ASSUME NEW s, NEW R, NEW A, NEW t, NEW w, Good(s, R, A, t, w), NEW garbage
    PROVE  Good(TriggerClean(s, "boot", None, garbage), R, A, t, w)
<1> DEFINE c == IF garbage THEN Command(s, "clean", "boot", None) ELSE s
           u == [c EXCEPT !.log.wild = TRUE]
<1>1. TriggerClean(s, "boot", None, garbage) = u
  BY DEF TriggerClean
<1>2. Good(c, R, A, t, w)
  BY CommandGood DEF Purpose
<1> HIDE DEF c
<1>3. u.log = [c.log EXCEPT !.wild = TRUE] /\ u = [c EXCEPT !.log = u.log]
  BY <1>2 DEF Good, Mem
<1> HIDE DEF u
<1>4. /\ u \in Mem /\ u.ram = c.ram /\ u.orders = c.orders /\ u.charger = c.charger
      /\ u.rebootPending = c.rebootPending /\ u.log.cleaned = c.log.cleaned
      /\ u.log.skipped = c.log.skipped
  BY <1>2, <1>3 DEF Good, Mem, Logs
<1>5. QED
  BY <1>1, <1>2, <1>4, KeptGood DEF Good, Formed

-----------------------------------------------------------------------------
(* An answer to a read keeps it.                                           *)
LEMMA SlotReadGood ==
    ASSUME NEW s, NEW R, NEW A, NEW t, NEW w, Good(s, R, A, t, w),
           NEW r, r \in Read, r.for = "slot", Free(s, R, A, t, r.slot),
           NEW ok \in BOOLEAN, NEW idle \in BOOLEAN
    PROVE  Good(SlotRead(s, r, ok, idle), R, A, t, w)
<1> DEFINE x == r.slot
           u == SlotRead(s, r, ok, idle)
<1>1. x \in Slot /\ t >= At[x] /\ s \in Mem
  BY DEF Free, Begun, Good
<1>2. CASE ~ok
  <2>1. u = [s EXCEPT !.ram.fired = @ \ {x}]
    BY <1>2 DEF SlotRead
  <2>2. QED
    BY <2>1, UnfiredGood
<1>3. CASE ok /\ ~idle
  <2> DEFINE e == Excuse(s, {x})
  <2>1. /\ e \in Mem /\ e.log = [s.log EXCEPT !.excused = @ \cup {x}] /\ e.ram = s.ram
        /\ e.orders = s.orders /\ e.charger = s.charger /\ e.rebootPending = s.rebootPending
    BY <1>1, ExcuseIs
  <2>2. u = [e EXCEPT !.ram.fired = @ \cup {x}]
    BY <1>3 DEF SlotRead
  <2> HIDE DEF e, u
  <2>3. u.ram = [e.ram EXCEPT !.fired = @ \cup {x}] /\ u = [e EXCEPT !.ram = u.ram]
    BY <2>1, <2>2 DEF Mem
  <2>4. /\ u \in Mem /\ u.ram.fired = s.ram.fired \cup {x} /\ u.ram.pending = s.ram.pending
        /\ u.orders = s.orders /\ u.charger = s.charger /\ u.rebootPending = s.rebootPending
        /\ u.log.cleaned = s.log.cleaned /\ u.log.skipped = s.log.skipped
    <3>1. u.log = e.log /\ e.log.cleaned = s.log.cleaned /\ e.log.skipped = s.log.skipped
      BY <1>1, <2>1, <2>3 DEF Mem, Logs
    <3>2. u.ram \in Rams /\ u.ram.fired = s.ram.fired \cup {x} /\ u.ram.pending = s.ram.pending
      <4>1. s.ram \in Rams /\ u.ram = [s.ram EXCEPT !.fired = @ \cup {x}] /\ {x} \subseteq Slot
        BY <1>1, <2>1, <2>3 DEF Mem
      <4>2. QED
        BY <4>1 DEF Rams
    <3>3. QED
      BY <1>1, <2>1, <2>3, <3>1, <3>2 DEF Mem
  <2>5. \A y \in u.ram.fired : t >= At[y]
    BY <1>1, <2>4 DEF Good, Formed
  <2>6. QED
    BY <2>4, <2>5, KeptGood DEF u
<1>4. CASE ok /\ idle /\ r.first
  <2>1. u = Command(s, "restart", "slot", x)
    BY <1>4 DEF SlotRead
  <2>2. QED
    BY <1>1, <2>1, CommandGood DEF Purpose
<1>5. CASE ok /\ idle /\ ~r.first
  <2>1. u = TriggerClean(s, "slot", x, FALSE)
    BY <1>5 DEF SlotRead
  <2>2. QED
    BY <2>1, TriggerGood
<1>6. QED
  BY <1>2, <1>3, <1>4, <1>5 DEF Read

LEMMA BootReadGood ==
    ASSUME NEW s, NEW R, NEW A, NEW t, NEW w, Good(s, R, A, t, w),
           NEW ok, NEW idle, NEW garbage
    PROVE  Good(BootRead(s, ok, idle, garbage), R, A, t, w)
<1>1. CASE ~(ok /\ idle)
  BY <1>1 DEF BootRead
<1>2. CASE ok /\ idle /\ s.ram.pending = None
  <2>1. BootRead(s, ok, idle, garbage) = ClearPendingClean(TriggerClean(s, "boot", None, garbage))
    BY <1>2 DEF BootRead
  <2>2. QED
    BY <2>1, WildGood, ClearGood
<1>3. CASE ok /\ idle /\ s.ram.pending # None
  <2> DEFINE x == s.ram.pending
             c == ClearPendingClean(s)
  <2>1. x \in Slot /\ s \in Mem
    BY <1>3 DEF Good, Mem, Rams
  <2>2. BootRead(s, ok, idle, garbage) = TriggerClean(c, "boot", x, garbage)
    BY <1>3, <2>1, ClearsTriggered DEF BootRead
  <2>3. Good(c, R, A, t, w) /\ Free(c, R, A, t, x)
    BY <1>3, ClearGood
  <2> HIDE DEF c, x
  <2>4. QED
    BY <2>2, <2>3, TriggerGood
<1>4. QED
  BY <1>1, <1>2, <1>3

LEMMA AutoReadGood ==
    ASSUME NEW s, NEW R, NEW A, NEW t, NEW w, Good(s, R, A, t, w), NEW ok, NEW idle
    PROVE  Good(AutoRead(s, ok, idle), R, A, t, w)
<1> DEFINE c == IF idle THEN Command(s, "restart", "auto", None) ELSE s
           u == [c EXCEPT !.ram.firedAuto = TRUE]
<1>1. CASE ok # TRUE
  BY <1>1 DEF AutoRead
<1>2. AutoRead(s, ok, idle) \in {s, u}
  BY DEF AutoRead
<1>3. Good(c, R, A, t, w)
  BY CommandGood DEF Purpose
<1> HIDE DEF c
<1>4. u.ram = [c.ram EXCEPT !.firedAuto = TRUE] /\ u = [c EXCEPT !.ram = u.ram]
  BY <1>3 DEF Good, Mem
<1> HIDE DEF u
<1>5. /\ u \in Mem /\ u.ram.fired = c.ram.fired /\ u.ram.pending = c.ram.pending
      /\ u.orders = c.orders /\ u.charger = c.charger /\ u.rebootPending = c.rebootPending
      /\ u.log = c.log
  BY <1>3, <1>4 DEF Good, Mem, Rams
<1>6. Good(u, R, A, t, w)
  BY <1>3, <1>5, KeptGood DEF Good, Formed
<1>7. QED
  BY <1>2, <1>6

LEMMA AheadReadGood ==
    ASSUME NEW s, NEW R, NEW A, NEW t, NEW w, Good(s, R, A, t, w),
           NEW r, r \in Read, r.for = "ahead", Near(r.slot, t, w), NEW ok, NEW idle
    PROVE  Good(AheadRead(s, r, ok, idle), R, A, t, w)
<1> DEFINE u == AheadRead(s, r, ok, idle)
<1>1. CASE ok /\ idle
  <2>1. u = [s EXCEPT !.charger = r.slot]
    BY <1>1 DEF AheadRead
  <2> HIDE DEF u
  <2>2. /\ u \in Mem /\ u.charger = r.slot /\ u.ram = s.ram /\ u.orders = s.orders
        /\ u.log = s.log /\ u.rebootPending = s.rebootPending
    BY <2>1 DEF Good, Mem, Near
  <2>3. \A y \in Slot : PerSlot(u, R, A, t, y)
    BY <2>2 DEF Good, PerSlot, Single, Claimed, Begun
  <2>4. QED
    BY <2>2, <2>3 DEF Good, Formed, AheadNear, u
<1>2. CASE ~(ok /\ idle)
  <2>1. u = [s EXCEPT !.ram.aheadPending = FALSE]
    BY <1>2 DEF AheadRead
  <2> HIDE DEF u
  <2>2. u.ram = [s.ram EXCEPT !.aheadPending = FALSE] /\ u = [s EXCEPT !.ram = u.ram]
    BY <2>1 DEF Good, Mem
  <2>3. /\ u \in Mem /\ u.ram.fired = s.ram.fired /\ u.ram.pending = s.ram.pending
        /\ u.orders = s.orders /\ u.charger = s.charger /\ u.rebootPending = s.rebootPending
        /\ u.log = s.log
    BY <2>2 DEF Good, Mem, Rams
  <2>4. QED
    BY <2>3, KeptGood DEF Good, Formed, u
<1>3. QED
  BY <1>1, <1>2

LEMMA SeenGood ==
    ASSUME NEW s, NEW R, NEW A, NEW t, NEW w, Good(s, R, A, t, w), NEW i \in A,
           NEW ok \in BOOLEAN, NEW idle \in BOOLEAN, NEW garbage
    PROVE  Good(Seen(s, R[i], ok, idle, garbage), R, A \ {i}, t, w)
<1> DEFINE r == R[i]
           B == A \ {i}
<1>1. r \in Read /\ ReadFormed(r)
  <2>1. R \in Seq(Read) /\ i \in DOMAIN R /\ ReadFormed(R[i])
    BY DEF Good, Formed
  <2>2. QED
    BY <2>1
<1>2. Good(s, R, B, t, w) /\ \A y \in Slot : ReadOf(r, y) => Free(s, R, B, t, y)
  BY DroppedGood
<1>3. r.for = "ahead" => Near(r.slot, t, w)
  BY DEF Good, AheadNear
<1> HIDE DEF r, B
<1>4. CASE r.for = "slot"
  <2>1. Free(s, R, B, t, r.slot)
    BY <1>1, <1>2, <1>4 DEF ReadFormed, Read, ReadOf
  <2>2. Seen(s, r, ok, idle, garbage) = SlotRead(s, r, ok, idle)
    BY <1>4 DEF Seen
  <2>3. QED
    BY <1>1, <1>2, <1>4, <2>1, <2>2, SlotReadGood DEF r, B
<1>5. CASE r.for = "boot"
  BY <1>2, <1>5, BootReadGood DEF Seen, r, B
<1>6. CASE r.for = "auto"
  BY <1>2, <1>6, AutoReadGood DEF Seen, r, B
<1>7. CASE r.for = "ahead"
  <2>1. Seen(s, r, ok, idle, garbage) = AheadRead(s, r, ok, idle)
    BY <1>7 DEF Seen
  <2>2. QED
    BY <1>1, <1>2, <1>3, <1>7, <2>1, AheadReadGood DEF r, B
<1>8. QED
  BY <1>1, <1>4, <1>5, <1>6, <1>7 DEF Read

-----------------------------------------------------------------------------
(* So do the answers to all the reads that wait, in their turn.            *)
LEMMA LeastNumber ==
    ASSUME NEW S, S \subseteq Nat, S # {}
    PROVE  \E n \in S : \A m \in S : n <= m
<1> DEFINE R == OpToRel(<, Nat)
<1>1. IsWellFoundedOn(R, Nat)
  BY NatLessThanWellFounded
<1>2. \A x, y \in Nat : <<y, x>> \in R <=> y < x
  BY DEF OpToRel
<1> HIDE DEF R
<1>3. PICK x \in S : \A y \in S : ~ (<<y, x>> \in R)
  BY <1>1, WFMin
<1>4. ASSUME NEW y \in S
      PROVE  x <= y
  <2>1. x \in Nat /\ y \in Nat
    OBVIOUS
  <2>2. ~(y < x)
    BY <1>2, <1>3, <2>1
  <2>3. QED
    BY <2>1, <2>2
<1>5. QED
  BY <1>4

LEMMA FirstIs ==
    ASSUME NEW slots, slots \subseteq Slot, slots # {}
    PROVE  First(slots) \in slots
<1>1. \E x \in slots : \A y \in slots : x <= y
  BY SlotIs, LeastNumber
<1>2. QED
  BY <1>1 DEF First

(* A set of numbers that has 0, and with a number the next, up to n.       *)
LEMMA UpTo ==
    ASSUME NEW n \in Nat, NEW S, 0 \in S,
           \A i \in 1 .. n : i - 1 \in S => i \in S
    PROVE  \A i \in 0 .. n : i \in S
<1> DEFINE Bad == {i \in 0 .. n : i \notin S}
<1> SUFFICES ASSUME Bad # {} PROVE FALSE
  OBVIOUS
<1>1. Bad \subseteq Nat
  OBVIOUS
<1>2. PICK i \in Bad : \A j \in Bad : i <= j
  BY <1>1, LeastNumber
<1>3. i \in Nat /\ i \in 0 .. n /\ i \notin S
  BY <1>2
<1>4. i \in 1 .. n /\ i - 1 \in 0 .. n /\ ~(i <= i - 1)
  BY <1>3
<1>5. i - 1 \in S
  BY <1>4, <1>2
<1>6. QED
  BY <1>3, <1>4, <1>5

SeenInTurn(seen, s, R, ok, idle, garbage) ==
    /\ seen[0] = s
    /\ \A i \in 1 .. Len(R) : seen[i] = Seen(seen[i - 1], R[i], ok, idle, garbage)
    /\ AllSeen(s, R, ok, idle, garbage) = seen[Len(R)]

LEMMA AllSeenIs ==
    ASSUME NEW s, NEW R \in Seq(Read), NEW ok, NEW idle, NEW garbage
    PROVE  \E seen : SeenInTurn(seen, s, R, ok, idle, garbage)
<1> DEFINE Is(seen, n) ==
             seen = [i \in 0 .. n |->
                       IF i = 0 THEN s ELSE Seen(seen[i - 1], R[i], ok, idle, garbage)]
           S == {n \in Nat : \E seen : Is(seen, n)}
<1>1. 0 \in S
  <2>1. Is([i \in 0 .. 0 |-> s], 0)
    OBVIOUS
  <2>2. QED
    BY <2>1
<1>2. ASSUME NEW n \in 1 .. Len(R), n - 1 \in S
      PROVE  n \in S
  <2>1. PICK f : Is(f, n - 1)
    BY <1>2
  <2> DEFINE new == [i \in 0 .. n |->
                       IF i = n THEN Seen(f[n - 1], R[n], ok, idle, garbage) ELSE f[i]]
  <2>2. n \in Nat /\ n - 1 \in 0 .. n /\ n - 1 \in 0 .. n - 1 /\ n \in 0 .. n /\ n - 1 # n /\ n # 0
    BY <1>2
  <2>3. ASSUME NEW i \in 0 .. n
        PROVE  new[i] = IF i = 0 THEN s ELSE Seen(new[i - 1], R[i], ok, idle, garbage)
    <3>1. CASE i = n
      BY <3>1, <2>2, <1>2
    <3>2. CASE i = 0
      <4>1. i \in 0 .. n - 1 /\ i # n
        BY <3>2, <2>2, <1>2
      <4>2. f[i] = s
        BY <4>1, <3>2, <2>1
      <4>3. QED
        BY <4>1, <4>2, <3>2
    <3>3. CASE i # n /\ i # 0
      <4>1. i \in 0 .. n - 1 /\ i - 1 \in 0 .. n - 1 /\ i - 1 \in 0 .. n /\ i - 1 # n
        BY <3>3, <2>2
      <4>2. f[i] = Seen(f[i - 1], R[i], ok, idle, garbage)
        BY <4>1, <2>1, <3>3
      <4>3. QED
        BY <4>1, <4>2, <3>3
    <3>4. QED
      BY <3>1, <3>2, <3>3
  <2>4. Is(new, n)
    BY <2>3
  <2>5. QED
    BY <2>4, <2>2
<1>3. Len(R) \in S
  <2>1. \A i \in 1 .. Len(R) : i - 1 \in S => i \in S
    BY <1>2
  <2>2. Len(R) \in Nat /\ Len(R) \in 0 .. Len(R)
    OBVIOUS
  <2> HIDE DEF S
  <2>3. \A i \in 0 .. Len(R) : i \in S
    BY <1>1, <2>1, <2>2, UpTo, Zenon
  <2>4. QED
    BY <2>2, <2>3
<1> DEFINE seen == CHOOSE f : Is(f, Len(R))
<1>4. Is(seen, Len(R))
  <2>1. \E f : Is(f, Len(R))
    BY <1>3
  <2>2. QED
    BY <2>1
<1>5. AllSeen(s, R, ok, idle, garbage) = seen[Len(R)]
  BY DEF AllSeen
<1> HIDE DEF seen
<1>6. seen[0] = s /\ \A i \in 1 .. Len(R) : seen[i] = Seen(seen[i - 1], R[i], ok, idle, garbage)
  <2>1. 0 \in 0 .. Len(R) /\ \A i \in 1 .. Len(R) : i \in 0 .. Len(R) /\ i # 0
    OBVIOUS
  <2>2. QED
    BY <1>4, <2>1
<1>7. QED
  BY <1>5, <1>6 DEF SeenInTurn

LEMMA SeenReads ==
    ASSUME NEW s \in Mem, NEW r \in Read, NEW ok \in BOOLEAN, NEW idle \in BOOLEAN, NEW garbage
    PROVE  LET u == Seen(s, r, ok, idle, garbage)
           IN  u.reads = s.reads /\ u.log.skipped = s.log.skipped
<1>1. CASE r.for = "slot"
  BY <1>1 DEF Seen, SlotRead, Excuse, Command, TriggerClean, Mem, Logs, Read
<1>2. CASE r.for = "boot"
  BY <1>2 DEF Seen, BootRead, ClearPendingClean, Command, TriggerClean, Mem, Logs
<1>3. CASE r.for = "auto"
  BY <1>3 DEF Seen, AutoRead, Command, Mem
<1>4. CASE r.for = "ahead"
  BY <1>4 DEF Seen, AheadRead, Mem
<1>5. QED
  BY <1>1, <1>2, <1>3, <1>4 DEF Read

LEMMA AllSeenGood ==
    ASSUME NEW s, NEW R, NEW t, NEW w, Good(s, R, DOMAIN R, t, w),
           NEW ok \in BOOLEAN, NEW idle \in BOOLEAN, NEW garbage
    PROVE  /\ Good(AllSeen(s, R, ok, idle, garbage), R, {}, t, w)
           /\ AllSeen(s, R, ok, idle, garbage).reads = s.reads
           /\ AllSeen(s, R, ok, idle, garbage).log.skipped = s.log.skipped
<1>1. R \in Seq(Read) /\ Len(R) \in Nat /\ DOMAIN R = 1 .. Len(R)
  BY DEF Good, Formed
<1>2. PICK seen : SeenInTurn(seen, s, R, ok, idle, garbage)
  BY <1>1, AllSeenIs
<1> DEFINE S == {i \in 0 .. Len(R) : Good(seen[i], R, i + 1 .. Len(R), t, w)
                                  /\ seen[i].reads = s.reads
                                  /\ seen[i].log.skipped = s.log.skipped}
<1>3. 0 \in S
  BY <1>1, <1>2 DEF SeenInTurn
<1>4. ASSUME NEW i \in 1 .. Len(R), i - 1 \in S
      PROVE  i \in S
  <2>1. /\ i \in i .. Len(R) /\ i - 1 + 1 = i /\ (i .. Len(R)) \ {i} = i + 1 .. Len(R)
        /\ i \in 0 .. Len(R)
    BY <1>1
  <2>2. /\ Good(seen[i - 1], R, i .. Len(R), t, w) /\ seen[i - 1].reads = s.reads
        /\ seen[i - 1].log.skipped = s.log.skipped
    BY <1>4, <2>1
  <2>3. Good(Seen(seen[i - 1], R[i], ok, idle, garbage), R, (i .. Len(R)) \ {i}, t, w)
    BY <2>1, <2>2, SeenGood
  <2>4. seen[i - 1] \in Mem /\ R[i] \in Read
    BY <1>1, <2>2 DEF Good
  <2>5. /\ Seen(seen[i - 1], R[i], ok, idle, garbage).reads = s.reads
        /\ Seen(seen[i - 1], R[i], ok, idle, garbage).log.skipped = s.log.skipped
    BY <2>2, <2>4, SeenReads
  <2>6. QED
    BY <1>2, <2>1, <2>3, <2>5 DEF SeenInTurn
<1> HIDE DEF S
<1>5. \A i \in 0 .. Len(R) : i \in S
  BY <1>1, <1>3, <1>4, UpTo
<1>6. Len(R) \in S /\ Len(R) + 1 .. Len(R) = {}
  BY <1>1, <1>5
<1>7. QED
  BY <1>2, <1>6 DEF S, SeenInTurn

-----------------------------------------------------------------------------
(* An order is taken from the queue and carried out.                       *)
LEMMA TakenGood ==
    ASSUME NEW s, NEW R, NEW A, NEW t, NEW w, Good(s, R, A, t, w), s.orders # <<>>
    PROVE  LET u == [s EXCEPT !.orders = Tail(@)]
               o == Head(s.orders)
           IN  /\ Good(u, R, A, t, w) /\ o \in Order /\ OrderFormed(o)
               /\ o.for = "ahead" => Near(o.slot, t, w)
               /\ \A y \in Slot : RestartOf(o, y) => Free(u, R, A, t, y)
<1> DEFINE u == [s EXCEPT !.orders = Tail(@)]
           o == Head(s.orders)
<1>1. s \in Mem /\ s.orders \in Seq(Order) /\ OneOrder(s.orders)
  BY DEF Good, Mem
<1>2. /\ o \in Order /\ Tail(s.orders) \in Seq(Order) /\ 1 \in DOMAIN s.orders /\ s.orders[1] = o
      /\ \A i \in DOMAIN Tail(s.orders) : \E j \in DOMAIN s.orders : Tail(s.orders)[i] = s.orders[j]
      /\ \A y : Ordered(Tail(s.orders), y) => Ordered(s.orders, y)
      /\ OneOrder(Tail(s.orders))
      /\ \A y \in Slot : RestartOf(o, y) => ~Ordered(Tail(s.orders), y)
  BY <1>1, TakenOrder
<1>3. /\ u \in Mem /\ u.orders = Tail(s.orders) /\ u.ram = s.ram /\ u.log = s.log
      /\ u.charger = s.charger /\ u.rebootPending = s.rebootPending
  BY <1>1, <1>2 DEF Mem
<1>4. OrderFormed(o) /\ (o.for = "ahead" => Near(o.slot, t, w))
  BY <1>2 DEF Good, Formed, AheadNear
<1> HIDE DEF u, o
<1>5. ASSUME NEW y \in Slot
      PROVE  PerSlot(u, R, A, t, y) /\ (RestartOf(o, y) => Free(u, R, A, t, y))
  <2>1. PerSlot(s, R, A, t, y)
    BY DEF Good
  <2>2. Ordered(u.orders, y) => Ordered(s.orders, y)
    BY <1>2, <1>3
  <2>3. PerSlot(u, R, A, t, y)
    BY <1>3, <2>1, <2>2 DEF PerSlot, Single, Claimed, Begun
  <2>4. ASSUME RestartOf(o, y)
        PROVE  Free(u, R, A, t, y)
    <3>1. Ordered(s.orders, y) /\ ~Ordered(u.orders, y)
      BY <1>2, <1>3, <2>4 DEF Ordered
    <3>2. QED
      BY <1>3, <2>1, <3>1 DEF PerSlot, Single, Claimed, Begun, Free
  <2>5. QED
    BY <2>3, <2>4
<1>6. Formed(u, R, A, t)
  BY <1>2, <1>3 DEF Good, Formed
<1>7. AheadNear(u, R, A, t, w)
  BY <1>2, <1>3 DEF Good, AheadNear
<1>8. QED
  BY <1>2, <1>3, <1>4, <1>5, <1>6, <1>7 DEF Good, u, o

LEMMA PendingGood ==
    ASSUME NEW s, NEW R, NEW A, NEW t, NEW w, Good(s, R, A, t, w), NEW x, Free(s, R, A, t, x),
           t \in 0 .. End
    PROVE  Good([s EXCEPT !.ram.pending = x, !.ram.issuedAt = t], R, A, t, w)
<1> DEFINE a == [s.ram EXCEPT !.pending = x]
           b == [a EXCEPT !.issuedAt = t]
           u == [s EXCEPT !.ram.pending = x, !.ram.issuedAt = t]
<1>1. s \in Mem /\ s.ram \in Rams /\ x \in Slot
  BY DEF Good, Mem, Free
<1>2. a \in Rams /\ b \in Rams /\ b.pending = x /\ b.fired = s.ram.fired
  BY <1>1 DEF Rams
<1>3. u = [s EXCEPT !.ram = b]
  BY <1>1 DEF Mem, Rams
<1> HIDE DEF a, b, u
<1>4. /\ u \in Mem /\ u.ram = b /\ u.orders = s.orders /\ u.log = s.log /\ u.charger = s.charger
      /\ u.rebootPending = s.rebootPending
  BY <1>1, <1>2, <1>3 DEF Mem
<1>5. ASSUME NEW y \in Slot
      PROVE  PerSlot(u, R, A, t, y)
  <2>1. PerSlot(s, R, A, t, y)
    BY DEF Good
  <2>2. CASE y = x
    BY <1>2, <1>4, <2>1, <2>2 DEF PerSlot, Single, Claimed, Begun, Free
  <2>3. CASE y # x
    BY <1>2, <1>4, <2>1, <2>3 DEF PerSlot, Single, Claimed, Begun
  <2>4. QED
    BY <2>2, <2>3
<1>6. Formed(u, R, A, t) /\ AheadNear(u, R, A, t, w)
  BY <1>2, <1>4 DEF Good, Formed, AheadNear
<1>7. QED
  BY <1>4, <1>5, <1>6 DEF Good, u

\* The robot has accepted a restart: the bridge waits for it, or reboots too.
LEMMA RestartedGood ==
    ASSUME NEW s, NEW R, NEW A, NEW w, Good(s, R, A, now, w), now \in 0 .. End,
           NEW o \in Order, OrderFormed(o), o.cmd = "restart",
           o.for = "ahead" => Near(o.slot, now, w),
           \A y \in Slot : RestartOf(o, y) => Free(s, R, A, now, y)
    PROVE  Good(Restarted(s, o), R, A, now, w)
<1> DEFINE r == IF o.slot = None THEN s ELSE [s EXCEPT !.log.restarted[o.slot] = Up(@)]
<1>1. s \in Mem /\ o.slot \in Slot \cup {None} /\ None \notin Slot
  BY SlotIs DEF Good, Order
<1>2. /\ r \in Mem /\ r.ram = s.ram /\ r.orders = s.orders /\ r.charger = s.charger
      /\ r.rebootPending = s.rebootPending /\ r.log.cleaned = s.log.cleaned
      /\ r.log.skipped = s.log.skipped
  <2>1. CASE o.slot = None
    BY <1>1, <2>1
  <2>2. CASE o.slot # None
    <3> DEFINE v == [s EXCEPT !.log.restarted[o.slot] = Up(@)]
               n == Up(s.log.restarted[o.slot])
    <3>1. s.log \in Logs /\ o.slot \in Slot /\ n \in 0 .. 2
      BY <1>1, <2>2, UpIs DEF Mem, Logs
    <3>2. [s.log.restarted EXCEPT ![o.slot] = n] \in [Slot -> 0 .. 2]
      BY <3>1 DEF Logs
    <3>3. v = [s EXCEPT !.log = [s.log EXCEPT !.restarted = [@ EXCEPT ![o.slot] = n]]]
      BY <1>1 DEF Mem, Logs
    <3> HIDE DEF v, n
    <3>4. v.log \in Logs /\ v.log.cleaned = s.log.cleaned /\ v.log.skipped = s.log.skipped
      BY <1>1, <3>1, <3>2, <3>3 DEF Mem, Logs
    <3>5. QED
      BY <1>1, <2>2, <3>3, <3>4 DEF v, Mem
  <2>3. QED
    BY <2>1, <2>2
<1> HIDE DEF r
<1>3. Good(r, R, A, now, w) /\ \A y : Free(s, R, A, now, y) => Free(r, R, A, now, y)
  BY <1>2, KeptGood DEF Good, Formed
<1>4. CASE o.for = "slot"
  <2>1. o.slot \in Slot /\ Free(r, R, A, now, o.slot)
    BY <1>3, <1>4 DEF OrderFormed, RestartOf
  <2>2. Restarted(s, o) = [r EXCEPT !.ram.pending = o.slot, !.ram.issuedAt = now]
    BY <1>4 DEF Restarted, r
  <2>3. Good([r EXCEPT !.ram.pending = o.slot, !.ram.issuedAt = now], R, A, now, w)
    BY <1>3, <2>1, PendingGood
  <2>4. QED
    BY <2>2, <2>3
<1>5. CASE o.for = "ahead"
  <2> DEFINE u == [r EXCEPT !.ram.aheadPending = FALSE, !.prepared = o.slot, !.rebootPending = TRUE]
  <2>1. Restarted(s, o) = u
    BY <1>5 DEF Restarted, r
  <2>2. o.slot \in Slot /\ Near(o.slot, now, w)
    BY <1>5 DEF OrderFormed
  <2>3. r.ram \in Rams /\ u.ram = [r.ram EXCEPT !.aheadPending = FALSE]
    BY <1>2 DEF Mem
  <2>4. u.ram \in Rams /\ u.ram.fired = r.ram.fired /\ u.ram.pending = r.ram.pending
    BY <2>3, ZenonT(60) DEF Rams
  <2>5. /\ u.log = r.log /\ u.orders = r.orders /\ u.charger = r.charger
        /\ u.rebootPending = TRUE /\ u.prepared = o.slot
    BY <1>2 DEF Mem
  <2>6. u \in Mem
    BY <1>2, <2>2, <2>4 DEF Mem
  <2> HIDE DEF u
  <2>7. \A y \in Slot : PerSlot(u, R, A, now, y)
    BY <1>3, <2>4, <2>5 DEF Good, PerSlot, Single, Claimed, Begun
  <2>8. Formed(u, R, A, now) /\ AheadNear(u, R, A, now, w)
    BY <1>3, <2>2, <2>4, <2>5 DEF Good, Formed, AheadNear
  <2>9. QED
    BY <1>3, <2>1, <2>5, <2>6, <2>7, <2>8 DEF Good
<1>6. CASE o.for = "auto"
  BY <1>3, <1>6 DEF Restarted, r
<1>7. QED
  BY <1>4, <1>5, <1>6 DEF OrderFormed

-----------------------------------------------------------------------------
(* What a restart of the bridge ahead of a slot forgets: the slots whose   *)
(* window is over, and none that is open.                                  *)
(* A slot's window is over before the restart of the bridge ahead of the   *)
(* next slot is due: scheduler.cpp takes any times the user saves, and two *)
(* slots closer than that are not kept apart by anything.                  *)
Apart == \A x, y \in Slot : At[y] < At[x] => At[y] + Window + Lead <= At[x]

(* The orders for a restart ahead are carried out before its slot begins,  *)
(* however many of the ticks in between are slow.                          *)
Timely == LeadWindow + MaxSlow <= Lead

LEMMA FreshIs == Fresh \in Rams /\ Fresh.fired = {} /\ Fresh.pending = None
BY TimesAssumption DEF Fresh, Rams

LEMMA RebootIs ==
    ASSUME NEW s \in Mem, NEW cold \in BOOLEAN
    PROVE  LET u == Reboot(s, cold)
           IN  /\ u \in Mem /\ u.ram = Fresh /\ ~u.rebootPending /\ u.reads = <<>>
               /\ u.charger = None /\ u.orders = <<>> /\ u.log = s.log
               /\ u.prepared = IF cold THEN None ELSE s.prepared
<1>1. 0 \in 0 .. Grace /\ <<>> \in Seq(Read) /\ <<>> \in Seq(Order)
  BY TimesAssumption
<1>2. QED
  BY <1>1, FreshIs DEF Reboot, Mem

LEMMA RebootGood ==
    ASSUME Apart, Timely, NEW s, NEW R, NEW A, NEW t, NEW w, Good(s, R, A, t, w), w <= MaxSlow,
           s.rebootPending
    PROVE  LET u == Reboot(s, FALSE) IN Good(u, u.reads, DOMAIN u.reads, t, w)
<1> DEFINE u == Reboot(s, FALSE)
<1>1. /\ u \in Mem /\ u.ram = Fresh /\ ~u.rebootPending /\ u.reads = <<>>
      /\ u.charger = None /\ u.orders = <<>> /\ u.log = s.log
  BY RebootIs DEF Good
<1> HIDE DEF u
<1>2. DOMAIN u.reads = {} /\ DOMAIN u.orders = {} /\ u.reads \in Seq(Read)
  BY <1>1
<1>3. \A y : ~Asked(u.reads, DOMAIN u.reads, y) /\ ~Ordered(u.orders, y)
  BY <1>2 DEF Asked, Ordered
<1>4. PICK x \in Slot : Near(x, t, w)
  BY DEF Good, AheadNear
<1>5. ASSUME NEW y \in Slot, Closed(s.log, y)
      PROVE  t >= At[y] + Window
  <2>1. PerSlot(s, R, A, t, y) /\ t \in Nat /\ w \in Nat
    BY DEF Good
  <2>2. t >= At[y]
    BY <1>5, <2>1 DEF PerSlot, Claimed, Begun
  <2>3. At[x] \in Nat /\ At[y] \in Nat
    BY SlotIs
  <2>4. At[x] <= t + Lead /\ t < At[x]
    BY <1>4, <2>1, <2>3, TimesAssumption DEF Near, Timely
  <2>5. At[y] < At[x]
    BY <2>1, <2>2, <2>3, <2>4
  <2>6. At[y] + Window + Lead <= At[x]
    BY <2>5 DEF Apart
  <2>7. QED
    BY <2>1, <2>3, <2>4, <2>6, TimesAssumption
<1>6. ASSUME NEW y \in Slot
      PROVE  PerSlot(u, u.reads, DOMAIN u.reads, t, y)
  <2>1. y # None /\ u.ram.pending = None /\ At[y] \in Nat /\ t \in Nat
    BY <1>1, FreshIs, SlotIs DEF Good
  <2>2. u.log = s.log /\ PerSlot(s, R, A, t, y) /\ (Closed(s.log, y) => t >= At[y] + Window)
    BY <1>1, <1>5 DEF Good
  <2>3. ~Asked(u.reads, DOMAIN u.reads, y) /\ ~Ordered(u.orders, y)
    BY <1>3
  <2>4. t >= At[y] + Window => t >= At[y]
    BY <2>1, TimesAssumption
  <2>5. QED
    BY <2>1, <2>2, <2>3, <2>4 DEF PerSlot, Single, Claimed, Begun
<1>7. Formed(u, u.reads, DOMAIN u.reads, t)
  BY <1>1, <1>2, FreshIs DEF Formed
<1>8. AheadNear(u, u.reads, DOMAIN u.reads, t, w)
  BY <1>1, <1>2 DEF AheadNear
<1>9. OneRead(u.reads, DOMAIN u.reads) /\ OneOrder(u.orders)
  BY <1>2 DEF OneRead, OneOrder
<1>10. QED
  BY <1>1, <1>6, <1>7, <1>8, <1>9 DEF Good, u

\* What is said of s with the reads it holds itself.
Sound(s, t, w) == Good(s, s.reads, DOMAIN s.reads, t, w)

LEMMA AskSound ==
    ASSUME NEW s, NEW t, NEW w, Sound(s, t, w),
           NEW for \in Purpose, NEW slot \in Slot \cup {None}, NEW first \in BOOLEAN,
           slot = None <=> for \in {"boot", "auto"},
           for = "ahead" => Near(slot, t, w),
           for = "slot" => Free(s, s.reads, DOMAIN s.reads, t, slot)
    PROVE  Sound(Ask(s, for, slot, first), t, w)
<1> DEFINE u == Ask(s, for, slot, first)
           r == [for |-> for, slot |-> slot, first |-> first]
<1>1. /\ u \in Mem /\ u.reads = Append(s.reads, r)
      /\ u.ram = s.ram /\ u.rebootPending = s.rebootPending /\ u.log = s.log
      /\ u.charger = s.charger /\ u.orders = s.orders
  BY AskIs DEF Sound, Good
<1>2. r \in Read /\ r.for = for /\ r.slot = slot /\ s.reads \in Seq(Read)
  BY DEF Read, Purpose, Sound, Good, Mem
<1> HIDE DEF r, u
<1>3. \A y : ReadOf(r, y) => Free(s, s.reads, DOMAIN s.reads, t, y)
  BY <1>2 DEF ReadOf
<1>4. /\ u.reads \in Seq(Read)
      /\ \A y : Asked(u.reads, DOMAIN u.reads, y)
                    <=> Asked(s.reads, DOMAIN s.reads, y) \/ ReadOf(r, y)
      /\ \A i \in DOMAIN u.reads : u.reads[i] = r
                                   \/ \E j \in DOMAIN s.reads : u.reads[i] = s.reads[j]
      /\ OneRead(u.reads, DOMAIN u.reads)
  BY <1>1, <1>2, <1>3, AppendedRead DEF Sound, Good, Free, Claimed
<1>5. ASSUME NEW y \in Slot
      PROVE  PerSlot(u, u.reads, DOMAIN u.reads, t, y)
  <2>1. /\ PerSlot(s, s.reads, DOMAIN s.reads, t, y)
        /\ ReadOf(r, y) => Free(s, s.reads, DOMAIN s.reads, t, y)
    BY <1>3 DEF Sound, Good
  <2>2. /\ u.ram = s.ram /\ u.log = s.log /\ u.orders = s.orders
        /\ Asked(u.reads, DOMAIN u.reads, y) <=> (Asked(s.reads, DOMAIN s.reads, y) \/ ReadOf(r, y))
    BY <1>1, <1>4
  <2>3. QED
    BY <2>1, <2>2 DEF PerSlot, Single, Claimed, Begun, Free
<1>6. ReadFormed(r) /\ (r.for = "ahead" => Near(r.slot, t, w))
  BY <1>2 DEF ReadFormed
<1>7. Formed(u, u.reads, DOMAIN u.reads, t)
  BY <1>1, <1>4, <1>6 DEF Sound, Good, Formed
<1>8. AheadNear(u, u.reads, DOMAIN u.reads, t, w)
  BY <1>1, <1>4, <1>6 DEF Sound, Good, AheadNear
<1>9. QED
  BY <1>1, <1>4, <1>5, <1>7, <1>8 DEF Sound, Good, u

LEMMA PendingTickSound ==
    ASSUME NEW s, NEW t, NEW w, Sound(s, t, w)
    PROVE  LET u == HandlePendingClean(s, t)
           IN  Sound(u, t, w) /\ u.ram.fired = s.ram.fired /\ u.prepared = s.prepared
               /\ u.skip = s.skip
<1> DEFINE u == HandlePendingClean(s, t)
           e == Excuse(s, {s.ram.pending})
<1>0. s \in Mem /\ Good(s, s.reads, DOMAIN s.reads, t, w)
  BY DEF Sound, Good
<1>1. CASE s.ram.pending = None
  BY <1>1 DEF HandlePendingClean
<1>2. CASE s.ram.pending # None /\ t > s.ram.issuedAt + BootTimeout
  <2>1. u = ClearPendingClean(e)
    BY <1>2 DEF HandlePendingClean
  <2>2. s.ram.pending \in Slot
    BY <1>0, <1>2 DEF Mem, Rams
  <2>3. /\ e \in Mem /\ e.log = [s.log EXCEPT !.excused = @ \cup {s.ram.pending}]
        /\ e.ram = s.ram /\ e.prepared = s.prepared /\ e.skip = s.skip
        /\ e.rebootPending = s.rebootPending /\ e.reads = s.reads
        /\ e.charger = s.charger /\ e.orders = s.orders
    BY <1>0, <2>2, ExcuseIs
  <2> HIDE DEF e, u
  <2>4. e.log.cleaned = s.log.cleaned /\ e.log.skipped = s.log.skipped
    BY <1>0, <2>3 DEF Mem, Logs
  <2>5. Good(e, s.reads, DOMAIN s.reads, t, w)
    <3>1. \A y \in e.ram.fired : t >= At[y]
      BY <1>0, <2>3 DEF Good, Formed
    <3>2. /\ e.ram.pending = s.ram.pending /\ s.ram.fired \subseteq e.ram.fired
      BY <2>3
    <3>3. QED
      BY <1>0, <2>3, <2>4, <3>1, <3>2, KeptGood
  <2>6. Good(u, s.reads, DOMAIN s.reads, t, w)
    BY <2>1, <2>5, ClearGood
  <2>7. /\ u.ram = [e.ram EXCEPT !.pending = None, !.issuedAt = 0] /\ u.reads = e.reads
        /\ u.prepared = e.prepared /\ u.skip = e.skip
    BY <2>1, <2>3, ClearIs
  <2>8. u.ram.fired = s.ram.fired
    BY <1>0, <2>3, <2>7 DEF Mem, Rams
  <2>9. QED
    BY <2>3, <2>6, <2>7, <2>8 DEF Sound, u
<1>3. CASE s.ram.pending # None /\ ~(t > s.ram.issuedAt + BootTimeout)
  <2>1. u = Ask(s, "boot", None, FALSE)
    BY <1>3 DEF HandlePendingClean
  <2>2. "boot" \in Purpose /\ None \in Slot \cup {None} /\ FALSE \in BOOLEAN
    BY DEF Purpose
  <2>3. Sound(u, t, w)
    BY <2>1, <2>2, AskSound
  <2> DEFINE v == Ask(s, "boot", None, FALSE)
  <2>4. v.ram = s.ram /\ v.prepared = s.prepared /\ v.skip = s.skip
    BY <1>0, <2>2, AskIs
  <2>5. QED
    BY <2>1, <2>3, <2>4
<1>4. QED
  BY <1>1, <1>2, <1>3

-----------------------------------------------------------------------------
(* A tick: what is due has nothing under way for it yet.                   *)
LEMMA DueIsUnclaimed ==
    ASSUME NEW s, NEW t, NEW w, Sound(s, t, w), NEW x \in Slot, Due(s, t, x)
    PROVE  ~Claimed(s, s.reads, DOMAIN s.reads, x)
<1>1. PerSlot(s, s.reads, DOMAIN s.reads, t, x) /\ t \in Nat
  BY DEF Sound, Good
<1>2. ~Begun(s, t, x)
  BY <1>1, SlotIs, TimesAssumption DEF Due, Begun
<1>3. QED
  BY <1>1, <1>2 DEF PerSlot

\* A slot that has fired may be asked for or skipped.
LEMMA FiredSound ==
    ASSUME NEW s, NEW t, NEW w, Sound(s, t, w), NEW x \in Slot, Due(s, t, x)
    PROVE  LET u == [s EXCEPT !.ram.fired = @ \cup {x}]
           IN  /\ Sound(u, t, w) /\ Free(u, u.reads, DOMAIN u.reads, t, x)
               /\ u.prepared = s.prepared /\ u.log = s.log /\ u.ram.fired = s.ram.fired \cup {x}
<1> DEFINE u == [s EXCEPT !.ram.fired = @ \cup {x}]
<1>1. s \in Mem /\ s.ram \in Rams /\ u = [s EXCEPT !.ram = [s.ram EXCEPT !.fired = @ \cup {x}]]
  BY DEF Sound, Good, Mem
<1>2. [s.ram EXCEPT !.fired = @ \cup {x}] \in Rams
  BY <1>1 DEF Rams
<1> HIDE DEF u
<1>3. /\ u.ram \in Rams /\ u.ram.fired = s.ram.fired \cup {x} /\ u.ram.pending = s.ram.pending
  BY <1>1, <1>2 DEF Mem, Rams
<1>4. /\ u \in Mem /\ u.log = s.log /\ u.orders = s.orders /\ u.charger = s.charger
      /\ u.rebootPending = s.rebootPending /\ u.reads = s.reads /\ u.prepared = s.prepared
  BY <1>1, <1>2 DEF Mem
<1>5. \A y \in u.ram.fired : t >= At[y]
  BY <1>3 DEF Sound, Good, Formed, Due
<1>6. Good(u, s.reads, DOMAIN s.reads, t, w)
  BY <1>3, <1>4, <1>5, KeptGood DEF Sound
<1>7. ~Claimed(u, s.reads, DOMAIN s.reads, x)
  BY <1>3, <1>4, DueIsUnclaimed DEF Claimed
<1>8. Begun(u, t, x)
  BY <1>3, <1>5 DEF Begun
<1>9. QED
  BY <1>3, <1>4, <1>6, <1>7, <1>8 DEF Sound, Free, u

LEMMA SkippedGood ==
    ASSUME NEW s, NEW R, NEW A, NEW t, NEW w, Good(s, R, A, t, w), NEW x, Free(s, R, A, t, x)
    PROVE  LET u == [s EXCEPT !.skip = FALSE, !.log.skipped = @ \cup {x}] IN Good(u, R, A, t, w)
<1> DEFINE u == [s EXCEPT !.skip = FALSE, !.log.skipped = @ \cup {x}]
           l == [s.log EXCEPT !.skipped = @ \cup {x}]
<1>1. s \in Mem /\ s.log \in Logs /\ x \in Slot
  BY DEF Good, Mem, Free
<1>2. l \in Logs /\ l.skipped = s.log.skipped \cup {x} /\ l.cleaned = s.log.cleaned
  BY <1>1 DEF Logs
<1>3. u = [s EXCEPT !.skip = FALSE, !.log = l]
  BY <1>1 DEF Mem
<1> HIDE DEF l, u
<1>4. /\ u \in Mem /\ u.log = l /\ u.ram = s.ram /\ u.orders = s.orders /\ u.charger = s.charger
      /\ u.rebootPending = s.rebootPending
  BY <1>1, <1>2, <1>3 DEF Mem
<1>5. ASSUME NEW y \in Slot
      PROVE  PerSlot(u, R, A, t, y)
  <2>1. PerSlot(s, R, A, t, y)
    BY DEF Good
  <2>2. CASE y = x
    <3>1. s.log.cleaned[y] \in 0 .. 2 /\ ~(s.log.cleaned[y] > 0)
      BY <1>1, <2>2 DEF Free, Claimed, Closed, Logs
    <3>2. s.log.cleaned[y] = 0 /\ u.log.cleaned[y] = 0
      BY <1>2, <1>4, <3>1
    <3>3. QED
      BY <1>2, <1>4, <2>1, <2>2, <3>2 DEF PerSlot, Single, Claimed, Begun, Free
  <2>3. CASE y # x
    <3>1. /\ Closed(u.log, y) <=> Closed(s.log, y)
          /\ u.log.cleaned[y] = s.log.cleaned[y] /\ (y \in u.log.skipped <=> y \in s.log.skipped)
      BY <1>2, <1>4, <2>3 DEF Closed
    <3>2. QED
      BY <1>4, <2>1, <3>1 DEF PerSlot, Single, Claimed, Begun
  <2>4. QED
    BY <2>2, <2>3
<1>6. Formed(u, R, A, t) /\ AheadNear(u, R, A, t, w)
  BY <1>4 DEF Good, Formed, AheadNear
<1>7. QED
  BY <1>4, <1>5, <1>6 DEF Good, u

LEMMA FireSlotSound ==
    ASSUME NEW s, NEW t, NEW w, Sound(s, t, w), NEW x \in Slot, Due(s, t, x)
    PROVE  Sound(HandleScheduledCleaning(s, x), t, w)
<1> DEFINE v == [s EXCEPT !.ram.fired = @ \cup {x}]
           u == HandleScheduledCleaning(s, x)
<1>1. /\ Sound(v, t, w) /\ Free(v, v.reads, DOMAIN v.reads, t, x)
  BY FiredSound
<1>2. CASE s.skip
  <2> DEFINE z == [v EXCEPT !.skip = FALSE, !.log.skipped = @ \cup {x}]
  <2>1. u = z
    BY <1>2 DEF HandleScheduledCleaning, Sound, Good, Mem, Rams, Logs
  <2>2. v \in Mem
    BY <1>1 DEF Sound, Good
  <2> HIDE DEF v
  <2>3. Good(z, v.reads, DOMAIN v.reads, t, w)
    BY <1>1, SkippedGood DEF Sound
  <2>4. z.reads = v.reads
    BY <2>2 DEF Mem
  <2>5. QED
    BY <2>1, <2>3, <2>4 DEF Sound
<1>3. CASE ~s.skip
  <2> DEFINE f == RestartBeforeClean /\ s.prepared # x
  <2>1. u = Ask(v, "slot", x, f)
    BY <1>3 DEF HandleScheduledCleaning
  <2>2. f \in BOOLEAN /\ "slot" \in Purpose /\ x \in Slot \cup {None} /\ x # None
    BY SlotIs, SwitchAssumption DEF Purpose
  <2> HIDE DEF v, f
  <2>3. Sound(Ask(v, "slot", x, f), t, w)
    BY <1>1, <2>2, AskSound
  <2>4. QED
    BY <2>1, <2>3
<1>4. QED
  BY <1>2, <1>3

LEMMA AskAheadSound ==
    ASSUME NEW s, NEW t, NEW w, Sound(s, t, w), NEW x \in Slot, Near(x, t, w)
    PROVE  Sound(Ask([s EXCEPT !.ram.aheadPending = TRUE], "ahead", x, FALSE), t, w)
<1> DEFINE v == [s EXCEPT !.ram.aheadPending = TRUE]
<1>1. s \in Mem /\ s.ram \in Rams /\ v = [s EXCEPT !.ram = [s.ram EXCEPT !.aheadPending = TRUE]]
  BY DEF Sound, Good, Mem
<1>2. [s.ram EXCEPT !.aheadPending = TRUE] \in Rams
  BY <1>1 DEF Rams
<1> HIDE DEF v
<1>3. /\ v.ram.fired = s.ram.fired /\ v.ram.pending = s.ram.pending
  BY <1>1 DEF Mem, Rams
<1>4. /\ v \in Mem /\ v.log = s.log /\ v.orders = s.orders /\ v.charger = s.charger
      /\ v.rebootPending = s.rebootPending /\ v.reads = s.reads
  BY <1>1, <1>2 DEF Mem
<1>5. Sound(v, t, w)
  BY <1>3, <1>4, KeptGood DEF Sound, Good, Formed
<1>6. "ahead" \in Purpose /\ x \in Slot \cup {None} /\ FALSE \in BOOLEAN /\ x # None
  BY SlotIs DEF Purpose
<1>7. QED
  BY <1>5, <1>6, AskSound DEF v

LEMMA TickedSound ==
    ASSUME NEW s0, NEW t, NEW w, Sound(s0, t, w)
    PROVE  Sound(Ticked(s0, t), t, w)
<1> DEFINE s == HandlePendingClean(s0, t)
           ahead == AheadSlots(s, t)
           due == {x \in Slot : Due(s, t, x)}
<1>1. Sound(s, t, w) /\ t \in Nat /\ w \in Nat
  BY PendingTickSound DEF Sound, Good
<1> HIDE DEF s
<1>2. CASE ahead # {}
  <2>1. ahead \subseteq Slot /\ \A x \in ahead : AheadDue(s, t, x)
    BY DEF AheadSlots
  <2>2. First(ahead) \in ahead
    BY <1>2, <2>1, FirstIs
  <2> DEFINE x == First(ahead)
  <2>3. x \in Slot /\ AheadDue(s, t, x)
    BY <2>1, <2>2
  <2> HIDE DEF x
  <2>4. Near(x, t, w)
    <3>1. At[x] \in Nat /\ t + Lead \in Nat
      BY <1>1, <2>3, SlotIs, TimesAssumption
    <3>2. QED
      BY <1>1, <2>3, <3>1, TimesAssumption DEF AheadDue, Near
  <2>5. Ticked(s0, t) = Ask([s EXCEPT !.ram.aheadPending = TRUE], "ahead", x, FALSE)
    BY <1>2 DEF Ticked, s, x
  <2>6. QED
    BY <1>1, <2>3, <2>4, <2>5, AskAheadSound
<1>3. CASE ahead = {} /\ due # {}
  <2> DEFINE x == First(due)
  <2>1. x \in due
    BY <1>3, FirstIs
  <2>2. Ticked(s0, t) = HandleScheduledCleaning(s, x)
    BY <1>3 DEF Ticked, s
  <2> HIDE DEF x
  <2>3. QED
    BY <1>1, <2>1, <2>2, FireSlotSound
<1>4. CASE ahead = {} /\ due = {} /\ AutoRestartDue(s, t)
  <2>1. Ticked(s0, t) = Ask(s, "auto", None, FALSE)
    BY <1>4 DEF Ticked, s
  <2>2. "auto" \in Purpose /\ None \in Slot \cup {None} /\ FALSE \in BOOLEAN
    BY DEF Purpose
  <2>3. Sound(Ask(s, "auto", None, FALSE), t, w)
    BY <1>1, <2>2, AskSound
  <2>4. QED
    BY <2>1, <2>3
<1>5. CASE ahead = {} /\ due = {} /\ ~AutoRestartDue(s, t)
  <2>1. Ticked(s0, t) = s
    BY <1>5 DEF Ticked, s
  <2>2. QED
    BY <1>1, <2>1
<1>6. QED
  BY <1>2, <1>3, <1>4, <1>5

-----------------------------------------------------------------------------
(* The invariant, and the steps that keep it.                              *)
(* The strengthening behind CleansOnce and SkipIsKept.                     *)
SInv == TypeOK /\ Sound(Now, now, slow)

LEMMA NowTyped == TypeOK => Now \in Mem /\ now \in Nat /\ slow \in Nat /\ slow <= MaxSlow
BY TimesAssumption DEF TypeOK, Now, Mem, Rams, Logs

LEMMA BecomesNow ==
    ASSUME NEW u \in Mem, Becomes(u)
    PROVE  Now' = u
BY DEF Becomes, Now, Mem

LEMMA BecomesSound ==
    ASSUME NEW u, Becomes(u), Sound(u, now', slow'),
           now' \in 0 .. End, robot' \in {"idle", "cleaning", "booting"}, docked' \in BOOLEAN,
           faults' \in 0 .. MaxFaults, slow' \in 0 .. MaxSlow
    PROVE  SInv'
<1>1. u \in Mem
  BY DEF Sound, Good
<1>2. Now' = u
  BY <1>1, BecomesNow
<1>3. TypeOK'
  BY <1>1 DEF Becomes, Mem, Rams, Logs, TypeOK
<1>4. QED
  BY <1>2, <1>3 DEF SInv

LEMMA InitSound == Init => SInv
<1> SUFFICES ASSUME Init PROVE SInv
  OBVIOUS
<1>1. TypeOK
  <2>1. ram \in Rams
    BY FreshIs DEF Init
  <2>2. log \in Logs
    BY DEF Init, Logs
  <2>3. 0 \in 0 .. End /\ 0 \in 0 .. MaxFaults /\ 0 \in 0 .. MaxSlow /\ Grace \in 0 .. Grace
        /\ <<>> \in Seq(Read) /\ <<>> \in Seq(Order)
    BY TimesAssumption
  <2>4. QED
    BY <2>1, <2>2, <2>3 DEF Init, TypeOK, Rams, Logs
<1>2. Now \in Mem /\ now \in Nat /\ slow \in Nat
  BY <1>1, NowTyped
<1>3. /\ Now.ram.fired = {} /\ Now.ram.pending = None /\ Now.reads = <<>> /\ Now.orders = <<>>
      /\ Now.charger = None /\ ~Now.rebootPending
      /\ \A y \in Slot : ~Closed(Now.log, y) /\ Now.log.cleaned[y] = 0
  BY FreshIs DEF Init, Now, Closed
<1> DEFINE s == Now
<1> HIDE DEF s
<1>4. s.ram.fired = {} /\ s.ram.pending = None /\ s.reads = <<>> /\ s.orders = <<>>
      /\ s.charger = None /\ ~s.rebootPending
      /\ \A y \in Slot : ~Closed(s.log, y) /\ s.log.cleaned[y] = 0
  BY <1>3 DEF s
<1>5. DOMAIN s.reads = {} /\ DOMAIN s.orders = {} /\ s.reads \in Seq(Read)
  BY <1>4
<1>6. ASSUME NEW y \in Slot
      PROVE  PerSlot(s, s.reads, DOMAIN s.reads, now, y)
  <2>1. y # None /\ ~Asked(s.reads, DOMAIN s.reads, y) /\ ~Ordered(s.orders, y)
    BY <1>5, SlotIs DEF Asked, Ordered
  <2>2. QED
    BY <1>4, <2>1 DEF PerSlot, Single, Claimed
<1>7. /\ Formed(s, s.reads, DOMAIN s.reads, now) /\ AheadNear(s, s.reads, DOMAIN s.reads, now, slow)
      /\ OneRead(s.reads, DOMAIN s.reads) /\ OneOrder(s.orders)
  BY <1>4, <1>5 DEF Formed, AheadNear, OneRead, OneOrder
<1>8. QED
  BY <1>1, <1>2, <1>6, <1>7 DEF SInv, Sound, Good, s

LEMMA TimeSound ==
    ASSUME SInv, now < End, IF Answered THEN UNCHANGED slow ELSE slow' = slow + 1
    PROVE  Sound([Now EXCEPT !.uptime = IF @ < Grace THEN @ + 1 ELSE @], now + 1, slow')
<1> DEFINE s == Now
           u == [Now EXCEPT !.uptime = IF @ < Grace THEN @ + 1 ELSE @]
           t == now + 1
<1>1. /\ s \in Mem /\ now \in Nat /\ slow \in Nat /\ t \in Nat /\ slow' \in Nat
      /\ Good(s, s.reads, DOMAIN s.reads, now, slow)
  BY NowTyped DEF SInv, Sound
<1>2. Answered => s.reads = <<>> /\ s.charger = None /\ s.orders = <<>> /\ ~s.rebootPending
  BY DEF Answered, Now
<1> HIDE DEF s
<1>3. u = [s EXCEPT !.uptime = IF s.uptime < Grace THEN s.uptime + 1 ELSE s.uptime]
  BY DEF s
<1>4. s.uptime \in 0 .. Grace
      /\ (IF s.uptime < Grace THEN s.uptime + 1 ELSE s.uptime) \in 0 .. Grace
  BY <1>1, TimesAssumption DEF Mem
<1> HIDE DEF u
<1>5. /\ u \in Mem /\ u.ram = s.ram /\ u.log = s.log /\ u.orders = s.orders
      /\ u.charger = s.charger /\ u.rebootPending = s.rebootPending /\ u.reads = s.reads
  BY <1>1, <1>3, <1>4 DEF Mem
<1>6. \A y \in Slot : Begun(s, now, y) => Begun(u, t, y)
  BY <1>1, <1>5, SlotIs, TimesAssumption DEF Begun
<1>7. \A y \in Slot : PerSlot(u, u.reads, DOMAIN u.reads, t, y)
  BY <1>1, <1>5, <1>6 DEF Good, PerSlot, Single, Claimed
<1>8. Formed(u, u.reads, DOMAIN u.reads, t)
  <2>1. \A y \in u.ram.fired : t >= At[y]
    <3>1. \A y \in s.ram.fired : y \in Slot /\ now >= At[y]
      BY <1>1 DEF Good, Formed, Mem, Rams
    <3>2. ASSUME NEW y \in Slot, now >= At[y]
          PROVE  t >= At[y]
      <4>1. At[y] \in Nat
        BY SlotIs
      <4>2. QED
        BY <1>1, <3>2, <4>1
    <3>3. QED
      BY <1>5, <3>1, <3>2
  <2>2. QED
    BY <1>1, <1>5, <2>1 DEF Good, Formed
<1>9. AheadNear(u, u.reads, DOMAIN u.reads, t, slow')
  <2>1. CASE Answered
    BY <1>2, <1>5, <2>1 DEF AheadNear
  <2>2. CASE ~Answered
    <3>1. slow' = slow + 1
      BY <2>2
    <3>2. \A x \in Slot : Near(x, now, slow) => Near(x, t, slow')
      BY <1>1, <3>1, SlotIs, TimesAssumption DEF Near
    <3>3. \A x : Near(x, now, slow) => Near(x, t, slow')
      BY <3>2 DEF Near
    <3>4. QED
      BY <1>1, <1>5, <3>3 DEF Good, AheadNear
  <2>3. QED
    BY <2>1, <2>2
<1>10. QED
  BY <1>1, <1>5, <1>7, <1>8, <1>9 DEF Sound, Good, u

LEMMA TickSound == SInv /\ Tick => SInv'
<1> SUFFICES ASSUME SInv, Tick PROVE SInv'
  OBVIOUS
<1> DEFINE u == [Now EXCEPT !.uptime = IF @ < Grace THEN @ + 1 ELSE @]
<1>1. /\ now < End /\ (IF Answered THEN UNCHANGED slow ELSE slow < MaxSlow /\ slow' = slow + 1)
      /\ now' = now + 1 /\ Becomes(Ticked(u, now + 1)) /\ UNCHANGED <<robot, docked, faults>>
  BY DEF Tick
<1>2. TypeOK /\ now' \in 0 .. End /\ slow' \in 0 .. MaxSlow
  BY <1>1, TimesAssumption, SMTT(60) DEF SInv, TypeOK
<1>3. Sound(u, now + 1, slow')
  BY <1>1, TimeSound
<1> HIDE DEF u
<1>4. Sound(Ticked(u, now + 1), now + 1, slow')
  BY <1>3, TickedSound
<1>5. QED
  BY <1>1, <1>2, <1>4, BecomesSound DEF TypeOK

LEMMA KeptSound ==
    ASSUME NEW s, NEW t, NEW w, Sound(s, t, w), NEW u \in Mem, u.reads = s.reads,
           u.orders = s.orders, u.ram.pending = s.ram.pending, u.ram.fired = s.ram.fired,
           u.log.cleaned = s.log.cleaned, u.log.skipped = s.log.skipped,
           u.charger \in {s.charger, None}, u.rebootPending = s.rebootPending
    PROVE  Sound(u, t, w)
BY KeptGood DEF Sound, Good, Formed

LEMMA StateReadSound ==
    ASSUME SInv, NEW ok \in BOOLEAN, NEW garbage, StateRead(ok, garbage)
    PROVE  SInv' /\ log'.skipped = log.skipped
<1> DEFINE s == [Now EXCEPT !.reads = <<>>]
           late == {reads[i].slot : i \in DOMAIN reads} \ {None}
           b == IF robot = "booting" THEN Excuse(s, late) ELSE s
           u == AllSeen(b, reads, ok, robot = "idle", garbage)
<1>1. /\ Becomes(u) /\ UNCHANGED <<now, robot, docked, slow>>
      /\ IF ok \/ robot = "booting" THEN UNCHANGED faults ELSE Fault
  BY DEF StateRead
<1>2. TypeOK /\ Now \in Mem /\ reads \in Seq(Read) /\ Now.reads = reads
  BY NowTyped DEF SInv, TypeOK, Now
<1>3. faults' \in 0 .. MaxFaults
  BY <1>1, <1>2, TimesAssumption DEF TypeOK, Fault
<1>4. /\ s \in Mem /\ s.ram = Now.ram /\ s.log = Now.log /\ s.orders = Now.orders
      /\ s.charger = Now.charger /\ s.rebootPending = Now.rebootPending /\ s.reads = <<>>
  <2>1. <<>> \in Seq(Read)
    OBVIOUS
  <2>2. QED
    BY <1>2, <2>1 DEF Mem
<1>5. late \subseteq Slot
  <2>1. \A i \in DOMAIN reads : reads[i] \in Read
    BY <1>2
  <2>2. QED
    BY <2>1 DEF Read
<1> HIDE DEF s, late
<1>6. /\ b \in Mem /\ b.ram = Now.ram /\ b.log.cleaned = Now.log.cleaned
      /\ b.log.skipped = Now.log.skipped /\ b.orders = Now.orders
      /\ b.charger = Now.charger /\ b.rebootPending = Now.rebootPending /\ b.reads = <<>>
  <2>1. CASE robot # "booting"
    BY <1>4, <2>1
  <2>2. CASE robot = "booting"
    <3> DEFINE e == Excuse(s, late)
    <3>1. /\ e \in Mem /\ e.log = [s.log EXCEPT !.excused = @ \cup late]
          /\ e.ram = s.ram /\ e.rebootPending = s.rebootPending /\ e.reads = s.reads
          /\ e.charger = s.charger /\ e.orders = s.orders
      BY <1>4, <1>5, ExcuseIs
    <3> HIDE DEF e
    <3>2. e.log.cleaned = s.log.cleaned /\ e.log.skipped = s.log.skipped
      BY <1>4, <3>1 DEF Mem, Logs
    <3>3. b = e
      BY <2>2 DEF e
    <3>4. QED
      BY <1>4, <3>1, <3>2, <3>3
  <2>3. QED
    BY <2>1, <2>2
<1> HIDE DEF b
<1>7. Good(Now, reads, DOMAIN reads, now, slow)
  BY <1>2 DEF SInv, Sound
<1>8. Good(b, reads, DOMAIN reads, now, slow)
  <2>1. \A y \in b.ram.fired : now >= At[y]
    BY <1>6, <1>7 DEF Good, Formed
  <2>2. QED
    BY <1>6, <1>7, <2>1, KeptGood
<1> DEFINE idle == robot = "idle"
<1>9. idle \in BOOLEAN
  OBVIOUS
<1> HIDE DEF idle
<1>10. Good(u, reads, {}, now, slow) /\ u.reads = <<>> /\ u.log.skipped = Now.log.skipped
  <2>1. /\ Good(AllSeen(b, reads, ok, idle, garbage), reads, {}, now, slow)
        /\ AllSeen(b, reads, ok, idle, garbage).reads = b.reads
        /\ AllSeen(b, reads, ok, idle, garbage).log.skipped = b.log.skipped
    BY <1>8, <1>9, AllSeenGood
  <2>2. QED
    BY <1>6, <2>1 DEF idle
<1> HIDE DEF u
<1>11. Sound(u, now, slow)
  <2>1. DOMAIN u.reads = {} /\ u.reads \in Seq(Read)
    BY <1>10
  <2>2. \A y : Asked(u.reads, {}, y) <=> Asked(reads, {}, y)
    BY DEF Asked
  <2>3. \A y \in Slot : PerSlot(u, u.reads, {}, now, y)
    BY <1>10, <2>2 DEF Good, PerSlot, Single, Claimed
  <2>4. Formed(u, u.reads, {}, now) /\ AheadNear(u, u.reads, {}, now, slow) /\ OneRead(u.reads, {})
    BY <1>10, <2>1 DEF Good, Formed, AheadNear, OneRead
  <2>5. Good(u, u.reads, {}, now, slow)
    BY <1>10, <2>3, <2>4 DEF Good
  <2>6. QED
    BY <2>1, <2>5 DEF Sound
<1>12. log'.skipped = log.skipped
  BY <1>1, <1>10 DEF Becomes, Now
<1>13. QED
  BY <1>1, <1>2, <1>3, <1>11, <1>12, BecomesSound DEF TypeOK

LEMMA ChargerReadSound == ASSUME SInv, NEW ok, ChargerRead(ok) PROVE SInv'
<1> DEFINE s == Now
           c == [Now EXCEPT !.charger = None]
           u == IF ok /\ docked THEN Command(c, "restart", "ahead", charger)
                ELSE [Now EXCEPT !.charger = None, !.ram.aheadPending = FALSE]
<1>1. /\ Becomes(u) /\ UNCHANGED <<now, robot, docked, slow>> /\ charger # None
      /\ IF ok \/ robot = "booting" THEN UNCHANGED faults ELSE Fault
  BY DEF ChargerRead
<1>2. TypeOK /\ s \in Mem /\ s.charger = charger /\ Sound(s, now, slow)
  BY NowTyped DEF SInv, Now
<1>3. faults' \in 0 .. MaxFaults /\ charger \in Slot
  BY <1>1, <1>2, TimesAssumption DEF TypeOK, Fault
<1> HIDE DEF s
<1>4. c = [s EXCEPT !.charger = None]
  BY DEF s
<1> HIDE DEF c
<1>5. /\ c \in Mem /\ c.ram = s.ram /\ c.log = s.log /\ c.orders = s.orders
      /\ c.charger = None /\ c.rebootPending = s.rebootPending /\ c.reads = s.reads
  BY <1>2, <1>4 DEF Mem
<1>6. Sound(c, now, slow)
  BY <1>2, <1>5, KeptSound
<1>7. CASE ok /\ docked
  <2>1. Near(charger, now, slow)
    BY <1>1, <1>2 DEF Sound, Good, AheadNear
  <2>2. /\ "restart" \in {"restart", "clean"} /\ "ahead" \in Purpose
        /\ charger \in Slot \cup {None}
    BY <1>3 DEF Purpose
  <2> DEFINE v == Command(c, "restart", "ahead", charger)
  <2>3. Good(v, c.reads, DOMAIN c.reads, now, slow)
    BY <1>3, <1>6, <2>1, <2>2, CommandGood DEF Sound
  <2>4. v.reads = c.reads
    BY <1>3, <1>5, <2>2, CommandIs
  <2>5. Sound(u, now, slow)
    BY <1>7, <2>3, <2>4 DEF Sound, c
  <2>6. QED
    BY <1>1, <1>2, <1>3, <2>5, BecomesSound DEF TypeOK
<1>8. CASE ~(ok /\ docked)
  <2> DEFINE v == [c EXCEPT !.ram.aheadPending = FALSE]
  <2>1. u = [s EXCEPT !.charger = None, !.ram.aheadPending = FALSE]
    BY <1>8 DEF s
  <2>2. u = v
    BY <1>2, <1>4, <2>1 DEF Mem
  <2>3. v.ram = [c.ram EXCEPT !.aheadPending = FALSE] /\ v = [c EXCEPT !.ram = v.ram]
    BY <1>5 DEF Mem
  <2> HIDE DEF v, u
  <2>4. /\ v \in Mem /\ v.ram.fired = c.ram.fired /\ v.ram.pending = c.ram.pending
        /\ v.orders = c.orders /\ v.charger = c.charger /\ v.rebootPending = c.rebootPending
        /\ v.log = c.log /\ v.reads = c.reads
    BY <1>5, <2>3 DEF Mem, Rams
  <2>5. Sound(u, now, slow)
    BY <1>6, <2>2, <2>4, KeptSound
  <2>6. QED
    BY <1>1, <1>2, <1>3, <2>5, BecomesSound DEF TypeOK, u
<1>9. QED
  BY <1>7, <1>8

\* The order at the head of the queue is taken.
LEMMA HeadTaken ==
    ASSUME SInv, orders # <<>>
    PROVE  LET u == [Now EXCEPT !.orders = Tail(@)]
               o == Head(orders)
           IN  /\ Good(u, reads, DOMAIN reads, now, slow) /\ u.reads = reads /\ u \in Mem
               /\ o \in Order /\ OrderFormed(o)
               /\ o.for = "ahead" => Near(o.slot, now, slow)
               /\ \A y \in Slot : RestartOf(o, y) => Free(u, reads, DOMAIN reads, now, y)
               /\ u.ram = ram /\ u.log = log
<1> DEFINE u == [Now EXCEPT !.orders = Tail(@)]
           s == Now
<1>1. s \in Mem /\ s.orders = orders /\ s.reads = reads /\ s.ram = ram /\ s.log = log
      /\ Good(s, s.reads, DOMAIN s.reads, now, slow)
  BY NowTyped DEF SInv, Sound, Now
<1> HIDE DEF s
<1>2. u = [s EXCEPT !.orders = Tail(@)]
  BY DEF s
<1> HIDE DEF u
<1>3. /\ Good(u, s.reads, DOMAIN s.reads, now, slow) /\ Head(s.orders) \in Order
      /\ OrderFormed(Head(s.orders))
      /\ Head(s.orders).for = "ahead" => Near(Head(s.orders).slot, now, slow)
      /\ \A y \in Slot : RestartOf(Head(s.orders), y) => Free(u, s.reads, DOMAIN s.reads, now, y)
  BY <1>1, <1>2, TakenGood
<1>4. u.reads = s.reads /\ u \in Mem /\ u.ram = s.ram /\ u.log = s.log
  BY <1>1, <1>2, <1>3 DEF Mem, Good
<1>5. QED
  BY <1>1, <1>3, <1>4 DEF u

LEMMA RestartedReads ==
    ASSUME NEW s \in Mem, NEW o \in Order
    PROVE  o.for # "boot" => Restarted(s, o).reads = s.reads
BY DEF Restarted, Mem, Order

LEMMA RestartDoneSound == ~CutsPower /\ SInv /\ RestartDone => SInv'
<1> SUFFICES ASSUME ~CutsPower, SInv, RestartDone PROVE SInv'
  OBVIOUS
<1> DEFINE v == [Now EXCEPT !.orders = Tail(@)]
           o == Head(orders)
           u == Restarted(v, o)
<1>1. /\ orders # <<>> /\ o.cmd = "restart" /\ Becomes(u) /\ robot' = "booting"
      /\ UNCHANGED <<now, docked, faults, slow>>
  BY DEF RestartDone
<1>2. TypeOK /\ now \in 0 .. End
  BY DEF SInv, TypeOK
<1>3. /\ Good(v, reads, DOMAIN reads, now, slow) /\ v.reads = reads /\ v \in Mem
      /\ o \in Order /\ OrderFormed(o)
      /\ o.for = "ahead" => Near(o.slot, now, slow)
      /\ \A y \in Slot : RestartOf(o, y) => Free(v, reads, DOMAIN reads, now, y)
  BY <1>1, HeadTaken
<1> HIDE DEF v, o
<1>4. Good(u, reads, DOMAIN reads, now, slow)
  BY <1>1, <1>2, <1>3, RestartedGood
<1>5. u.reads = reads
  BY <1>1, <1>3, RestartedReads DEF OrderFormed
<1> HIDE DEF u
<1>6. Sound(u, now, slow)
  BY <1>4, <1>5 DEF Sound
<1>7. QED
  BY <1>1, <1>2, <1>6, BecomesSound DEF TypeOK

LEMMA CleanDoneSound == SInv /\ CleanDone => SInv'
<1> SUFFICES ASSUME SInv, CleanDone PROVE SInv'
  OBVIOUS
<1> DEFINE v == [Now EXCEPT !.orders = Tail(@)]
<1>1. /\ orders # <<>> /\ Becomes(v) /\ robot' = "cleaning"
      /\ UNCHANGED <<now, docked, faults, slow>>
  BY DEF CleanDone
<1>2. TypeOK
  BY DEF SInv
<1>3. Good(v, reads, DOMAIN reads, now, slow) /\ v.reads = reads
  BY <1>1, HeadTaken
<1> HIDE DEF v
<1>4. Sound(v, now, slow)
  BY <1>3 DEF Sound
<1>5. QED
  BY <1>1, <1>2, <1>4, BecomesSound DEF TypeOK

LEMMA CommandFailsSound == SInv /\ CommandFails => SInv'
<1> SUFFICES ASSUME SInv, CommandFails PROVE SInv'
  OBVIOUS
<1> DEFINE v == [Now EXCEPT !.orders = Tail(@)]
           o == Head(orders)
           e == Excuse(v, {o.slot} \ {None})
           u == IF o.for = "ahead" THEN [e EXCEPT !.ram.aheadPending = FALSE] ELSE e
<1>1. /\ orders # <<>> /\ Becomes(u) /\ UNCHANGED <<now, robot, docked, slow>>
      /\ IF robot = "booting" THEN UNCHANGED faults ELSE Fault
  BY DEF CommandFails
<1>2. TypeOK /\ faults' \in 0 .. MaxFaults
  BY <1>1, TimesAssumption, SMTT(60) DEF SInv, TypeOK, Fault
<1>3. /\ Good(v, reads, DOMAIN reads, now, slow) /\ v.reads = reads /\ v \in Mem /\ o \in Order
  BY <1>1, HeadTaken
<1> HIDE DEF v, o
<1>4. {o.slot} \ {None} \subseteq Slot
  BY <1>3 DEF Order
<1>5. /\ e \in Mem /\ e.log = [v.log EXCEPT !.excused = @ \cup ({o.slot} \ {None})]
      /\ e.ram = v.ram /\ e.rebootPending = v.rebootPending /\ e.reads = v.reads
      /\ e.charger = v.charger /\ e.orders = v.orders
  BY <1>3, <1>4, ExcuseIs
<1> HIDE DEF e
<1>6. e.log.cleaned = v.log.cleaned /\ e.log.skipped = v.log.skipped
  BY <1>3, <1>5 DEF Mem, Logs
<1>7. Sound(e, now, slow)
  BY <1>3, <1>5, <1>6, KeptSound DEF Sound
<1>8. Sound(u, now, slow)
  <2>1. CASE o.for # "ahead"
    BY <1>7, <2>1
  <2>2. CASE o.for = "ahead"
    <3>1. u = [e EXCEPT !.ram.aheadPending = FALSE]
      BY <2>2
    <3> HIDE DEF u
    <3>2. u.ram = [e.ram EXCEPT !.aheadPending = FALSE] /\ u = [e EXCEPT !.ram = u.ram]
      BY <1>5, <3>1 DEF Mem
    <3>3. /\ u \in Mem /\ u.ram.fired = e.ram.fired /\ u.ram.pending = e.ram.pending
          /\ u.orders = e.orders /\ u.charger = e.charger /\ u.rebootPending = e.rebootPending
          /\ u.log = e.log /\ u.reads = e.reads
      BY <1>5, <3>2 DEF Mem, Rams
    <3>4. QED
      BY <1>7, <3>3, KeptSound
  <2>3. QED
    BY <2>1, <2>2
<1> HIDE DEF u
<1>9. QED
  BY <1>1, <1>2, <1>8, BecomesSound DEF TypeOK

LEMMA SoftRebootSound == Apart /\ Timely /\ SInv /\ SoftReboot => SInv'
<1> SUFFICES ASSUME Apart, Timely, SInv, SoftReboot PROVE SInv'
  OBVIOUS
<1> DEFINE s == Now
           u == Reboot(s, FALSE)
<1>1. rebootPending /\ Becomes(u) /\ UNCHANGED <<now, robot, docked, faults, slow>>
  BY DEF SoftReboot
<1>2. /\ TypeOK /\ s.rebootPending = rebootPending /\ slow <= MaxSlow
      /\ Good(s, s.reads, DOMAIN s.reads, now, slow)
  BY NowTyped DEF SInv, Sound, Now
<1> HIDE DEF s
<1>3. Good(u, u.reads, DOMAIN u.reads, now, slow)
  BY <1>1, <1>2, RebootGood
<1> HIDE DEF u
<1>4. QED
  BY <1>1, <1>2, <1>3, BecomesSound DEF TypeOK, Sound

LEMMA SkipSound ==
    ASSUME SInv, NEW b \in BOOLEAN, skip' = b,
           UNCHANGED <<now, ram, prepared, uptime, rebootPending, reads, charger, orders, robot,
                       docked, faults, slow, log>>
    PROVE  SInv'
<1> DEFINE s == Now
           u == [s EXCEPT !.skip = b]
<1>1. Becomes(u)
  BY DEF Becomes, Now
<1>2. TypeOK /\ s \in Mem /\ Sound(s, now, slow)
  BY NowTyped DEF SInv
<1> HIDE DEF s
<1>3. /\ u \in Mem /\ u.ram = s.ram /\ u.log = s.log /\ u.orders = s.orders
      /\ u.charger = s.charger /\ u.rebootPending = s.rebootPending /\ u.reads = s.reads
  BY <1>2 DEF Mem
<1>4. Sound(u, now, slow)
  BY <1>2, <1>3, KeptSound
<1> HIDE DEF u
<1>5. QED
  BY <1>1, <1>2, <1>4, BecomesSound DEF TypeOK

LEMMA BridgeStands ==
    ASSUME SInv, UNCHANGED <<now, bridge, docked, faults, slow>>,
           robot' \in {"idle", "cleaning", "booting"}
    PROVE  SInv'
<1>1. Now' = Now
  BY DEF bridge, Now
<1>2. TypeOK'
  BY DEF SInv, TypeOK, bridge
<1>3. QED
  BY <1>1, <1>2 DEF SInv

LEMMA NextSound == Apart /\ Timely /\ ~CutsPower /\ SInv /\ [Next]_vars => SInv'
<1> SUFFICES ASSUME Apart, Timely, ~CutsPower, SInv, [Next]_vars PROVE SInv'
  OBVIOUS
<1>1. CASE Tick
  BY <1>1, TickSound
<1>2. ASSUME NEW ok \in BOOLEAN, NEW garbage \in BOOLEAN, StateRead(ok, garbage)
      PROVE  SInv'
  BY <1>2, StateReadSound
<1>3. ASSUME NEW ok \in BOOLEAN, ChargerRead(ok)
      PROVE  SInv'
  BY <1>3, ChargerReadSound
<1>4. CASE RestartDone
  BY <1>4, RestartDoneSound
<1>5. CASE CleanDone
  BY <1>5, CleanDoneSound
<1>6. CASE CommandFails
  BY <1>6, CommandFailsSound
<1>7. CASE SoftReboot
  BY <1>7, SoftRebootSound
<1>8. CASE RequestSkip
  BY <1>8, SkipSound DEF RequestSkip
<1>9. CASE CancelSkip
  BY <1>9, SkipSound DEF CancelSkip
<1>10. CASE RobotBoots
  BY <1>10, BridgeStands DEF RobotBoots
<1>11. CASE RobotFinishes
  BY <1>11, BridgeStands DEF RobotFinishes
<1>12. CASE UNCHANGED vars
  BY <1>12, BridgeStands DEF vars, bridge, SInv, TypeOK
<1>13. QED
  BY <1>1, <1>2, <1>3, <1>4, <1>5, <1>6, <1>7, <1>8, <1>9, <1>10, <1>11, <1>12 DEF Next

(* tick(), the answers and the restarts never send two cleans for one slot *)
(* of a day: neither a late answer, nor the robot's restart in the window  *)
(* or that of robot and bridge ahead of it, nor a retry after a fault does.*)
(* ~CutsPower and Apart exclude what would reboot the bridge in the window.*)
THEOREM CleansOnce ==
    ASSUME ~CutsPower, Apart, Timely
    PROVE  Spec => []CleanedOnce
<1>1. SInv => CleanedOnce
  BY DEF SInv, Sound, Good, PerSlot, CleanedOnce, Now
<1>2. Init => SInv
  BY InitSound
<1>3. SInv /\ [Next]_vars => SInv'
  BY NextSound
<1>4. QED
  BY <1>1, <1>2, <1>3, PTL DEF Spec

LEMMA TickedSkips ==
    ASSUME NEW s0 \in Mem, NEW t
    PROVE  s0.log.skipped \subseteq Ticked(s0, t).log.skipped
<1> DEFINE s == HandlePendingClean(s0, t)
           ahead == AheadSlots(s, t)
           due == {x \in Slot : Due(s, t, x)}
<1>1. s \in Mem /\ s.log.skipped = s0.log.skipped
  <2>1. CASE s0.ram.pending = None
    BY <2>1 DEF HandlePendingClean
  <2>2. CASE s0.ram.pending # None /\ t > s0.ram.issuedAt + BootTimeout
    <3> DEFINE e == Excuse(s0, {s0.ram.pending})
    <3>1. s0.ram.pending \in Slot
      BY <2>2 DEF Mem, Rams
    <3>2. e \in Mem /\ e.log = [s0.log EXCEPT !.excused = @ \cup {s0.ram.pending}]
      BY <3>1, ExcuseIs
    <3>3. e.log.skipped = s0.log.skipped
      BY <3>2 DEF Mem, Logs
    <3>4. s = ClearPendingClean(e)
      BY <2>2 DEF HandlePendingClean
    <3> HIDE DEF e, s
    <3>5. QED
      BY <3>2, <3>3, <3>4, ClearIs
  <2>3. CASE s0.ram.pending # None /\ ~(t > s0.ram.issuedAt + BootTimeout)
    <3>1. s = Ask(s0, "boot", None, FALSE)
      BY <2>3 DEF HandlePendingClean
    <3> HIDE DEF s
    <3>2. QED
      BY <3>1, AskIs DEF Purpose
  <2>4. QED
    BY <2>1, <2>2, <2>3
<1> HIDE DEF s
<1>2. CASE ahead # {}
  <2> DEFINE v == [s EXCEPT !.ram.aheadPending = TRUE]
  <2>1. Ticked(s0, t) = Ask(v, "ahead", First(ahead), FALSE)
    BY <1>2 DEF Ticked, s
  <2>2. v.log = s.log /\ Ask(v, "ahead", First(ahead), FALSE).log = s.log
    BY <1>1 DEF Ask, Mem
  <2>3. QED
    BY <1>1, <2>1, <2>2
<1>3. CASE ahead = {} /\ due # {}
  <2> DEFINE x == First(due)
  <2>1. Ticked(s0, t) = HandleScheduledCleaning(s, x)
    BY <1>3 DEF Ticked, s
  <2> HIDE DEF x
  <2>2. s.log.skipped \subseteq HandleScheduledCleaning(s, x).log.skipped
    BY <1>1 DEF HandleScheduledCleaning, Ask, Mem, Logs
  <2>3. QED
    BY <1>1, <2>1, <2>2
<1>4. CASE ahead = {} /\ due = {} /\ AutoRestartDue(s, t)
  <2>1. Ticked(s0, t) = Ask(s, "auto", None, FALSE)
    BY <1>4 DEF Ticked, s
  <2>2. QED
    BY <1>1, <2>1 DEF Ask, Mem
<1>5. CASE ahead = {} /\ due = {} /\ ~AutoRestartDue(s, t)
  BY <1>1, <1>5 DEF Ticked, s
<1>6. QED
  BY <1>2, <1>3, <1>4, <1>5
LEMMA SkipsStand == SInv /\ [Next]_vars => log.skipped \subseteq log'.skipped
<1> SUFFICES ASSUME SInv, [Next]_vars PROVE log.skipped \subseteq log'.skipped
  OBVIOUS
<1> DEFINE s == Now
           v == [Now EXCEPT !.orders = Tail(@)]
<1>0. /\ s \in Mem /\ s.log = log /\ s.log \in Logs /\ s.ram \in Rams /\ s.charger = charger
      /\ TypeOK
  BY NowTyped DEF SInv, Now, Mem
<1>1. CASE Tick
  <2> DEFINE n == IF s.uptime < Grace THEN s.uptime + 1 ELSE s.uptime
             u == [s EXCEPT !.uptime = n]
  <2>1. log' = Ticked(u, now + 1).log
    BY <1>1 DEF Tick, Becomes
  <2>2. n \in 0 .. Grace
    BY <1>0, TimesAssumption DEF Mem
  <2> HIDE DEF s, n
  <2>3. u \in Mem /\ u.log = log
    BY <1>0, <2>2 DEF Mem
  <2>4. QED
    BY <2>1, <2>3, TickedSkips
<1>2. ASSUME NEW ok \in BOOLEAN, NEW garbage \in BOOLEAN, StateRead(ok, garbage)
      PROVE  log'.skipped = log.skipped
  BY <1>2, StateReadSound
<1>3. ASSUME NEW ok \in BOOLEAN, ChargerRead(ok)
      PROVE  log' = log
  <2> DEFINE c == [Now EXCEPT !.charger = None]
  <2>1. Becomes(IF ok /\ docked THEN Command(c, "restart", "ahead", charger)
                ELSE [Now EXCEPT !.charger = None, !.ram.aheadPending = FALSE])
    BY <1>3 DEF ChargerRead
  <2>2. Command(c, "restart", "ahead", charger).log = log
    BY DEF Command, Now
  <2>3. [Now EXCEPT !.charger = None, !.ram.aheadPending = FALSE].log = log
    BY DEF Now
  <2>4. QED
    BY <2>1, <2>2, <2>3 DEF Becomes
<1>4. ASSUME orders # <<>>
      PROVE  v \in Mem /\ v.log = log /\ Head(orders) \in Order
  BY <1>4, HeadTaken
<1> HIDE DEF v
<1>5. CASE RestartDone
  <2> DEFINE o == Head(orders)
             u == Restarted(v, o)
  <2>1. /\ orders # <<>> /\ Becomes(IF CutsPower THEN Reboot(u, TRUE) ELSE u)
        /\ o.cmd = "restart"
    BY <1>5 DEF RestartDone, v
  <2>2. v \in Mem /\ v.log = log /\ o \in Order /\ OrderFormed(o)
    BY <1>4, <2>1, HeadTaken
  <2> HIDE DEF o
  <2>3. u.log.skipped = v.log.skipped
    <3>1. o.for \in {"slot", "ahead", "auto"} /\ o.slot \in Slot \cup {None}
      BY <2>1, <2>2 DEF OrderFormed, Order
    <3>2. QED
      BY <2>2, <3>1 DEF Restarted, Mem, Logs
  <2>4. Reboot(u, TRUE).log = u.log
    <3>1. DOMAIN u = DOMAIN v
      BY <2>1, <2>2 DEF Restarted, OrderFormed, Order
    <3>2. "log" \in DOMAIN u
      BY <2>2, <3>1 DEF Mem
    <3> HIDE DEF u
    <3>3. QED
      BY <3>2 DEF Reboot
  <2>5. QED
    BY <2>1, <2>2, <2>3, <2>4 DEF Becomes
<1>6. CASE CleanDone
  BY <1>4, <1>6 DEF CleanDone, Becomes, v
<1>7. CASE CommandFails
  <2> DEFINE o == Head(orders)
             e == Excuse(v, {o.slot} \ {None})
  <2>1. orders # <<>>
        /\ Becomes(IF o.for = "ahead" THEN [e EXCEPT !.ram.aheadPending = FALSE] ELSE e)
    BY <1>7 DEF CommandFails, v
  <2>2. v \in Mem /\ v.log = log /\ {o.slot} \ {None} \subseteq Slot
    BY <1>4, <2>1 DEF Order
  <2>3. e \in Mem /\ e.log = [v.log EXCEPT !.excused = @ \cup ({o.slot} \ {None})]
    BY <2>2, ExcuseIs
  <2> HIDE DEF e
  <2>4. [e EXCEPT !.ram.aheadPending = FALSE].log = e.log
    BY <2>3 DEF Mem
  <2>5. log'.skipped = log.skipped
    BY <1>0, <2>1, <2>2, <2>3, <2>4 DEF Becomes, Logs
  <2>6. QED
    BY <2>5
<1>8. CASE SoftReboot
  BY <1>0, <1>8, RebootIs DEF SoftReboot, Becomes
<1>9. CASE RequestSkip \/ CancelSkip \/ RobotBoots \/ RobotFinishes \/ UNCHANGED vars
  BY <1>9 DEF RequestSkip, CancelSkip, RobotBoots, RobotFinishes, bridge, vars
<1>10. QED
  BY <1>1, <1>2, <1>3, <1>5, <1>6, <1>7, <1>8, <1>9 DEF Next

(* skipNext() is kept: once a tick has passed over a slot on the user's    *)
(* request, no answer, order or restart still under way sends a clean for  *)
(* it.                                                                     *)
THEOREM SkipIsKept ==
    ASSUME ~CutsPower, Apart, Timely
    PROVE  Spec => SkippedIsNotCleaned
<1> DEFINE Kept == \A slot \in log.skipped : log'.cleaned[slot] = log.cleaned[slot]
<1>1. ASSUME SInv, [Next]_vars
      PROVE  Kept
  <2>1. SInv' /\ log.skipped \subseteq log'.skipped
    BY <1>1, NextSound, SkipsStand
  <2>2. \A y \in log.skipped : log.cleaned[y] = 0
    BY <1>1 DEF SInv, TypeOK, Sound, Good, PerSlot, Now
  <2>3. \A y \in log'.skipped : log'.cleaned[y] = 0
    BY <2>1 DEF SInv, TypeOK, Sound, Good, PerSlot, Now
  <2>4. QED
    BY <2>1, <2>2, <2>3
<1>2. SInv /\ [Next]_vars => SInv'
  BY NextSound
<1>3. Init => SInv
  BY InitSound
<1>4. QED
  BY <1>1, <1>2, <1>3, PTL DEF Spec, SkippedIsNotCleaned

-----------------------------------------------------------------------------
(* The restart of the robot comes before the clean: whoever may order the  *)
(* clean for a slot was put there by the robot's restart.  This one needs  *)
(* nothing of the constants, and holds with power cuts.                    *)
\* The robot has been restarted for slot x, or need not be.
Fit(l, x) == RestartBeforeClean => l.restarted[x] > 0
ReadFit(l, r) ==
    /\ r.for = "slot" => r.slot \in Slot
    /\ r.for = "slot" /\ ~r.first => Fit(l, r.slot)
OrderFit(o) == (o.for = "slot" => o.slot \in Slot) /\ (o.cmd = "restart" => o.for # "boot")
Prepared(s, R, A) ==
    /\ s \in Mem /\ R \in Seq(Read) /\ A \subseteq DOMAIN R
    /\ \A i \in A : ReadFit(s.log, R[i])
    /\ \A i \in DOMAIN s.orders : OrderFit(s.orders[i])
    /\ s.prepared # None => Fit(s.log, s.prepared)
    /\ s.ram.pending # None => Fit(s.log, s.ram.pending)
    /\ \A y \in Slot : s.log.cleaned[y] > 0 => Fit(s.log, y)

LEMMA KeptPrepared ==
    ASSUME NEW s, NEW R, NEW A, Prepared(s, R, A), NEW u \in Mem, u.orders = s.orders,
           u.prepared \in {s.prepared, None}, u.ram.pending \in {s.ram.pending, None},
           u.log.cleaned = s.log.cleaned, u.log.restarted = s.log.restarted
    PROVE  Prepared(u, R, A)
<1>1. \A x : Fit(s.log, x) => Fit(u.log, x)
  BY DEF Fit
<1>2. QED
  BY <1>1 DEF Prepared, ReadFit

LEMMA CommandPrepared ==
    ASSUME NEW s, NEW R, NEW A, Prepared(s, R, A), NEW cmd \in {"restart", "clean"},
           NEW for \in Purpose, NEW slot \in Slot \cup {None},
           for = "slot" => slot \in Slot, cmd = "restart" => for # "boot"
    PROVE  Prepared(Command(s, cmd, for, slot), R, A)
<1> DEFINE u == Command(s, cmd, for, slot)
           o == [cmd |-> cmd, for |-> for, slot |-> slot]
<1>1. /\ u \in Mem /\ u.orders = Append(s.orders, o)
      /\ u.ram = s.ram /\ u.log = s.log /\ u.prepared = s.prepared
  BY CommandIs DEF Prepared
<1>2. o \in Order /\ s.orders \in Seq(Order) /\ OrderFit(o)
  BY DEF Order, Purpose, Prepared, Mem, OrderFit
<1> HIDE DEF o, u
<1>3. \A i \in DOMAIN u.orders : u.orders[i] = o
                                 \/ \E j \in DOMAIN s.orders : u.orders[i] = s.orders[j]
  BY <1>1, <1>2, AppendedOrder
<1>4. \A i \in DOMAIN u.orders : OrderFit(u.orders[i])
  BY <1>2, <1>3 DEF Prepared
<1>5. QED
  BY <1>1, <1>4 DEF Prepared, u

LEMMA TriggerPrepared ==
    ASSUME NEW s, NEW R, NEW A, Prepared(s, R, A), NEW garbage, NEW for \in {"slot", "boot"},
           NEW x \in Slot, Fit(s.log, x)
    PROVE  Prepared(TriggerClean(s, for, x, garbage), R, A)
<1> DEFINE u == TriggerClean(s, for, x, garbage)
           c == Command(s, "clean", for, x)
<1>1. s \in Mem /\ s.log \in Logs
  BY DEF Prepared, Mem
<1>2. /\ u \in Mem
      /\ u.orders = Append(s.orders, [cmd |-> "clean", for |-> for, slot |-> x])
      /\ u.log = [s.log EXCEPT !.cleaned[x] = Up(@)] /\ u.ram = s.ram /\ u.prepared = s.prepared
  BY <1>1, TriggerIs
<1>3. Prepared(c, R, A)
  BY CommandPrepared DEF Purpose
<1>4. c.orders = Append(s.orders, [cmd |-> "clean", for |-> for, slot |-> x])
      /\ c.ram = s.ram /\ c.log = s.log /\ c.prepared = s.prepared
  BY <1>1, CommandIs DEF Purpose
<1> HIDE DEF c, u
<1>5. u.log.restarted = s.log.restarted
      /\ \A y \in Slot : y # x => u.log.cleaned[y] = s.log.cleaned[y]
  BY <1>1, <1>2 DEF Logs
<1>6. \A y : Fit(c.log, y) => Fit(u.log, y)
  BY <1>4, <1>5 DEF Fit
<1>7. \A y \in Slot : u.log.cleaned[y] > 0 => Fit(u.log, y)
  BY <1>3, <1>4, <1>5, <1>6 DEF Prepared
<1>8. QED
  BY <1>2, <1>3, <1>4, <1>6, <1>7 DEF Prepared, ReadFit, u

LEMMA WildPrepared ==
    ASSUME NEW s, NEW R, NEW A, Prepared(s, R, A), NEW garbage
    PROVE  Prepared(TriggerClean(s, "boot", None, garbage), R, A)
<1> DEFINE c == IF garbage THEN Command(s, "clean", "boot", None) ELSE s
           u == [c EXCEPT !.log.wild = TRUE]
<1>1. TriggerClean(s, "boot", None, garbage) = u
  BY DEF TriggerClean
<1>2. Prepared(c, R, A)
  BY CommandPrepared DEF Purpose
<1> HIDE DEF c
<1>3. u.log = [c.log EXCEPT !.wild = TRUE] /\ u = [c EXCEPT !.log = u.log]
  BY <1>2 DEF Prepared, Mem
<1> HIDE DEF u
<1>4. /\ u \in Mem /\ u.ram = c.ram /\ u.orders = c.orders /\ u.prepared = c.prepared
      /\ u.log.cleaned = c.log.cleaned /\ u.log.restarted = c.log.restarted
  BY <1>2, <1>3 DEF Prepared, Mem, Logs
<1>5. QED
  BY <1>1, <1>2, <1>4, KeptPrepared

\* The fired slots, the flags and the charger are nothing to it.
LEMMA RamPrepared ==
    ASSUME NEW s, NEW R, NEW A, Prepared(s, R, A), NEW m \in Rams,
           m.pending \in {s.ram.pending, None}
    PROVE  LET u == [s EXCEPT !.ram = m] IN Prepared(u, R, A) /\ u.ram = m /\ u.log = s.log
<1> DEFINE u == [s EXCEPT !.ram = m]
<1>1. /\ u \in Mem /\ u.ram = m /\ u.orders = s.orders /\ u.log = s.log
      /\ u.prepared = s.prepared
  BY DEF Prepared, Mem
<1> HIDE DEF u
<1>2. QED
  BY <1>1, KeptPrepared DEF u

LEMMA SlotReadPrepared ==
    ASSUME NEW s, NEW R, NEW A, Prepared(s, R, A), NEW r, r \in Read, r.for = "slot",
           ReadFit(s.log, r), NEW ok \in BOOLEAN, NEW idle \in BOOLEAN
    PROVE  Prepared(SlotRead(s, r, ok, idle), R, A)
<1> DEFINE x == r.slot
           u == SlotRead(s, r, ok, idle)
<1>1. x \in Slot /\ s \in Mem /\ s.ram \in Rams
  BY DEF ReadFit, Prepared, Mem
<1>2. CASE ~ok
  <2> DEFINE m == [s.ram EXCEPT !.fired = @ \ {x}]
  <2>1. u = [s EXCEPT !.ram = m]
    BY <1>1, <1>2 DEF SlotRead, Mem
  <2>2. m \in Rams /\ m.pending = s.ram.pending
    BY <1>1 DEF Rams
  <2> HIDE DEF m
  <2>3. QED
    BY <2>1, <2>2, RamPrepared
<1>3. CASE ok /\ ~idle
  <2> DEFINE e == Excuse(s, {x})
             m == [e.ram EXCEPT !.fired = @ \cup {x}]
  <2>1. /\ e \in Mem /\ e.log = [s.log EXCEPT !.excused = @ \cup {x}] /\ e.ram = s.ram
        /\ e.orders = s.orders /\ e.prepared = s.prepared
    BY <1>1, ExcuseIs
  <2>2. u = [e EXCEPT !.ram.fired = @ \cup {x}]
    BY <1>3 DEF SlotRead
  <2> HIDE DEF e
  <2>3. e.log.cleaned = s.log.cleaned /\ e.log.restarted = s.log.restarted
    BY <1>1, <2>1 DEF Mem, Logs
  <2>4. Prepared(e, R, A)
    BY <2>1, <2>3, KeptPrepared
  <2>5. u = [e EXCEPT !.ram = m]
    BY <2>1, <2>2 DEF Mem
  <2>6. m \in Rams /\ m.pending = e.ram.pending
    BY <1>1, <2>1 DEF Rams
  <2> HIDE DEF m, u
  <2>7. QED
    BY <2>4, <2>5, <2>6, RamPrepared DEF u
<1>4. CASE ok /\ idle /\ r.first
  <2>1. u = Command(s, "restart", "slot", x)
    BY <1>4 DEF SlotRead
  <2>2. QED
    BY <1>1, <2>1, CommandPrepared DEF Purpose
<1>5. CASE ok /\ idle /\ ~r.first
  <2>1. u = TriggerClean(s, "slot", x, FALSE)
    BY <1>5 DEF SlotRead
  <2>2. Fit(s.log, x)
    BY <1>5 DEF ReadFit
  <2>3. QED
    BY <1>1, <2>1, <2>2, TriggerPrepared
<1>6. QED
  BY <1>2, <1>3, <1>4, <1>5 DEF Read

LEMMA ClearPrepared ==
    ASSUME NEW s, NEW R, NEW A, Prepared(s, R, A)
    PROVE  Prepared(ClearPendingClean(s), R, A)
<1> DEFINE u == ClearPendingClean(s)
<1>1. /\ u \in Mem /\ u.ram = [s.ram EXCEPT !.pending = None, !.issuedAt = 0]
      /\ u.log = s.log /\ u.orders = s.orders /\ u.prepared = s.prepared
  BY ClearIs DEF Prepared
<1> HIDE DEF u
<1>2. u.ram.pending = None
  BY <1>1 DEF Prepared, Mem, Rams
<1>3. QED
  BY <1>1, <1>2, KeptPrepared DEF u

LEMMA BootReadPrepared ==
    ASSUME NEW s, NEW R, NEW A, Prepared(s, R, A), NEW ok, NEW idle, NEW garbage
    PROVE  Prepared(BootRead(s, ok, idle, garbage), R, A)
<1>1. CASE ~(ok /\ idle)
  BY <1>1 DEF BootRead
<1>2. CASE ok /\ idle
  <2> DEFINE v == TriggerClean(s, "boot", s.ram.pending, garbage)
  <2>1. BootRead(s, ok, idle, garbage) = ClearPendingClean(v)
    BY <1>2 DEF BootRead
  <2>2. CASE s.ram.pending = None
    BY <2>1, <2>2, WildPrepared, ClearPrepared
  <2>3. CASE s.ram.pending # None
    <3>1. s.ram.pending \in Slot /\ Fit(s.log, s.ram.pending)
      BY <2>3 DEF Prepared, Mem, Rams
    <3>2. QED
      BY <2>1, <3>1, TriggerPrepared, ClearPrepared
  <2>4. QED
    BY <2>2, <2>3
<1>3. QED
  BY <1>1, <1>2

LEMMA AutoReadPrepared ==
    ASSUME NEW s, NEW R, NEW A, Prepared(s, R, A), NEW ok, NEW idle
    PROVE  Prepared(AutoRead(s, ok, idle), R, A)
<1> DEFINE c == IF idle THEN Command(s, "restart", "auto", None) ELSE s
           m == [c.ram EXCEPT !.firedAuto = TRUE]
           u == [c EXCEPT !.ram.firedAuto = TRUE]
<1>1. AutoRead(s, ok, idle) \in {s, u}
  BY DEF AutoRead
<1>2. Prepared(c, R, A)
  BY CommandPrepared DEF Purpose
<1> HIDE DEF c
<1>3. u = [c EXCEPT !.ram = m]
  BY <1>2 DEF Prepared, Mem
<1>4. m \in Rams /\ m.pending = c.ram.pending
  BY <1>2 DEF Prepared, Mem, Rams
<1> HIDE DEF m, u
<1>5. Prepared(u, R, A)
  BY <1>2, <1>3, <1>4, RamPrepared
<1>6. QED
  BY <1>1, <1>5

LEMMA AheadReadPrepared ==
    ASSUME NEW s, NEW R, NEW A, Prepared(s, R, A), NEW r \in Read, NEW ok, NEW idle
    PROVE  Prepared(AheadRead(s, r, ok, idle), R, A)
<1> DEFINE u == AheadRead(s, r, ok, idle)
<1>0. s \in Mem /\ r.slot \in Slot \cup {None}
  BY DEF Prepared, Read
<1>1. CASE ok /\ idle
  <2>1. u = [s EXCEPT !.charger = r.slot]
    BY <1>1 DEF AheadRead
  <2> HIDE DEF u
  <2>2. /\ u \in Mem /\ u.ram = s.ram /\ u.orders = s.orders /\ u.log = s.log
        /\ u.prepared = s.prepared
    BY <1>0, <2>1 DEF Mem
  <2>3. QED
    BY <2>2, KeptPrepared DEF u
<1>2. CASE ~(ok /\ idle)
  <2> DEFINE m == [s.ram EXCEPT !.aheadPending = FALSE]
  <2>1. u = [s EXCEPT !.ram = m]
    BY <1>0, <1>2 DEF AheadRead, Mem
  <2>2. m \in Rams /\ m.pending = s.ram.pending
    BY <1>0 DEF Mem, Rams
  <2> HIDE DEF m
  <2>3. QED
    BY <2>1, <2>2, RamPrepared
<1>3. QED
  BY <1>1, <1>2

-----------------------------------------------------------------------------
(* An answer, a tick and a restart of the bridge keep it.                  *)
Ready(s) == Prepared(s, s.reads, DOMAIN s.reads)

LEMMA SeenPrepared ==
    ASSUME NEW s, NEW R, NEW A, Prepared(s, R, A), NEW i \in A,
           NEW ok \in BOOLEAN, NEW idle \in BOOLEAN, NEW garbage
    PROVE  Prepared(Seen(s, R[i], ok, idle, garbage), R, A)
<1> DEFINE r == R[i]
<1>1. r \in Read /\ ReadFit(s.log, r)
  <2>1. R \in Seq(Read) /\ i \in DOMAIN R /\ ReadFit(s.log, R[i])
    BY DEF Prepared
  <2>2. QED
    BY <2>1
<1> HIDE DEF r
<1>2. CASE r.for = "slot"
  BY <1>1, <1>2, SlotReadPrepared DEF Seen, r
<1>3. CASE r.for = "boot"
  BY <1>1, <1>3, BootReadPrepared DEF Seen, r
<1>4. CASE r.for = "auto"
  BY <1>1, <1>4, AutoReadPrepared DEF Seen, r
<1>5. CASE r.for = "ahead"
  BY <1>1, <1>5, AheadReadPrepared DEF Seen, r
<1>6. QED
  BY <1>1, <1>2, <1>3, <1>4, <1>5 DEF Read

LEMMA AllSeenPrepared ==
    ASSUME NEW s, NEW R, Prepared(s, R, DOMAIN R),
           NEW ok \in BOOLEAN, NEW idle \in BOOLEAN, NEW garbage
    PROVE  /\ Prepared(AllSeen(s, R, ok, idle, garbage), R, DOMAIN R)
           /\ AllSeen(s, R, ok, idle, garbage).reads = s.reads
<1>1. R \in Seq(Read) /\ Len(R) \in Nat /\ DOMAIN R = 1 .. Len(R)
  BY DEF Prepared
<1>2. PICK seen : SeenInTurn(seen, s, R, ok, idle, garbage)
  BY <1>1, AllSeenIs
<1> DEFINE S == {i \in 0 .. Len(R) : Prepared(seen[i], R, DOMAIN R) /\ seen[i].reads = s.reads}
<1>3. 0 \in S
  BY <1>1, <1>2 DEF SeenInTurn
<1>4. ASSUME NEW i \in 1 .. Len(R), i - 1 \in S
      PROVE  i \in S
  <2>1. Prepared(seen[i - 1], R, DOMAIN R) /\ seen[i - 1].reads = s.reads
        /\ i \in DOMAIN R /\ i \in 0 .. Len(R)
    BY <1>1, <1>4
  <2>2. Prepared(Seen(seen[i - 1], R[i], ok, idle, garbage), R, DOMAIN R)
    BY <2>1, SeenPrepared
  <2>3. seen[i - 1] \in Mem /\ R[i] \in Read
    BY <1>1, <2>1 DEF Prepared
  <2>4. Seen(seen[i - 1], R[i], ok, idle, garbage).reads = s.reads
    BY <2>1, <2>3, SeenReads
  <2>5. QED
    BY <1>2, <2>1, <2>2, <2>4 DEF SeenInTurn
<1> HIDE DEF S
<1>5. \A i \in 0 .. Len(R) : i \in S
  BY <1>1, <1>3, <1>4, UpTo
<1>6. Len(R) \in S
  BY <1>1, <1>5
<1>7. QED
  BY <1>2, <1>6 DEF S, SeenInTurn

LEMMA AskReady ==
    ASSUME NEW s, Ready(s), NEW for \in Purpose, NEW slot \in Slot \cup {None},
           NEW first \in BOOLEAN,
           for = "slot" => slot \in Slot, for = "slot" /\ ~first => Fit(s.log, slot)
    PROVE  Ready(Ask(s, for, slot, first))
<1> DEFINE u == Ask(s, for, slot, first)
           r == [for |-> for, slot |-> slot, first |-> first]
<1>1. /\ u \in Mem /\ u.reads = Append(s.reads, r)
      /\ u.ram = s.ram /\ u.log = s.log /\ u.orders = s.orders /\ u.prepared = s.prepared
  BY AskIs DEF Ready, Prepared
<1>2. r \in Read /\ ReadFit(s.log, r) /\ s.reads \in Seq(Read)
  BY DEF Read, Purpose, ReadFit, Ready, Prepared
<1> HIDE DEF r, u
<1>3. /\ u.reads \in Seq(Read)
      /\ \A i \in DOMAIN u.reads : u.reads[i] = r
                                   \/ \E j \in DOMAIN s.reads : u.reads[i] = s.reads[j]
  BY <1>1, <1>2, AppendedRead
<1>4. \A i \in DOMAIN u.reads : ReadFit(u.log, u.reads[i])
  BY <1>1, <1>2, <1>3 DEF Ready, Prepared
<1>5. QED
  BY <1>1, <1>3, <1>4 DEF Ready, Prepared, u

LEMMA KeptReady ==
    ASSUME NEW s, Ready(s), NEW u \in Mem, u.orders = s.orders, u.reads = s.reads,
           u.prepared \in {s.prepared, None}, u.ram.pending \in {s.ram.pending, None},
           u.log.cleaned = s.log.cleaned, u.log.restarted = s.log.restarted
    PROVE  Ready(u)
BY KeptPrepared DEF Ready

LEMMA PendingTickReady ==
    ASSUME NEW s, Ready(s), NEW t
    PROVE  Ready(HandlePendingClean(s, t)) /\ HandlePendingClean(s, t) \in Mem
<1> DEFINE u == HandlePendingClean(s, t)
           e == Excuse(s, {s.ram.pending})
<1>0. s \in Mem
  BY DEF Ready, Prepared
<1>1. CASE s.ram.pending = None
  BY <1>0, <1>1 DEF HandlePendingClean
<1>2. CASE s.ram.pending # None /\ t > s.ram.issuedAt + BootTimeout
  <2>1. u = ClearPendingClean(e)
    BY <1>2 DEF HandlePendingClean
  <2>2. s.ram.pending \in Slot
    BY <1>0, <1>2 DEF Mem, Rams
  <2>3. /\ e \in Mem /\ e.log = [s.log EXCEPT !.excused = @ \cup {s.ram.pending}]
        /\ e.ram = s.ram /\ e.prepared = s.prepared /\ e.reads = s.reads /\ e.orders = s.orders
    BY <1>0, <2>2, ExcuseIs
  <2> HIDE DEF e, u
  <2>4. e.log.cleaned = s.log.cleaned /\ e.log.restarted = s.log.restarted
    BY <1>0, <2>3 DEF Mem, Logs
  <2>5. Ready(e)
    BY <2>3, <2>4, KeptReady
  <2>6. /\ u \in Mem /\ u.ram = [e.ram EXCEPT !.pending = None, !.issuedAt = 0]
        /\ u.reads = e.reads /\ u.prepared = e.prepared /\ u.log = e.log /\ u.orders = e.orders
    BY <2>1, <2>3, ClearIs
  <2>7. u.ram.pending = None
    BY <2>3, <2>6 DEF Mem, Rams
  <2>8. QED
    BY <2>5, <2>6, <2>7, KeptReady DEF u
<1>3. CASE s.ram.pending # None /\ ~(t > s.ram.issuedAt + BootTimeout)
  <2>1. u = Ask(s, "boot", None, FALSE)
    BY <1>3 DEF HandlePendingClean
  <2>2. Ready(Ask(s, "boot", None, FALSE))
    BY AskReady DEF Purpose
  <2>3. QED
    BY <2>1, <2>2 DEF Ready, Prepared
<1>4. QED
  BY <1>1, <1>2, <1>3

LEMMA FireReady ==
    ASSUME NEW s, Ready(s), NEW x \in Slot
    PROVE  Ready(HandleScheduledCleaning(s, x))
<1> DEFINE m == [s.ram EXCEPT !.fired = @ \cup {x}]
           v == [s EXCEPT !.ram = m]
           u == HandleScheduledCleaning(s, x)
<1>1. s \in Mem /\ s.ram \in Rams /\ s.log \in Logs
  BY DEF Ready, Prepared, Mem
<1>2. m \in Rams /\ m.pending = s.ram.pending
  BY <1>1 DEF Rams
<1>3. /\ v \in Mem /\ v.ram = m /\ v.reads = s.reads /\ v.orders = s.orders /\ v.log = s.log
      /\ v.prepared = s.prepared
  BY <1>1, <1>2 DEF Mem
<1>4. Ready(v)
  BY <1>2, <1>3, KeptReady
<1>5. CASE s.skip
  <2> DEFINE l == [s.log EXCEPT !.skipped = @ \cup {x}]
             z == [v EXCEPT !.skip = FALSE, !.log = l]
  <2>1. u = z
    BY <1>1, <1>5 DEF HandleScheduledCleaning, Mem, Rams, Logs
  <2>2. l \in Logs /\ l.cleaned = s.log.cleaned /\ l.restarted = s.log.restarted
    BY <1>1 DEF Logs
  <2> HIDE DEF v, l
  <2>3. /\ z \in Mem /\ z.log = l /\ z.ram = v.ram /\ z.reads = v.reads /\ z.orders = v.orders
        /\ z.prepared = v.prepared
    BY <1>3, <2>2 DEF Mem
  <2>4. QED
    BY <1>3, <1>4, <2>1, <2>2, <2>3, KeptReady, ZenonT(60)
<1>6. CASE ~s.skip
  <2> DEFINE f == RestartBeforeClean /\ s.prepared # x
  <2>1. u = Ask(v, "slot", x, f)
    BY <1>1, <1>6 DEF HandleScheduledCleaning, Mem
  <2>2. f \in BOOLEAN /\ "slot" \in Purpose /\ x \in Slot \cup {None} /\ x # None
    BY SlotIs, SwitchAssumption DEF Purpose
  <2>3. ~f => Fit(v.log, x)
    BY <1>3, <1>4, <2>2 DEF Fit, Ready, Prepared
  <2> HIDE DEF v, f
  <2>4. QED
    BY <1>4, <2>1, <2>2, <2>3, AskReady
<1>7. QED
  BY <1>5, <1>6

LEMMA TickedReady ==
    ASSUME NEW s0, Ready(s0), NEW t
    PROVE  Ready(Ticked(s0, t))
<1> DEFINE s == HandlePendingClean(s0, t)
           ahead == AheadSlots(s, t)
           due == {x \in Slot : Due(s, t, x)}
<1>1. Ready(s) /\ s \in Mem
  BY PendingTickReady
<1> HIDE DEF s
<1>2. CASE ahead # {}
  <2> DEFINE x == First(ahead)
             m == [s.ram EXCEPT !.aheadPending = TRUE]
             v == [s EXCEPT !.ram = m]
  <2>1. x \in Slot
    <3>1. ahead \subseteq Slot
      BY DEF AheadSlots
    <3>2. QED
      BY <1>2, <3>1, FirstIs
  <2>2. Ticked(s0, t) = Ask([s EXCEPT !.ram.aheadPending = TRUE], "ahead", x, FALSE)
    BY <1>2 DEF Ticked, s
  <2>3. [s EXCEPT !.ram.aheadPending = TRUE] = v
    BY <1>1 DEF Mem
  <2>4. m \in Rams /\ m.pending = s.ram.pending
    BY <1>1 DEF Mem, Rams
  <2> HIDE DEF x, m
  <2>5. /\ v \in Mem /\ v.ram = m /\ v.reads = s.reads /\ v.orders = s.orders /\ v.log = s.log
        /\ v.prepared = s.prepared
    BY <1>1, <2>4 DEF Mem
  <2> HIDE DEF v
  <2>6. Ready(v)
    BY <1>1, <2>4, <2>5, KeptReady
  <2>7. Ready(Ask(v, "ahead", x, FALSE))
    BY <2>1, <2>6, AskReady DEF Purpose
  <2>8. QED
    BY <2>2, <2>3, <2>7
<1>3. CASE ahead = {} /\ due # {}
  <2> DEFINE x == First(due)
  <2>1. x \in due
    BY <1>3, FirstIs
  <2>2. Ticked(s0, t) = HandleScheduledCleaning(s, x)
    BY <1>3 DEF Ticked, s
  <2> HIDE DEF x
  <2>3. QED
    BY <1>1, <2>1, <2>2, FireReady
<1>4. CASE ahead = {} /\ due = {} /\ AutoRestartDue(s, t)
  <2>1. Ticked(s0, t) = Ask(s, "auto", None, FALSE)
    BY <1>4 DEF Ticked, s
  <2>2. Ready(Ask(s, "auto", None, FALSE))
    BY <1>1, AskReady DEF Purpose
  <2>3. QED
    BY <2>1, <2>2
<1>5. CASE ahead = {} /\ due = {} /\ ~AutoRestartDue(s, t)
  <2>1. Ticked(s0, t) = s
    BY <1>5 DEF Ticked, s
  <2>2. QED
    BY <1>1, <2>1
<1>6. QED
  BY <1>2, <1>3, <1>4, <1>5

LEMMA TakenReady ==
    ASSUME NEW s, Ready(s), s.orders # <<>>
    PROVE  LET u == [s EXCEPT !.orders = Tail(@)]
               o == Head(s.orders)
           IN  /\ Ready(u) /\ o \in Order /\ OrderFit(o)
               /\ u \in Mem /\ u.reads = s.reads
<1> DEFINE u == [s EXCEPT !.orders = Tail(@)]
           o == Head(s.orders)
<1>1. s \in Mem /\ s.orders \in Seq(Order)
  BY DEF Ready, Prepared, Mem
<1>2. /\ o \in Order /\ Tail(s.orders) \in Seq(Order) /\ 1 \in DOMAIN s.orders /\ s.orders[1] = o
      /\ \A i \in DOMAIN Tail(s.orders) : \E j \in DOMAIN s.orders : Tail(s.orders)[i] = s.orders[j]
  BY <1>1, TakenOrder
<1>3. /\ u \in Mem /\ u.orders = Tail(s.orders) /\ u.ram = s.ram /\ u.log = s.log
      /\ u.prepared = s.prepared /\ u.reads = s.reads
  BY <1>1, <1>2 DEF Mem
<1>4. OrderFit(o)
  BY <1>2 DEF Ready, Prepared
<1> HIDE DEF u, o
<1>5. \A i \in DOMAIN u.orders : OrderFit(u.orders[i])
  BY <1>2, <1>3 DEF Ready, Prepared
<1>6. QED
  BY <1>2, <1>3, <1>4, <1>5 DEF Ready, Prepared, u, o

LEMMA RestartedReady ==
    ASSUME NEW s, Ready(s), now \in 0 .. End, NEW o \in Order, OrderFit(o), o.cmd = "restart"
    PROVE  Ready(Restarted(s, o))
<1> DEFINE r == IF o.slot = None THEN s ELSE [s EXCEPT !.log.restarted[o.slot] = Up(@)]
<1>1. s \in Mem /\ s.log \in Logs /\ o.slot \in Slot \cup {None} /\ None \notin Slot
  BY SlotIs DEF Ready, Prepared, Mem, Order
<1>2. /\ r \in Mem /\ r.ram = s.ram /\ r.orders = s.orders /\ r.reads = s.reads
      /\ r.prepared = s.prepared /\ r.log.cleaned = s.log.cleaned
      /\ \A y \in Slot : r.log.restarted[y] >= s.log.restarted[y]
      /\ o.slot # None => r.log.restarted[o.slot] > 0
  <2>1. CASE o.slot = None
    <3>1. \A y \in Slot : s.log.restarted[y] \in 0 .. 2
      BY <1>1 DEF Logs
    <3>2. QED
      BY <1>1, <2>1, <3>1
  <2>2. CASE o.slot # None
    <3> DEFINE v == [s EXCEPT !.log.restarted[o.slot] = Up(@)]
               n == Up(s.log.restarted[o.slot])
               f == [s.log.restarted EXCEPT ![o.slot] = n]
    <3>1. /\ o.slot \in Slot /\ n \in 0 .. 2 /\ n > 0 /\ n >= s.log.restarted[o.slot]
          /\ \A y \in Slot : s.log.restarted[y] \in 0 .. 2
      BY <1>1, <2>2, UpIs DEF Logs
    <3>2. v = [s EXCEPT !.log = [s.log EXCEPT !.restarted = f]]
      BY <1>1 DEF Mem, Logs
    <3>3. /\ f \in [Slot -> 0 .. 2] /\ f[o.slot] = n
          /\ \A y \in Slot : y # o.slot => f[y] = s.log.restarted[y]
      BY <1>1, <3>1 DEF Logs
    <3> HIDE DEF v, n, f
    <3>4. v.log \in Logs /\ v.log.cleaned = s.log.cleaned /\ v.log.restarted = f
      BY <1>1, <3>2, <3>3 DEF Mem, Logs
    <3>5. /\ v \in Mem /\ v.ram = s.ram /\ v.orders = s.orders /\ v.reads = s.reads
          /\ v.prepared = s.prepared
      BY <1>1, <3>2, <3>4 DEF Mem
    <3>6. r = v
      BY <2>2 DEF v
    <3>7. \A y \in Slot : f[y] >= s.log.restarted[y]
      BY <3>1, <3>3
    <3>8. QED
      BY <3>1, <3>3, <3>4, <3>5, <3>6, <3>7
  <2>3. QED
    BY <2>1, <2>2
<1> HIDE DEF r
<1>3. /\ \A y \in Slot : s.log.restarted[y] \in 0 .. 2 /\ r.log.restarted[y] \in 0 .. 2
  BY <1>1, <1>2 DEF Mem, Logs
<1>4. \A y \in Slot : Fit(s.log, y) => Fit(r.log, y)
  BY <1>2, <1>3 DEF Fit
<1>5. /\ \A i \in DOMAIN s.reads : ReadFit(r.log, s.reads[i])
      /\ s.prepared # None => Fit(r.log, s.prepared)
      /\ s.ram.pending # None => Fit(r.log, s.ram.pending)
      /\ \A y \in Slot : s.log.cleaned[y] > 0 => Fit(r.log, y)
  BY <1>1, <1>4 DEF Ready, Prepared, ReadFit, Mem, Rams
<1>6. Ready(r)
  BY <1>2, <1>5 DEF Ready, Prepared
<1>7. o.slot # None => Fit(r.log, o.slot)
  BY <1>2 DEF Fit
<1>8. CASE o.for = "slot"
  <2> DEFINE a == [r.ram EXCEPT !.pending = o.slot]
             m == [a EXCEPT !.issuedAt = now]
             u == [r EXCEPT !.ram = m]
  <2>1. Restarted(s, o) = [r EXCEPT !.ram.pending = o.slot, !.ram.issuedAt = now]
    BY <1>8 DEF Restarted, r
  <2>2. [r EXCEPT !.ram.pending = o.slot, !.ram.issuedAt = now] = u
    BY <1>2 DEF Mem, Rams
  <2>3. r.ram \in Rams
    BY <1>2 DEF Mem
  <2>4. a \in Rams /\ m \in Rams /\ m.pending = o.slot
    BY <1>1, <2>3 DEF Rams
  <2> HIDE DEF a, m
  <2>5. /\ u \in Mem /\ u.ram = m /\ u.log = r.log /\ u.orders = r.orders /\ u.reads = r.reads
        /\ u.prepared = r.prepared
    BY <1>2, <2>4 DEF Mem
  <2> HIDE DEF u
  <2>6. Ready(u)
    BY <1>6, <1>7, <2>4, <2>5 DEF Ready, Prepared
  <2>7. QED
    BY <2>1, <2>2, <2>6
<1>9. CASE o.for = "ahead"
  <2> DEFINE m == [r.ram EXCEPT !.aheadPending = FALSE]
             u == [r EXCEPT !.ram = m, !.prepared = o.slot, !.rebootPending = TRUE]
  <2>1. Restarted(s, o) = [r EXCEPT !.ram.aheadPending = FALSE, !.prepared = o.slot,
                                    !.rebootPending = TRUE]
    BY <1>9 DEF Restarted, r
  <2>2. [r EXCEPT !.ram.aheadPending = FALSE, !.prepared = o.slot, !.rebootPending = TRUE] = u
    BY <1>2 DEF Mem
  <2>3. m \in Rams /\ m.pending = r.ram.pending
    BY <1>2 DEF Mem, Rams
  <2> HIDE DEF m
  <2>4. /\ u \in Mem /\ u.ram = m /\ u.log = r.log /\ u.orders = r.orders /\ u.reads = r.reads
        /\ u.prepared = o.slot
    BY <1>1, <1>2, <2>3 DEF Mem
  <2> HIDE DEF u
  <2>5. Ready(u)
    BY <1>6, <1>7, <2>3, <2>4 DEF Ready, Prepared
  <2>6. QED
    BY <2>1, <2>2, <2>5
<1>10. CASE o.for = "auto"
  BY <1>6, <1>10 DEF Restarted, r
<1>11. QED
  BY <1>8, <1>9, <1>10 DEF OrderFit, Order

LEMMA RebootReady ==
    ASSUME NEW s, Ready(s), NEW cold \in BOOLEAN
    PROVE  Ready(Reboot(s, cold))
<1> DEFINE u == Reboot(s, cold)
<1>1. s \in Mem
  BY DEF Ready, Prepared
<1>2. /\ u \in Mem /\ u.ram = Fresh /\ u.reads = <<>> /\ u.orders = <<>> /\ u.log = s.log
      /\ u.prepared = IF cold THEN None ELSE s.prepared
  BY <1>1, RebootIs
<1> HIDE DEF u
<1>3. DOMAIN u.reads = {} /\ DOMAIN u.orders = {} /\ u.ram.pending = None /\ u.reads \in Seq(Read)
  BY <1>2, FreshIs
<1>4. QED
  BY <1>2, <1>3 DEF Ready, Prepared, u

(* The strengthening behind RestartPrecedesClean.                          *)
PInv == TypeOK /\ Ready(Now)

LEMMA BecomesReady ==
    ASSUME NEW u, Becomes(u), Ready(u),
           now' \in 0 .. End, robot' \in {"idle", "cleaning", "booting"}, docked' \in BOOLEAN,
           faults' \in 0 .. MaxFaults, slow' \in 0 .. MaxSlow
    PROVE  PInv'
<1>1. u \in Mem
  BY DEF Ready, Prepared
<1>2. Now' = u
  BY <1>1, BecomesNow
<1>3. TypeOK'
  BY <1>1 DEF Becomes, Mem, Rams, Logs, TypeOK
<1>4. QED
  BY <1>2, <1>3 DEF PInv

LEMMA InitReady == Init => PInv
<1> SUFFICES ASSUME Init PROVE PInv
  OBVIOUS
<1>1. TypeOK
  BY InitSound DEF SInv
<1>2. Now \in Mem /\ Now.reads = <<>> /\ Now.orders = <<>> /\ Now.prepared = None
      /\ Now.ram.pending = None /\ \A y \in Slot : Now.log.cleaned[y] = 0
  BY <1>1, NowTyped, FreshIs DEF Init, Now
<1> DEFINE s == Now
<1> HIDE DEF s
<1>3. s \in Mem /\ s.reads = <<>> /\ s.orders = <<>> /\ s.prepared = None
      /\ s.ram.pending = None /\ \A y \in Slot : s.log.cleaned[y] = 0
  BY <1>2 DEF s
<1>4. DOMAIN s.reads = {} /\ DOMAIN s.orders = {} /\ s.reads \in Seq(Read)
  BY <1>3
<1>5. Ready(s)
  BY <1>3, <1>4 DEF Ready, Prepared
<1>6. QED
  BY <1>1, <1>5 DEF PInv, s

LEMMA NextReady == PInv /\ [Next]_vars => PInv'
<1> SUFFICES ASSUME PInv, [Next]_vars PROVE PInv'
  OBVIOUS
<1> DEFINE s == Now
           v == [Now EXCEPT !.orders = Tail(@)]
           o == Head(orders)
<1>1. /\ TypeOK /\ s \in Mem /\ Ready(s) /\ s.orders = orders /\ s.reads = reads
      /\ s.charger = charger /\ s.ram = ram /\ s.log = log
  BY NowTyped DEF PInv, Now
<1>2. Fault => faults' \in 0 .. MaxFaults
  BY <1>1, TimesAssumption DEF Fault, TypeOK
<1>3. orders # <<>> => Ready(v) /\ v \in Mem /\ o \in Order /\ OrderFit(o)
  BY <1>1, TakenReady
<1> HIDE DEF v, o
<1>4. CASE Tick
  <2> DEFINE n == IF s.uptime < Grace THEN s.uptime + 1 ELSE s.uptime
             u == [s EXCEPT !.uptime = n]
  <2>1. /\ Becomes(Ticked(u, now + 1)) /\ UNCHANGED <<robot, docked, faults>>
        /\ now' \in 0 .. End /\ slow' \in 0 .. MaxSlow
    BY <1>1, <1>4, TimesAssumption, SMTT(60) DEF Tick, TypeOK
  <2>2. n \in 0 .. Grace
    BY <1>1, TimesAssumption DEF Mem
  <2> HIDE DEF s, n
  <2>3. /\ u \in Mem /\ u.ram = s.ram /\ u.log = s.log /\ u.orders = s.orders /\ u.reads = s.reads
        /\ u.prepared = s.prepared
    BY <1>1, <2>2 DEF Mem
  <2> HIDE DEF u
  <2>4. Ready(Ticked(u, now + 1))
    BY <1>1, <2>3, KeptReady, TickedReady
  <2>5. QED
    BY <1>1, <2>1, <2>4, BecomesReady DEF TypeOK
<1>5. ASSUME NEW ok \in BOOLEAN, NEW garbage \in BOOLEAN, StateRead(ok, garbage)
      PROVE  PInv'
  <2> DEFINE c == [s EXCEPT !.reads = <<>>]
             late == {reads[i].slot : i \in DOMAIN reads} \ {None}
             b == IF robot = "booting" THEN Excuse(c, late) ELSE c
             idle == robot = "idle"
             u == AllSeen(b, reads, ok, idle, garbage)
  <2>1. /\ Becomes(u) /\ UNCHANGED <<now, robot, docked, slow>>
        /\ IF ok \/ robot = "booting" THEN UNCHANGED faults ELSE Fault
    BY <1>5 DEF StateRead
  <2>2. late \subseteq Slot
    <3>1. \A i \in DOMAIN reads : reads[i] \in Read
      BY <1>1 DEF TypeOK
    <3>2. QED
      BY <3>1 DEF Read
  <2> HIDE DEF s, late
  <2>3. /\ c \in Mem /\ c.ram = s.ram /\ c.log = s.log /\ c.orders = s.orders /\ c.reads = <<>>
        /\ c.prepared = s.prepared
    <3>1. <<>> \in Seq(Read)
      OBVIOUS
    <3>2. QED
      BY <1>1, <3>1 DEF Mem
  <2> HIDE DEF c
  <2>4. /\ Excuse(c, late) \in Mem /\ Excuse(c, late).log = [c.log EXCEPT !.excused = @ \cup late]
        /\ Excuse(c, late).ram = c.ram /\ Excuse(c, late).orders = c.orders
        /\ Excuse(c, late).reads = c.reads /\ Excuse(c, late).prepared = c.prepared
    BY <2>2, <2>3, ExcuseIs
  <2>5. /\ b \in Mem /\ b.ram = s.ram /\ b.log.cleaned = s.log.cleaned
        /\ b.log.restarted = s.log.restarted /\ b.orders = s.orders /\ b.reads = <<>>
        /\ b.prepared = s.prepared
    BY <2>3, <2>4 DEF Mem, Logs
  <2>6. idle \in BOOLEAN
    OBVIOUS
  <2> HIDE DEF b, idle
  <2>7. Prepared(b, reads, DOMAIN reads)
    BY <1>1, <2>5, KeptPrepared DEF Ready
  <2>8. Prepared(u, reads, DOMAIN reads) /\ u.reads = <<>>
    BY <2>5, <2>6, <2>7, AllSeenPrepared
  <2> HIDE DEF u
  <2>9. Ready(u)
    <3>1. DOMAIN u.reads = {} /\ u.reads \in Seq(Read)
      BY <2>8
    <3>2. QED
      BY <2>8, <3>1 DEF Ready, Prepared
  <2>10. QED
    BY <1>1, <1>2, <2>1, <2>9, BecomesReady DEF TypeOK
<1>6. ASSUME NEW ok \in BOOLEAN, ChargerRead(ok)
      PROVE  PInv'
  <2> DEFINE c == [s EXCEPT !.charger = None]
             m == [s.ram EXCEPT !.aheadPending = FALSE]
             d == [c EXCEPT !.ram = m]
             u == IF ok /\ docked THEN Command(c, "restart", "ahead", charger) ELSE d
  <2>1. [Now EXCEPT !.charger = None, !.ram.aheadPending = FALSE] = d
    BY <1>1 DEF Mem
  <2>2. /\ Becomes(u) /\ UNCHANGED <<now, robot, docked, slow>>
        /\ IF ok \/ robot = "booting" THEN UNCHANGED faults ELSE Fault
    BY <1>6, <2>1 DEF ChargerRead
  <2>3. m \in Rams /\ m.pending = s.ram.pending /\ charger \in Slot \cup {None}
    BY <1>1 DEF Mem, Rams
  <2> HIDE DEF s, m
  <2>4. /\ c \in Mem /\ c.ram = s.ram /\ c.log = s.log /\ c.orders = s.orders /\ c.reads = s.reads
        /\ c.prepared = s.prepared
    BY <1>1 DEF Mem
  <2> HIDE DEF c
  <2>5. /\ d \in Mem /\ d.ram = m /\ d.log = s.log /\ d.orders = s.orders /\ d.reads = s.reads
        /\ d.prepared = s.prepared
    BY <2>3, <2>4 DEF Mem
  <2> HIDE DEF d
  <2>6. Ready(c) /\ Ready(d)
    BY <1>1, <2>3, <2>4, <2>5, KeptReady
  <2>7. Prepared(Command(c, "restart", "ahead", charger), c.reads, DOMAIN c.reads)
    BY <2>3, <2>6, CommandPrepared DEF Purpose, Ready
  <2>8. Command(c, "restart", "ahead", charger).reads = c.reads
    BY <2>3, <2>4, CommandIs DEF Purpose
  <2>9. Ready(u)
    BY <2>6, <2>7, <2>8 DEF Ready
  <2> HIDE DEF u
  <2>10. QED
    BY <1>1, <1>2, <2>2, <2>9, BecomesReady DEF TypeOK
<1>7. CASE RestartDone
  <2> DEFINE r == Restarted(v, o)
             u == IF CutsPower THEN Reboot(r, TRUE) ELSE r
  <2>1. /\ orders # <<>> /\ o.cmd = "restart" /\ Becomes(u) /\ robot' = "booting"
        /\ UNCHANGED <<now, docked, faults, slow>>
    BY <1>7 DEF RestartDone, v, o
  <2>2. Ready(r)
    BY <1>1, <1>3, <2>1, RestartedReady DEF TypeOK
  <2> HIDE DEF r
  <2>3. Ready(u)
    BY <2>2, RebootReady
  <2> HIDE DEF u
  <2>4. QED
    BY <1>1, <2>1, <2>3, BecomesReady DEF TypeOK
<1>8. CASE CleanDone
  <2>1. /\ orders # <<>> /\ Becomes(v) /\ robot' = "cleaning"
        /\ UNCHANGED <<now, docked, faults, slow>>
    BY <1>8 DEF CleanDone, v
  <2>2. QED
    BY <1>1, <1>3, <2>1, BecomesReady DEF TypeOK
<1>9. CASE CommandFails
  <2> DEFINE e == Excuse(v, {o.slot} \ {None})
             m == [e.ram EXCEPT !.aheadPending = FALSE]
             d == [e EXCEPT !.ram = m]
             u == IF o.for = "ahead" THEN [e EXCEPT !.ram.aheadPending = FALSE] ELSE e
  <2>1. /\ orders # <<>> /\ Becomes(u) /\ UNCHANGED <<now, robot, docked, slow>>
        /\ IF robot = "booting" THEN UNCHANGED faults ELSE Fault
    BY <1>9 DEF CommandFails, v, o
  <2>2. {o.slot} \ {None} \subseteq Slot
    BY <1>3, <2>1 DEF Order
  <2>3. /\ e \in Mem /\ e.log = [v.log EXCEPT !.excused = @ \cup ({o.slot} \ {None})]
        /\ e.ram = v.ram /\ e.reads = v.reads /\ e.orders = v.orders /\ e.prepared = v.prepared
    BY <1>3, <2>1, <2>2, ExcuseIs
  <2> HIDE DEF e
  <2>4. e.log.cleaned = v.log.cleaned /\ e.log.restarted = v.log.restarted
    BY <1>3, <2>1, <2>3 DEF Mem, Logs
  <2>5. Ready(e)
    BY <1>3, <2>1, <2>3, <2>4, KeptReady
  <2>6. [e EXCEPT !.ram.aheadPending = FALSE] = d
    BY <2>3 DEF Mem
  <2>7. m \in Rams /\ m.pending = e.ram.pending
    BY <2>3 DEF Mem, Rams
  <2> HIDE DEF m
  <2>8. /\ d \in Mem /\ d.ram = m /\ d.log = e.log /\ d.orders = e.orders /\ d.reads = e.reads
        /\ d.prepared = e.prepared
    BY <2>3, <2>7 DEF Mem
  <2> HIDE DEF d
  <2>9. Ready(d)
    BY <2>5, <2>7, <2>8, KeptReady
  <2>10. Ready(u)
    BY <2>5, <2>6, <2>9
  <2> HIDE DEF u
  <2>11. QED
    BY <1>1, <1>2, <2>1, <2>10, BecomesReady DEF TypeOK
<1>10. CASE SoftReboot
  <2>1. Becomes(Reboot(s, FALSE)) /\ UNCHANGED <<now, robot, docked, faults, slow>>
    BY <1>10 DEF SoftReboot
  <2> HIDE DEF s
  <2>2. QED
    BY <1>1, <2>1, RebootReady, BecomesReady DEF TypeOK
<1>11. ASSUME NEW b \in BOOLEAN, skip' = b,
              UNCHANGED <<now, ram, prepared, uptime, rebootPending, reads, charger, orders, robot,
                          docked, faults, slow, log>>
       PROVE  PInv'
  <2> DEFINE u == [s EXCEPT !.skip = b]
  <2>1. Becomes(u)
    BY <1>11 DEF Becomes, Now
  <2> HIDE DEF s
  <2>2. /\ u \in Mem /\ u.ram = s.ram /\ u.log = s.log /\ u.orders = s.orders /\ u.reads = s.reads
        /\ u.prepared = s.prepared
    BY <1>1 DEF Mem
  <2> HIDE DEF u
  <2>3. Ready(u)
    BY <1>1, <2>2, KeptReady
  <2>4. QED
    BY <1>1, <1>11, <2>1, <2>3, BecomesReady DEF TypeOK
<1>12. ASSUME UNCHANGED <<now, bridge, docked, faults, slow>>,
              robot' \in {"idle", "cleaning", "booting"}
       PROVE  PInv'
  <2>1. Now' = Now
    BY <1>12 DEF bridge, Now
  <2>2. TypeOK'
    BY <1>1, <1>12 DEF TypeOK, bridge
  <2>3. QED
    BY <1>1, <2>1, <2>2 DEF PInv
<1>13. RequestSkip \/ CancelSkip => PInv'
  BY <1>11 DEF RequestSkip, CancelSkip
<1>14. RobotBoots \/ RobotFinishes \/ UNCHANGED vars => PInv'
  BY <1>1, <1>12 DEF RobotBoots, RobotFinishes, vars, bridge, TypeOK
<1>15. QED
  BY <1>4, <1>5, <1>6, <1>7, <1>8, <1>9, <1>10, <1>13, <1>14 DEF Next

(* Every variable of the scheduler keeps its type, power cuts included:    *)
(* what RTC memory and NVS carry over a reboot is what a tick can use.     *)
THEOREM SchedulerTypeCorrect == Spec => []TypeOK
<1>1. PInv => TypeOK
  BY DEF PInv
<1>2. QED
  BY <1>1, InitReady, NextReady, PTL DEF Spec

(* With the setting that has the robot restarted before cleaning, no clean *)
(* is sent for a slot unless the robot was restarted for it first, ahead   *)
(* of time or in its window, whatever fails and whenever the power does.   *)
THEOREM RestartPrecedesClean == Spec => []RestartsBeforeClean
<1>1. PInv => RestartsBeforeClean
  BY DEF PInv, Ready, Prepared, Fit, Now, RestartsBeforeClean
<1>2. QED
  BY <1>1, InitReady, NextReady, PTL DEF Spec

-----------------------------------------------------------------------------
(* No slot is lost: an accounting of where a slot whose window has begun   *)
(* is, by the slow ticks and the faults there have been.                   *)
(* No two slots at one time, and none in the minute the day begins.        *)
Spread == (\A x, y \in Slot : At[x] = At[y] => x = y) /\ \A y \in Slot : At[y] > 0

(* The slow ticks, the faults and the robot's restart together leave some  *)
(* of the window for the clean: each may cost one tick or more.            *)
Quick == MaxSlow + MaxFaults + BootTimeout < Window

Settled(l, y) == Closed(l, y) \/ y \in l.excused

(* Where slot y is, at time t after w slow ticks and f faults: done with,  *)
(* to fire, asked for, ordered a restart for or awaited after it, no later *)
(* than these account for.  A read that fails takes its fault with it.     *)
Tracked(s, R, A, t, w, f, ok, y) ==
    /\ \/ Settled(s.log, y)
       \/ y \notin s.ram.fired /\ t < At[y] + w + f
       \/ Asked(R, A, y) /\ t <= At[y] + w + f /\ (ok \/ t < At[y] + w + f)
       \/ Ordered(s.orders, y) /\ t <= At[y] + w + f
       \/ s.ram.pending = y /\ s.ram.issuedAt <= At[y] + w + f
                            /\ t <= s.ram.issuedAt + BootTimeout
    /\ Asked(R, A, y) \/ Ordered(s.orders, y) => t < At[y] + Window + w

\* What is under way for y in s still is in u.
Follows(s, u, y) ==
    /\ Settled(s.log, y) => Settled(u.log, y)
    /\ y \in u.ram.fired => y \in s.ram.fired
    /\ Ordered(s.orders, y) <=> Ordered(u.orders, y)
    /\ s.ram.pending = y => u.ram.pending = y /\ u.ram.issuedAt = s.ram.issuedAt

LEMMA FollowTracked ==
    ASSUME NEW s, NEW u, NEW R, NEW A, NEW t, NEW w, NEW f, NEW ok, NEW y \in Slot,
           Tracked(s, R, A, t, w, f, ok, y), Follows(s, u, y)
    PROVE  Tracked(u, R, A, t, w, f, ok, y)
BY DEF Tracked, Follows

LEMMA FollowsOn ==
    ASSUME NEW s, NEW u, NEW v, NEW y, Follows(s, u, y), Follows(u, v, y)
    PROVE  Follows(s, v, y)
BY DEF Follows

LEMMA CommandFollows ==
    ASSUME NEW s \in Mem, NEW cmd \in {"restart", "clean"}, NEW for \in Purpose,
           NEW slot \in Slot \cup {None}, NEW y \in Slot,
           ~(cmd = "restart" /\ for = "slot" /\ slot = y)
    PROVE  Follows(s, Command(s, cmd, for, slot), y)
<1> DEFINE u == Command(s, cmd, for, slot)
           o == [cmd |-> cmd, for |-> for, slot |-> slot]
<1>1. u.orders = Append(s.orders, o) /\ u.ram = s.ram /\ u.log = s.log
  BY CommandIs
<1>2. o \in Order /\ s.orders \in Seq(Order) /\ ~RestartOf(o, y)
  BY DEF Order, Purpose, Mem, RestartOf
<1> HIDE DEF o, u
<1>3. Ordered(u.orders, y) <=> Ordered(s.orders, y)
  BY <1>1, <1>2, AppendedOrder
<1>4. QED
  BY <1>1, <1>3 DEF Follows, u

LEMMA TriggerFollows ==
    ASSUME NEW s \in Mem, NEW for \in {"slot", "boot"}, NEW x \in Slot, NEW garbage, NEW y \in Slot
    PROVE  /\ Follows(s, TriggerClean(s, for, x, garbage), y)
           /\ Settled(TriggerClean(s, for, x, garbage).log, x)
<1> DEFINE u == TriggerClean(s, for, x, garbage)
           o == [cmd |-> "clean", for |-> for, slot |-> x]
<1>1. /\ u.orders = Append(s.orders, o) /\ u.ram = s.ram
      /\ u.log = [s.log EXCEPT !.cleaned[x] = Up(@)]
  BY TriggerIs
<1>2. o \in Order /\ s.orders \in Seq(Order) /\ ~RestartOf(o, y)
  BY DEF Order, Mem, RestartOf
<1> HIDE DEF o, u
<1>3. Ordered(u.orders, y) <=> Ordered(s.orders, y)
  BY <1>1, <1>2, AppendedOrder
<1>4. /\ u.log.skipped = s.log.skipped /\ u.log.excused = s.log.excused /\ u.log.cleaned[x] > 0
      /\ y # x => u.log.cleaned[y] = s.log.cleaned[y]
  <2>1. s.log \in Logs /\ s.log.cleaned[x] \in 0 .. 2
    BY DEF Mem, Logs
  <2>2. u.log.cleaned = [s.log.cleaned EXCEPT ![x] = Up(s.log.cleaned[x])]
    BY <1>1, <2>1 DEF Logs
  <2>3. QED
    BY <1>1, <2>1, <2>2, UpIs DEF Logs
<1>5. Settled(u.log, x) /\ (Settled(s.log, y) => Settled(u.log, y))
  BY <1>4 DEF Settled, Closed
<1>6. QED
  BY <1>1, <1>3, <1>5 DEF Follows, u

LEMMA WildFollows ==
    ASSUME NEW s \in Mem, NEW garbage, NEW y \in Slot
    PROVE  /\ Follows(s, TriggerClean(s, "boot", None, garbage), y)
           /\ TriggerClean(s, "boot", None, garbage) \in Mem
           /\ TriggerClean(s, "boot", None, garbage).ram = s.ram
<1> DEFINE c == IF garbage THEN Command(s, "clean", "boot", None) ELSE s
           u == [c EXCEPT !.log.wild = TRUE]
<1>1. TriggerClean(s, "boot", None, garbage) = u
  BY DEF TriggerClean
<1>2. Follows(s, c, y) /\ c \in Mem /\ c.ram = s.ram
  <2>1. Follows(s, s, y)
    BY DEF Follows
  <2>2. QED
    BY <2>1, CommandFollows, CommandIs DEF Purpose
<1> HIDE DEF c
<1>3. u.log = [c.log EXCEPT !.wild = TRUE] /\ u = [c EXCEPT !.log = u.log]
  BY <1>2 DEF Mem
<1> HIDE DEF u
<1>4. /\ u \in Mem /\ u.ram = c.ram /\ u.orders = c.orders /\ u.log.cleaned = c.log.cleaned
      /\ u.log.skipped = c.log.skipped /\ u.log.excused = c.log.excused
  BY <1>2, <1>3 DEF Mem, Logs
<1>5. Follows(c, u, y)
  BY <1>4 DEF Follows, Settled, Closed
<1>6. QED
  BY <1>1, <1>2, <1>4, <1>5, FollowsOn

LEMMA ClearFollows ==
    ASSUME NEW s \in Mem, NEW y \in Slot, s.ram.pending = y => Settled(s.log, y)
    PROVE  /\ Follows(s, ClearPendingClean(s), y) \/ Settled(ClearPendingClean(s).log, y)
           /\ Ordered(ClearPendingClean(s).orders, y) <=> Ordered(s.orders, y)
<1> DEFINE u == ClearPendingClean(s)
<1>1. /\ u.ram = [s.ram EXCEPT !.pending = None, !.issuedAt = 0] /\ s.ram \in Rams
      /\ u.log = s.log /\ u.orders = s.orders
  BY ClearIs DEF Mem
<1> HIDE DEF u
<1>2. u.ram.fired = s.ram.fired
  BY <1>1 DEF Rams
<1>3. QED
  BY <1>1, <1>2 DEF Follows, u

LEMMA RamFollows ==
    ASSUME NEW s \in Mem, NEW m \in Rams, NEW y, m.pending = s.ram.pending,
           m.issuedAt = s.ram.issuedAt, y \in m.fired => y \in s.ram.fired
    PROVE  Follows(s, [s EXCEPT !.ram = m], y)
<1> DEFINE u == [s EXCEPT !.ram = m]
<1>1. u.ram = m /\ u.orders = s.orders /\ u.log = s.log
  BY DEF Mem
<1> HIDE DEF u
<1>2. QED
  BY <1>1 DEF Follows, u

LEMMA ExcuseFollows ==
    ASSUME NEW s \in Mem, NEW slots \in SUBSET Slot, NEW y \in Slot
    PROVE  /\ Follows(s, Excuse(s, slots), y)
           /\ y \in slots => Settled(Excuse(s, slots).log, y)
<1> DEFINE u == Excuse(s, slots)
<1>1. /\ u.log = [s.log EXCEPT !.excused = @ \cup slots] /\ s.log \in Logs
      /\ u.ram = s.ram /\ u.orders = s.orders
  BY ExcuseIs DEF Mem
<1> HIDE DEF u
<1>2. u.log.excused = s.log.excused \cup slots /\ u.log.cleaned = s.log.cleaned
      /\ u.log.skipped = s.log.skipped
  BY <1>1 DEF Logs
<1>3. QED
  BY <1>1, <1>2 DEF Follows, Settled, Closed, u

-----------------------------------------------------------------------------
(* An answer moves a slot on and takes its fault with it.                  *)
LEMMA SettledTracked ==
    ASSUME NEW s, NEW u, NEW R, NEW A, NEW t, NEW w, NEW f, NEW ok, NEW y \in Slot,
           Tracked(s, R, A, t, w, f, ok, y), Settled(u.log, y),
           Ordered(u.orders, y) => Ordered(s.orders, y)
    PROVE  Tracked(u, R, A, t, w, f, ok, y)
BY DEF Tracked

\* r is the read that A has and B has not.
Handed(R, A, B, r) == \A z : Asked(R, A, z) <=> Asked(R, B, z) \/ ReadOf(r, z)

LEMMA SlotReadTracked ==
    ASSUME NEW s \in Mem, NEW R, NEW A, NEW t \in Nat, NEW w \in Nat, NEW f \in Nat,
           NEW y \in Slot, NEW r \in Read, r.for = "slot", r.slot \in Slot,
           NEW B, Handed(R, A, B, r),
           NEW ok \in BOOLEAN, NEW idle \in BOOLEAN, Tracked(s, R, A, t, w, f, ok, y)
    PROVE  Tracked(SlotRead(s, r, ok, idle), R, B, t, w, f, ok, y)
<1> DEFINE x == r.slot
           u == SlotRead(s, r, ok, idle)
<1>1. /\ s.ram \in Rams /\ x \in Slot /\ At[y] \in Nat
      /\ Asked(R, A, y) <=> Asked(R, B, y) \/ y = x
  BY SlotIs DEF Mem, Handed, ReadOf
<1>2. CASE ~ok
  <2> DEFINE m == [s.ram EXCEPT !.fired = @ \ {x}]
  <2>1. u = [s EXCEPT !.ram = m]
    BY <1>2 DEF SlotRead, Mem
  <2>2. m \in Rams /\ m.pending = s.ram.pending /\ m.issuedAt = s.ram.issuedAt
        /\ m.fired = s.ram.fired \ {x}
    BY <1>1 DEF Rams
  <2>3. u.ram = m
    BY <2>1 DEF Mem
  <2> HIDE DEF m, u
  <2>4. Follows(s, u, y)
    BY <2>1, <2>2, RamFollows
  <2>5. y = x => y \notin u.ram.fired
    BY <2>2, <2>3
  <2>6. QED
    BY <1>1, <1>2, <2>4, <2>5 DEF Tracked, Follows, u
<1>3. CASE ok /\ ~idle
  <2> DEFINE e == Excuse(s, {x})
             m == [e.ram EXCEPT !.fired = @ \cup {x}]
  <2>0. {x} \in SUBSET Slot
    BY <1>1
  <2>1. e \in Mem /\ e.ram = s.ram /\ e.orders = s.orders
    BY <2>0, ExcuseIs
  <2>2. Follows(s, e, y) /\ (y = x => Settled(e.log, y))
    BY <2>0, ExcuseFollows
  <2>3. u = [e EXCEPT !.ram.fired = @ \cup {x}]
    BY <1>3 DEF SlotRead
  <2> HIDE DEF e
  <2>4. u = [e EXCEPT !.ram = m]
    BY <2>1, <2>3 DEF Mem
  <2>5. m \in Rams /\ m.pending = s.ram.pending /\ m.issuedAt = s.ram.issuedAt
        /\ m.fired = s.ram.fired \cup {x}
    BY <1>1, <2>1 DEF Rams
  <2>6. u.log = e.log /\ u.orders = e.orders
    BY <2>1, <2>4 DEF Mem
  <2> HIDE DEF m, u
  <2>7. CASE y = x
    BY <1>1, <2>1, <2>2, <2>6, <2>7 DEF Tracked, u
  <2>8. CASE y # x
    <3>1. Follows(e, u, y)
      BY <2>1, <2>4, <2>5, <2>8, RamFollows
    <3>2. QED
      BY <1>1, <2>2, <2>8, <3>1, FollowsOn DEF Tracked, Follows, u
  <2>9. QED
    BY <2>7, <2>8
<1>4. CASE ok /\ idle /\ r.first
  <2> DEFINE o == [cmd |-> "restart", for |-> "slot", slot |-> x]
  <2>1. u = Command(s, "restart", "slot", x)
    BY <1>4 DEF SlotRead
  <2>2. u.orders = Append(s.orders, o) /\ u.ram = s.ram /\ u.log = s.log
    BY <1>1, <2>1, CommandIs DEF Purpose
  <2>3. o \in Order /\ s.orders \in Seq(Order) /\ (RestartOf(o, y) <=> y = x)
    BY <1>1 DEF Order, Mem, RestartOf
  <2> HIDE DEF o, u
  <2>4. Ordered(u.orders, y) <=> Ordered(s.orders, y) \/ y = x
    BY <2>2, <2>3, AppendedOrder
  <2>5. QED
    BY <1>1, <2>2, <2>4 DEF Tracked, u
<1>5. CASE ok /\ idle /\ ~r.first
  <2>1. u = TriggerClean(s, "slot", x, FALSE)
    BY <1>5 DEF SlotRead
  <2>2. Follows(s, u, y) /\ Settled(u.log, x)
    BY <1>1, <2>1, TriggerFollows
  <2> HIDE DEF u
  <2>3. QED
    BY <1>1, <2>2 DEF Tracked, Follows, u
<1>6. QED
  BY <1>2, <1>3, <1>4, <1>5 DEF Read

LEMMA BootReadTracked ==
    ASSUME NEW s \in Mem, NEW R, NEW A, NEW t, NEW w, NEW f, NEW ok, NEW y \in Slot,
           NEW idle, NEW garbage, Tracked(s, R, A, t, w, f, ok, y)
    PROVE  Tracked(BootRead(s, ok, idle, garbage), R, A, t, w, f, ok, y)
<1>1. CASE ~(ok /\ idle)
  BY <1>1 DEF BootRead
<1>2. CASE ok /\ idle
  <2> DEFINE x == s.ram.pending
             v == TriggerClean(s, "boot", x, garbage)
             u == ClearPendingClean(v)
  <2>1. BootRead(s, ok, idle, garbage) = u
    BY <1>2 DEF BootRead
  <2>2. v \in Mem /\ Follows(s, v, y) /\ (v.ram.pending = y => Settled(v.log, y))
    <3>1. CASE x = None
      <4>1. /\ Follows(s, v, y) /\ v \in Mem /\ v.ram = s.ram
        BY <3>1, WildFollows
      <4>2. QED
        BY <3>1, <4>1, SlotIs
    <3>2. CASE x # None
      <4>1. x \in Slot
        BY <3>2 DEF Mem, Rams
      <4>2. v \in Mem /\ v.ram = s.ram /\ Follows(s, v, y) /\ Settled(v.log, x)
        BY <4>1, TriggerIs, TriggerFollows, ZenonT(60)
      <4>3. QED
        BY <4>2
    <3>3. QED
      BY <3>1, <3>2
  <2> HIDE DEF v
  <2>3. Tracked(v, R, A, t, w, f, ok, y)
    BY <2>2, FollowTracked
  <2>4. Follows(v, u, y) \/ Settled(u.log, y)
    BY <2>2, ClearFollows
  <2>5. Ordered(u.orders, y) <=> Ordered(v.orders, y)
    BY <2>2, ClearFollows
  <2> HIDE DEF u
  <2>6. Tracked(u, R, A, t, w, f, ok, y)
    BY <2>3, <2>4, <2>5, FollowTracked, SettledTracked
  <2>7. QED
    BY <2>1, <2>6
<1>3. QED
  BY <1>1, <1>2

LEMMA AutoReadFollows ==
    ASSUME NEW s \in Mem, NEW ok, NEW idle, NEW y \in Slot
    PROVE  Follows(s, AutoRead(s, ok, idle), y)
<1> DEFINE c == IF idle THEN Command(s, "restart", "auto", None) ELSE s
           m == [c.ram EXCEPT !.firedAuto = TRUE]
           u == [c EXCEPT !.ram.firedAuto = TRUE]
<1>1. AutoRead(s, ok, idle) \in {s, u}
  BY DEF AutoRead
<1>2. Follows(s, s, y)
  BY DEF Follows
<1>3. c \in Mem /\ Follows(s, c, y)
  BY <1>2, CommandIs, CommandFollows DEF Purpose
<1> HIDE DEF c
<1>4. u = [c EXCEPT !.ram = m] /\ c.ram \in Rams
  BY <1>3 DEF Mem
<1>5. m \in Rams /\ m.pending = c.ram.pending /\ m.issuedAt = c.ram.issuedAt
      /\ m.fired = c.ram.fired
  BY <1>4 DEF Rams
<1> HIDE DEF m, u
<1>6. Follows(c, u, y)
  BY <1>3, <1>4, <1>5, RamFollows
<1>7. QED
  BY <1>1, <1>2, <1>3, <1>6, FollowsOn

LEMMA AheadReadFollows ==
    ASSUME NEW s \in Mem, NEW r \in Read, NEW ok, NEW idle, NEW y \in Slot
    PROVE  Follows(s, AheadRead(s, r, ok, idle), y)
<1> DEFINE m == [s.ram EXCEPT !.aheadPending = FALSE]
           u == [s EXCEPT !.charger = r.slot]
<1>1. CASE ok /\ idle
  <2>1. u.ram = s.ram /\ u.orders = s.orders /\ u.log = s.log
    BY DEF Mem
  <2>2. QED
    BY <1>1, <2>1 DEF AheadRead, Follows
<1>2. CASE ~(ok /\ idle)
  <2>1. AheadRead(s, r, ok, idle) = [s EXCEPT !.ram = m]
    BY <1>2 DEF AheadRead, Mem
  <2>2. m \in Rams /\ m.pending = s.ram.pending /\ m.issuedAt = s.ram.issuedAt
        /\ m.fired = s.ram.fired
    BY DEF Mem, Rams
  <2> HIDE DEF m
  <2>3. QED
    BY <2>1, <2>2, RamFollows
<1>3. QED
  BY <1>1, <1>2

LEMMA SeenTracked ==
    ASSUME NEW s \in Mem, NEW R, NEW A, NEW B, NEW r \in Read, Handed(R, A, B, r),
           r.for = "slot" => r.slot \in Slot,
           NEW t \in Nat, NEW w \in Nat, NEW f \in Nat, NEW ok \in BOOLEAN, NEW y \in Slot,
           NEW idle \in BOOLEAN, NEW garbage, Tracked(s, R, A, t, w, f, ok, y)
    PROVE  Tracked(Seen(s, r, ok, idle, garbage), R, B, t, w, f, ok, y)
<1>1. CASE r.for = "slot"
  <2>1. Tracked(SlotRead(s, r, ok, idle), R, B, t, w, f, ok, y)
    BY <1>1, SlotReadTracked
  <2>2. QED
    BY <1>1, <2>1 DEF Seen
<1>2. ASSUME r.for # "slot"
      PROVE  Tracked(s, R, B, t, w, f, ok, y)
  <2>1. Asked(R, A, y) <=> Asked(R, B, y)
    BY <1>2 DEF Handed, ReadOf
  <2>2. QED
    BY <2>1 DEF Tracked
<1>3. CASE r.for = "boot"
  <2>1. Tracked(BootRead(s, ok, idle, garbage), R, B, t, w, f, ok, y)
    BY <1>2, <1>3, BootReadTracked
  <2>2. QED
    BY <1>3, <2>1 DEF Seen
<1>4. CASE r.for = "auto"
  <2>1. Tracked(AutoRead(s, ok, idle), R, B, t, w, f, ok, y)
    BY <1>2, <1>4, AutoReadFollows, FollowTracked
  <2>2. QED
    BY <1>4, <2>1 DEF Seen
<1>5. CASE r.for = "ahead"
  <2>1. Tracked(AheadRead(s, r, ok, idle), R, B, t, w, f, ok, y)
    BY <1>2, <1>5, AheadReadFollows, FollowTracked
  <2>2. QED
    BY <1>5, <2>1 DEF Seen
<1>6. QED
  BY <1>1, <1>3, <1>4, <1>5 DEF Read

LEMMA AllSeenTracked ==
    ASSUME NEW s, NEW R, Prepared(s, R, DOMAIN R), NEW t \in Nat, NEW w \in Nat, NEW f \in Nat,
           NEW ok \in BOOLEAN, NEW idle \in BOOLEAN, NEW garbage,
           \A y \in Slot : Tracked(s, R, DOMAIN R, t, w, f, ok, y)
    PROVE  \A y \in Slot : Tracked(AllSeen(s, R, ok, idle, garbage), R, {}, t, w, f, ok, y)
<1>1. R \in Seq(Read) /\ Len(R) \in Nat /\ DOMAIN R = 1 .. Len(R)
  BY DEF Prepared
<1>2. PICK seen : SeenInTurn(seen, s, R, ok, idle, garbage)
  BY <1>1, AllSeenIs
<1> DEFINE S == {i \in 0 .. Len(R) :
                   /\ Prepared(seen[i], R, DOMAIN R)
                   /\ \A y \in Slot : Tracked(seen[i], R, i + 1 .. Len(R), t, w, f, ok, y)}
<1>3. 0 \in S
  BY <1>1, <1>2 DEF SeenInTurn
<1>4. ASSUME NEW i \in 1 .. Len(R), i - 1 \in S
      PROVE  i \in S
  <2>1. /\ i \in i .. Len(R) /\ i - 1 + 1 = i /\ (i .. Len(R)) \ {i} = i + 1 .. Len(R)
        /\ i \in 0 .. Len(R) /\ i .. Len(R) \subseteq DOMAIN R /\ i \in DOMAIN R
    BY <1>1
  <2>2. /\ Prepared(seen[i - 1], R, DOMAIN R)
        /\ \A y \in Slot : Tracked(seen[i - 1], R, i .. Len(R), t, w, f, ok, y)
    BY <1>4, <2>1
  <2>3. Prepared(Seen(seen[i - 1], R[i], ok, idle, garbage), R, DOMAIN R)
    BY <2>1, <2>2, SeenPrepared
  <2>4. seen[i - 1] \in Mem /\ (R[i].for = "slot" => R[i].slot \in Slot)
    BY <2>1, <2>2 DEF Prepared, ReadFit
  <2> DEFINE A == i .. Len(R)
             B == i + 1 .. Len(R)
             p == seen[i - 1]
             r == R[i]
  <2>5. Handed(R, A, B, r) /\ p \in Mem /\ r \in Read /\ (r.for = "slot" => r.slot \in Slot)
    BY <1>1, <2>1, <2>4 DEF Handed, Asked
  <2>6. \A y \in Slot : Tracked(p, R, A, t, w, f, ok, y)
    BY <2>2
  <2> HIDE DEF A, B, p, r
  <2>7. ASSUME NEW y \in Slot
        PROVE  Tracked(Seen(p, r, ok, idle, garbage), R, B, t, w, f, ok, y)
    <3>1. Tracked(p, R, A, t, w, f, ok, y)
      BY <2>6
    <3>2. QED
      BY <2>5, <3>1, SeenTracked
  <2>8. QED
    BY <1>2, <2>1, <2>3, <2>7 DEF SeenInTurn, B, p, r
<1> HIDE DEF S
<1>5. \A i \in 0 .. Len(R) : i \in S
  BY <1>1, <1>3, <1>4, UpTo
<1>6. Len(R) \in S /\ Len(R) + 1 .. Len(R) = {}
  BY <1>1, <1>5
<1>7. QED
  BY <1>2, <1>6 DEF S, SeenInTurn

-----------------------------------------------------------------------------
(* What a tick may find: at most one window is open, and no restart of the *)
(* bridge is due in it.                                                    *)
InWindow(t, y) == At[y] <= t /\ t < At[y] + Window

LEMMA OneWindow ==
    ASSUME Apart, Spread, NEW x \in Slot, NEW y \in Slot, NEW t \in Nat,
           InWindow(t, x), InWindow(t, y)
    PROVE  x = y
<1>1. At[x] \in Nat /\ At[y] \in Nat /\ Window \in Nat /\ Lead \in Nat
  BY SlotIs, TimesAssumption
<1>2. At[x] < At[y] => At[x] + Window + Lead <= At[y]
  BY DEF Apart
<1>3. At[y] < At[x] => At[y] + Window + Lead <= At[x]
  BY DEF Apart
<1>4. At[x] = At[y]
  BY <1>1, <1>2, <1>3 DEF InWindow
<1>5. QED
  BY <1>4 DEF Spread

LEMMA NoneAhead ==
    ASSUME Apart, Timely, NEW x \in Slot, NEW y \in Slot, NEW t \in Nat, InWindow(t, y), NEW s
    PROVE  ~AheadDue(s, t, x)
<1>1. /\ At[x] \in Nat /\ At[y] \in Nat /\ Window \in Nat /\ Lead \in Nat /\ LeadWindow \in Nat
      /\ MaxSlow \in Nat
  BY SlotIs, TimesAssumption
<1>2. At[y] < At[x] => At[y] + Window + Lead <= At[x]
  BY DEF Apart
<1>3. QED
  BY <1>1, <1>2 DEF InWindow, AheadDue, Timely

AskedOf(s, y) == Asked(s.reads, DOMAIN s.reads, y)

(* Where slot y is when a tick begins: t is the time it has come to.       *)
Owed(s, t, w, f, y) ==
    /\ \/ Settled(s.log, y)
       \/ y \notin s.ram.fired /\ t <= At[y] + w + f
       \/ AskedOf(s, y) /\ t <= At[y] + w + f
       \/ Ordered(s.orders, y) /\ t <= At[y] + w + f
       \/ s.ram.pending = y /\ s.ram.issuedAt <= At[y] + w + f
    /\ AskedOf(s, y) \/ Ordered(s.orders, y) => t < At[y] + Window + w

\* A clean that waits for the robot's restart still may.
Waited(s, t) == s.ram.pending # None => t <= s.ram.issuedAt + BootTimeout

LEMMA FollowOwed ==
    ASSUME NEW s, NEW u, NEW t, NEW w, NEW f, NEW y \in Slot, Owed(s, t, w, f, y),
           Follows(s, u, y)
           \/ (Settled(u.log, y) /\ (Ordered(s.orders, y) <=> Ordered(u.orders, y))),
           AskedOf(u, y) <=> AskedOf(s, y)
    PROVE  Owed(u, t, w, f, y)
BY DEF Owed, Follows

LEMMA AskFollows ==
    ASSUME NEW s \in Mem, NEW for \in Purpose, NEW slot \in Slot \cup {None},
           NEW first \in BOOLEAN, NEW y \in Slot
    PROVE  /\ Follows(s, Ask(s, for, slot, first), y)
           /\ AskedOf(Ask(s, for, slot, first), y) <=> AskedOf(s, y) \/ (for = "slot" /\ slot = y)
<1> DEFINE u == Ask(s, for, slot, first)
           r == [for |-> for, slot |-> slot, first |-> first]
<1>1. u.reads = Append(s.reads, r) /\ u.ram = s.ram /\ u.log = s.log /\ u.orders = s.orders
  BY AskIs
<1>2. r \in Read /\ s.reads \in Seq(Read) /\ (ReadOf(r, y) <=> (for = "slot" /\ slot = y))
  BY DEF Read, Purpose, Mem, ReadOf
<1> HIDE DEF r, u
<1>3. AskedOf(u, y) <=> AskedOf(s, y) \/ ReadOf(r, y)
  BY <1>1, <1>2, AppendedRead DEF AskedOf
<1>4. QED
  BY <1>1, <1>2, <1>3 DEF Follows, u

LEMMA PendingOwed ==
    ASSUME NEW s \in Mem, NEW t \in Nat, NEW w, NEW f, NEW y \in Slot, Owed(s, t, w, f, y)
    PROVE  Owed(HandlePendingClean(s, t), t, w, f, y) /\ Waited(HandlePendingClean(s, t), t)
<1> DEFINE u == HandlePendingClean(s, t)
           e == Excuse(s, {s.ram.pending})
<1>1. CASE s.ram.pending = None
  BY <1>1 DEF HandlePendingClean, Waited
<1>2. CASE s.ram.pending # None /\ t > s.ram.issuedAt + BootTimeout
  <2>1. u = ClearPendingClean(e)
    BY <1>2 DEF HandlePendingClean
  <2>2. {s.ram.pending} \in SUBSET Slot
    BY <1>2 DEF Mem, Rams
  <2>3. e \in Mem /\ e.ram = s.ram /\ e.reads = s.reads
    BY <2>2, ExcuseIs
  <2>4. Follows(s, e, y) /\ (y \in {s.ram.pending} => Settled(e.log, y))
    BY <2>2, ExcuseFollows
  <2> HIDE DEF e, u
  <2>5. /\ Follows(e, u, y) \/ Settled(u.log, y)
        /\ Ordered(u.orders, y) <=> Ordered(e.orders, y)
    BY <2>1, <2>3, <2>4, ClearFollows
  <2>6. u.reads = e.reads /\ u.ram = [e.ram EXCEPT !.pending = None, !.issuedAt = 0]
    BY <2>1, <2>3, ClearIs
  <2>7. u.ram.pending = None
    BY <2>3, <2>6 DEF Mem, Rams
  <2>8. Owed(e, t, w, f, y)
    BY <2>3, <2>4, FollowOwed DEF AskedOf
  <2>9. Owed(u, t, w, f, y)
    BY <2>5, <2>6, <2>8, FollowOwed DEF AskedOf
  <2>10. QED
    BY <2>7, <2>9 DEF Waited, u
<1>3. CASE s.ram.pending # None /\ ~(t > s.ram.issuedAt + BootTimeout)
  <2>1. u = Ask(s, "boot", None, FALSE)
    BY <1>3 DEF HandlePendingClean
  <2>2. "boot" \in Purpose /\ None \in Slot \cup {None} /\ FALSE \in BOOLEAN
    BY DEF Purpose
  <2> HIDE DEF u
  <2>3. u.ram = s.ram
    BY <2>1, <2>2, AskIs
  <2>4. Follows(s, u, y) /\ (AskedOf(u, y) <=> AskedOf(s, y))
    <3>1. "boot" # "slot"
      OBVIOUS
    <3>2. QED
      BY <2>1, <2>2, <3>1, AskFollows
  <2>5. Owed(u, t, w, f, y)
    BY <2>4, FollowOwed
  <2>6. s.ram.issuedAt \in Nat /\ BootTimeout \in Nat
    BY TimesAssumption DEF Mem, Rams
  <2>7. Waited(u, t)
    BY <1>3, <2>3, <2>6 DEF Waited
  <2>8. QED
    BY <2>5, <2>7 DEF u
<1>4. QED
  BY <1>1, <1>2, <1>3

LEMMA FireFollows ==
    ASSUME NEW s \in Mem, NEW x \in Slot, NEW y \in Slot
    PROVE  LET u == HandleScheduledCleaning(s, x)
           IN  /\ y # x => Follows(s, u, y) /\ (AskedOf(u, y) <=> AskedOf(s, y))
               /\ Ordered(u.orders, x) <=> Ordered(s.orders, x)
               /\ \/ Settled(u.log, x) /\ (AskedOf(u, x) <=> AskedOf(s, x))
                  \/ /\ AskedOf(u, x) /\ u.log = s.log /\ u.ram.pending = s.ram.pending
                     /\ u.ram.issuedAt = s.ram.issuedAt
<1> DEFINE m == [s.ram EXCEPT !.fired = @ \cup {x}]
           v == [s EXCEPT !.ram = m]
           u == HandleScheduledCleaning(s, x)
<1>1. s.ram \in Rams /\ s.log \in Logs
  BY DEF Mem
<1>2. /\ m \in Rams /\ m.pending = s.ram.pending /\ m.issuedAt = s.ram.issuedAt
      /\ m.fired = s.ram.fired \cup {x}
  BY <1>1 DEF Rams
<1> HIDE DEF m
<1>3. /\ v \in Mem /\ v.ram = m /\ v.reads = s.reads /\ v.orders = s.orders /\ v.log = s.log
  BY <1>2 DEF Mem
<1>4. y # x => Follows(s, v, y)
  BY <1>2, RamFollows
<1>5. CASE s.skip
  <2> DEFINE l == [s.log EXCEPT !.skipped = @ \cup {x}]
             z == [v EXCEPT !.skip = FALSE, !.log = l]
  <2>1. u = z
    BY <1>1, <1>5 DEF HandleScheduledCleaning, Mem, Rams, Logs, m
  <2>2. l \in Logs /\ l.skipped = s.log.skipped \cup {x} /\ l.cleaned = s.log.cleaned
        /\ l.excused = s.log.excused
    BY <1>1 DEF Logs
  <2> HIDE DEF v, l
  <2>3. z.log = l /\ z.ram = v.ram /\ z.reads = v.reads /\ z.orders = v.orders
    BY <1>3, <2>2 DEF Mem
  <2> HIDE DEF z, u
  <2>4. Follows(v, z, y) /\ Settled(z.log, x)
    BY <1>3, <2>2, <2>3 DEF Follows, Settled, Closed
  <2>5. y # x => Follows(s, z, y)
    BY <1>4, <2>4, FollowsOn
  <2>6. QED
    BY <1>3, <2>1, <2>3, <2>4, <2>5 DEF AskedOf, u
<1>6. CASE ~s.skip
  <2> DEFINE f == RestartBeforeClean /\ s.prepared # x
  <2>1. u = Ask(v, "slot", x, f)
    BY <1>1, <1>6 DEF HandleScheduledCleaning, Mem, m
  <2>2. f \in BOOLEAN /\ "slot" \in Purpose /\ x \in Slot \cup {None} /\ x # None
    BY SlotIs, SwitchAssumption DEF Purpose
  <2> HIDE DEF v, f, u
  <2>3. u.ram = v.ram /\ u.log = v.log /\ u.orders = v.orders
    BY <1>3, <2>1, <2>2, AskIs
  <2>4. /\ Follows(v, u, y)
        /\ AskedOf(u, y) <=> (AskedOf(v, y) \/ x = y)
        /\ AskedOf(u, x)
    BY <1>3, <2>1, <2>2, AskFollows
  <2>5. y # x => Follows(s, u, y)
    BY <1>4, <2>4, FollowsOn
  <2>6. AskedOf(v, y) <=> AskedOf(s, y)
    BY <1>3 DEF AskedOf
  <2>7. QED
    BY <1>2, <1>3, <2>3, <2>4, <2>5, <2>6 DEF u
<1>7. QED
  BY <1>5, <1>6

-----------------------------------------------------------------------------
(* A tick keeps the account.                                               *)
TrackedOf(s, t, w, f, y) == Tracked(s, s.reads, DOMAIN s.reads, t, w, f, TRUE, y)

LEMMA FollowTrackedOf ==
    ASSUME NEW s, NEW u, NEW t, NEW w, NEW f, NEW y \in Slot, TrackedOf(s, t, w, f, y),
           Follows(s, u, y), AskedOf(u, y) <=> AskedOf(s, y)
    PROVE  TrackedOf(u, t, w, f, y)
BY DEF TrackedOf, Tracked, Follows, AskedOf

LEMMA SmallNumbers ==
    ASSUME Quick, NEW w \in Nat, NEW f \in Nat, w <= MaxSlow, f <= MaxFaults, NEW y \in Slot
    PROVE  /\ At[y] \in Nat /\ Window \in Nat /\ BootTimeout \in Nat /\ Lead \in Nat
           /\ At[y] + w + f \in Nat /\ At[y] + w + f + BootTimeout < At[y] + Window
           /\ At[y] <= At[y] + w + f
BY SlotIs, TimesAssumption DEF Quick

LEMMA NotDueTracked ==
    ASSUME Quick, NEW s \in Mem, NEW t \in Nat, NEW w \in Nat, NEW f \in Nat, w <= MaxSlow,
           f <= MaxFaults, NEW y \in Slot, Owed(s, t, w, f, y), Waited(s, t), ~Due(s, t, y)
    PROVE  TrackedOf(s, t, w, f, y)
<1>1. /\ At[y] \in Nat /\ Window \in Nat /\ BootTimeout \in Nat
      /\ At[y] + w + f \in Nat /\ At[y] + w + f + BootTimeout < At[y] + Window
      /\ At[y] <= At[y] + w + f
  BY SmallNumbers
<1>2. y \notin s.ram.fired /\ t <= At[y] + w + f => t < At[y] + w + f
  <2>1. y \notin s.ram.fired /\ t <= At[y] + w + f => t < At[y]
    BY <1>1 DEF Due
  <2>2. QED
    BY <1>1, <2>1
<1>3. s.ram.pending = y => t <= s.ram.issuedAt + BootTimeout
  BY SlotIs DEF Waited
<1>4. QED
  BY <1>2, <1>3 DEF Owed, TrackedOf, Tracked, AskedOf

LEMMA TickedTracked ==
    ASSUME Apart, Timely, Spread, Quick, NEW s0, Ready(s0), NEW t \in Nat, NEW w \in Nat,
           NEW f \in Nat, w <= MaxSlow, f <= MaxFaults, \A y \in Slot : Owed(s0, t, w, f, y)
    PROVE  \A y \in Slot : TrackedOf(Ticked(s0, t), t, w, f, y)
<1> DEFINE s == HandlePendingClean(s0, t)
           ahead == AheadSlots(s, t)
           due == {x \in Slot : Due(s, t, x)}
<1>1. s \in Mem /\ \A y \in Slot : Owed(s, t, w, f, y) /\ Waited(s, t)
  <2>1. s0 \in Mem
    BY DEF Ready, Prepared
  <2>2. QED
    BY <2>1, PendingTickReady, PendingOwed
<1> HIDE DEF s
<1>2. \A y \in Slot : ~Due(s, t, y) => TrackedOf(s, t, w, f, y)
  BY <1>1, NotDueTracked
<1>3. \A y \in Slot : Due(s, t, y) => InWindow(t, y)
  BY DEF Due, InWindow
<1> SUFFICES ASSUME NEW y \in Slot PROVE TrackedOf(Ticked(s0, t), t, w, f, y)
  OBVIOUS
<1>4. CASE ahead # {}
  <2> DEFINE x == First(ahead)
             m == [s.ram EXCEPT !.aheadPending = TRUE]
             v == [s EXCEPT !.ram = m]
  <2>1. ahead \subseteq Slot /\ \A z \in ahead : AheadDue(s, t, z)
    BY DEF AheadSlots
  <2>2. x \in Slot /\ AheadDue(s, t, x)
    BY <1>4, <2>1, FirstIs
  <2>3. TrackedOf(s, t, w, f, y)
    BY <1>2, <1>3, <2>2, NoneAhead
  <2>4. Ticked(s0, t) = Ask([s EXCEPT !.ram.aheadPending = TRUE], "ahead", x, FALSE)
    BY <1>4 DEF Ticked, s
  <2>5. [s EXCEPT !.ram.aheadPending = TRUE] = v
    BY <1>1 DEF Mem
  <2>6. m \in Rams /\ m.pending = s.ram.pending /\ m.issuedAt = s.ram.issuedAt
        /\ m.fired = s.ram.fired
    BY <1>1 DEF Mem, Rams
  <2> HIDE DEF x, m
  <2>7. v \in Mem /\ v.reads = s.reads
    BY <1>1, <2>6 DEF Mem
  <2>8. Follows(s, v, y)
    BY <1>1, <2>6, RamFollows
  <2> HIDE DEF v
  <2>9. TrackedOf(v, t, w, f, y)
    BY <2>3, <2>7, <2>8, FollowTrackedOf DEF AskedOf
  <2> DEFINE u == Ask(v, "ahead", x, FALSE)
  <2>10. "ahead" \in Purpose /\ x \in Slot \cup {None} /\ FALSE \in BOOLEAN /\ "ahead" # "slot"
    BY <2>2 DEF Purpose
  <2>11. Follows(v, u, y) /\ (AskedOf(u, y) <=> AskedOf(v, y))
    BY <2>7, <2>10, AskFollows
  <2> HIDE DEF u
  <2>12. TrackedOf(u, t, w, f, y)
    BY <2>9, <2>11, FollowTrackedOf
  <2>13. QED
    BY <2>4, <2>5, <2>12 DEF u
<1>5. CASE ahead = {} /\ due # {}
  <2> DEFINE x == First(due)
             u == HandleScheduledCleaning(s, x)
  <2>1. x \in due
    BY <1>5, FirstIs
  <2>2. Ticked(s0, t) = u
    BY <1>5 DEF Ticked, s
  <2>3. x \in Slot /\ Due(s, t, x)
    BY <2>1
  <2> HIDE DEF x, due
  <2>4. /\ y # x => Follows(s, u, y) /\ (AskedOf(u, y) <=> AskedOf(s, y))
        /\ Ordered(u.orders, x) <=> Ordered(s.orders, x)
        /\ \/ Settled(u.log, x) /\ (AskedOf(u, x) <=> AskedOf(s, x))
           \/ /\ AskedOf(u, x) /\ u.log = s.log /\ u.ram.pending = s.ram.pending
              /\ u.ram.issuedAt = s.ram.issuedAt
    BY <1>1, <2>3, FireFollows
  <2> HIDE DEF u
  <2>5. CASE y # x
    <3>1. ~Due(s, t, y)
      BY <1>3, <2>3, <2>5, OneWindow
    <3>2. QED
      BY <1>2, <2>2, <2>4, <2>5, <3>1, FollowTrackedOf
  <2>6. CASE y = x
    <3>1. Owed(s, t, w, f, y) /\ Waited(s, t)
      BY <1>1
    <3>2. t < At[y] + Window /\ t < At[y] + Window + w
      BY <2>3, <2>6, SlotIs, TimesAssumption DEF Due
    <3>3. s.ram.pending = y => t <= s.ram.issuedAt + BootTimeout
      BY <3>1, SlotIs DEF Waited
    <3>4. QED
      BY <2>2, <2>4, <2>6, <3>1, <3>2, <3>3 DEF Owed, TrackedOf, Tracked, AskedOf
  <2>7. QED
    BY <2>5, <2>6
<1>6. CASE ahead = {} /\ due = {}
  <2>1. TrackedOf(s, t, w, f, y)
    BY <1>2, <1>6
  <2> DEFINE u == Ask(s, "auto", None, FALSE)
  <2>2. Ticked(s0, t) \in {s, u}
    BY <1>6 DEF Ticked, s
  <2>3. "auto" \in Purpose /\ None \in Slot \cup {None} /\ FALSE \in BOOLEAN /\ "auto" # "slot"
    BY DEF Purpose
  <2>4. Follows(s, u, y) /\ (AskedOf(u, y) <=> AskedOf(s, y))
    BY <1>1, <2>3, AskFollows
  <2> HIDE DEF u
  <2>5. TrackedOf(u, t, w, f, y)
    BY <2>1, <2>4, FollowTrackedOf
  <2>6. QED
    BY <2>1, <2>2, <2>5
<1>7. QED
  BY <1>4, <1>5, <1>6

\* A tick passes.
LEMMA TimeOwed ==
    ASSUME NEW s \in Mem, NEW u, u.ram = s.ram, u.log = s.log, u.orders = s.orders,
           u.reads = s.reads, NEW t \in Nat, NEW w \in Nat, NEW f \in Nat, NEW v \in Nat,
           v >= w, s.reads # <<>> \/ s.orders # <<>> => v = w + 1,
           NEW y \in Slot, TrackedOf(s, t, w, f, y)
    PROVE  Owed(u, t + 1, v, f, y)
<1>1. At[y] \in Nat /\ Window \in Nat
  BY SlotIs, TimesAssumption
<1>2. AskedOf(s, y) => s.reads # <<>>
  BY DEF AskedOf, Asked
<1>3. Ordered(s.orders, y) => s.orders # <<>>
  BY DEF Ordered
<1>4. AskedOf(s, y) \/ Ordered(s.orders, y) => v = w + 1
  BY <1>2, <1>3
<1>5. s.ram.issuedAt \in Nat
  BY DEF Mem, Rams
<1>6. s.ram.issuedAt <= At[y] + w + f => s.ram.issuedAt <= At[y] + v + f
  BY <1>1, <1>5
<1>7. t < At[y] + w + f => t + 1 <= At[y] + v + f
  BY <1>1
<1>8. v = w + 1 /\ t <= At[y] + w + f => t + 1 <= At[y] + v + f
  BY <1>1
<1>9. v = w + 1 /\ t < At[y] + Window + w => t + 1 < At[y] + Window + v
  BY <1>1
<1>10. AskedOf(u, y) <=> AskedOf(s, y)
  BY DEF AskedOf
<1>11. QED
  BY <1>4, <1>6, <1>7, <1>8, <1>9, <1>10 DEF Owed, TrackedOf, Tracked, AskedOf

\* What is under way and neither settled nor late is in its window.
LEMMA UnderWay ==
    ASSUME Quick, NEW s, NEW t, NEW w \in Nat, NEW f \in Nat, w <= MaxSlow,
           f <= MaxFaults, Sound(s, t, w), NEW y \in Slot, TrackedOf(s, t, w, f, y)
    PROVE  /\ Settled(s.log, y) \/ t < At[y] \/ (y \notin s.ram.fired /\ t < At[y] + Window)
              \/ InWindow(t, y)
           /\ s.ram.pending = y => InWindow(t, y) \/ Settled(s.log, y)
           /\ Ordered(s.orders, y) => t >= At[y] /\ t < At[y] + Window + w
<1>1. /\ At[y] \in Nat /\ Window \in Nat /\ BootTimeout \in Nat
      /\ At[y] + w + f \in Nat /\ At[y] + w + f + BootTimeout < At[y] + Window
  BY SmallNumbers
<1>2. t \in Nat /\ PerSlot(s, s.reads, DOMAIN s.reads, t, y) /\ s.ram.issuedAt \in Nat
  BY DEF Sound, Good, Mem, Rams
<1>3. QED
  BY <1>1, <1>2 DEF TrackedOf, Tracked, PerSlot, Claimed, Begun, InWindow

-----------------------------------------------------------------------------
(* Orders carried out, a restart of the bridge and what leaves the bridge  *)
(* alone keep it too.                                                      *)
LEMMA TakenFollows ==
    ASSUME NEW s \in Mem, s.orders # <<>>, NEW y \in Slot
    PROVE  LET u == [s EXCEPT !.orders = Tail(@)]
           IN  /\ u \in Mem /\ u.ram = s.ram /\ u.log = s.log /\ u.reads = s.reads
               /\ Head(s.orders) \in Order
               /\ RestartOf(Head(s.orders), y) => Ordered(s.orders, y)
               /\ Ordered(u.orders, y) => Ordered(s.orders, y)
               /\ ~RestartOf(Head(s.orders), y) => Follows(s, u, y)
<1> DEFINE u == [s EXCEPT !.orders = Tail(@)]
           q == s.orders
           p == Tail(q)
<1>1. q \in Seq(Order) /\ q # <<>>
  BY DEF Mem
<1>2. /\ Head(q) \in Order /\ p \in Seq(Order) /\ 1 \in DOMAIN q /\ q[1] = Head(q)
      /\ Ordered(p, y) => Ordered(q, y)
  BY <1>1, TakenOrder
<1>3. u \in Mem /\ u.orders = p /\ u.ram = s.ram /\ u.log = s.log /\ u.reads = s.reads
  BY <1>2 DEF Mem
<1>4. RestartOf(Head(q), y) => Ordered(q, y)
  BY <1>2 DEF Ordered
<1>5. ASSUME ~RestartOf(Head(q), y), Ordered(q, y)
      PROVE  Ordered(p, y)
  <2>1. /\ Len(q) \in Nat \ {0} /\ DOMAIN q = 1 .. Len(q)
        /\ DOMAIN p = 1 .. Len(q) - 1 /\ \A i \in DOMAIN p : p[i] = q[i + 1]
    BY <1>1, HeadTailProperties
  <2>2. PICK j \in DOMAIN q : RestartOf(q[j], y)
    BY <1>5 DEF Ordered
  <2>3. j # 1
    BY <1>2, <1>5, <2>2
  <2>4. j - 1 \in DOMAIN p /\ j - 1 + 1 = j
    BY <2>1, <2>3
  <2>5. p[j - 1] = q[j]
    BY <2>1, <2>4
  <2>6. QED
    BY <2>2, <2>4, <2>5 DEF Ordered
<1> HIDE DEF u, p
<1>6. ~RestartOf(Head(q), y) => Follows(s, u, y)
  BY <1>2, <1>3, <1>5 DEF Follows
<1>7. QED
  BY <1>2, <1>3, <1>4, <1>6 DEF u

LEMMA RestartedIs ==
    ASSUME NEW s \in Mem, NEW o \in Order, o.for # "boot"
    PROVE  LET u == Restarted(s, o)
           IN  /\ u.reads = s.reads /\ u.orders = s.orders
               /\ \A y \in Slot : Settled(u.log, y) <=> Settled(s.log, y)
               /\ u.ram.fired = s.ram.fired
               /\ o.for = "slot" => u.ram.pending = o.slot /\ u.ram.issuedAt = now
               /\ o.for # "slot" => u.ram.pending = s.ram.pending /\ u.ram.issuedAt = s.ram.issuedAt
<1> DEFINE r == IF o.slot = None THEN s ELSE [s EXCEPT !.log.restarted[o.slot] = Up(@)]
           u == Restarted(s, o)
<1>1. /\ r.ram = s.ram /\ r.orders = s.orders /\ r.reads = s.reads /\ r.log.cleaned = s.log.cleaned
      /\ r.log.skipped = s.log.skipped /\ r.log.excused = s.log.excused /\ s.ram \in Rams
      /\ DOMAIN r = DOMAIN s
  BY DEF Mem, Logs
<1>2. \A y \in Slot : Settled(r.log, y) <=> Settled(s.log, y)
  BY <1>1 DEF Settled, Closed
<1>3. "ram" \in DOMAIN r /\ "log" \in DOMAIN r /\ "reads" \in DOMAIN r /\ "orders" \in DOMAIN r
  BY <1>1 DEF Mem
<1>4. CASE o.for = "slot"
  <2>1. u = [r EXCEPT !.ram.pending = o.slot, !.ram.issuedAt = now]
    BY <1>4 DEF Restarted
  <2> HIDE DEF r, u
  <2> DEFINE m == [[s.ram EXCEPT !.pending = o.slot] EXCEPT !.issuedAt = now]
  <2>2. u.ram = m /\ u.log = r.log /\ u.reads = r.reads /\ u.orders = r.orders
    BY <1>1, <1>3, <2>1
  <2>3. m.pending = o.slot /\ m.issuedAt = now /\ m.fired = s.ram.fired
    BY <1>1 DEF Rams
  <2>4. QED
    BY <1>1, <1>2, <1>4, <2>2, <2>3 DEF u
<1>5. CASE o.for = "ahead"
  <2>1. u = [r EXCEPT !.ram.aheadPending = FALSE, !.prepared = o.slot, !.rebootPending = TRUE]
    BY <1>5 DEF Restarted
  <2> HIDE DEF r, u
  <2> DEFINE m == [s.ram EXCEPT !.aheadPending = FALSE]
  <2>2. u.ram = m /\ u.log = r.log /\ u.reads = r.reads /\ u.orders = r.orders
    BY <1>1, <1>3, <2>1
  <2>3. m.pending = s.ram.pending /\ m.issuedAt = s.ram.issuedAt /\ m.fired = s.ram.fired
    BY <1>1 DEF Rams
  <2>4. QED
    BY <1>1, <1>2, <1>5, <2>2, <2>3 DEF u
<1>6. CASE o.for = "auto"
  <2>1. u = r
    BY <1>6 DEF Restarted
  <2>2. QED
    BY <1>1, <1>2, <1>6, <2>1
<1>7. QED
  BY <1>4, <1>5, <1>6 DEF Order

LEMMA RestartedTracked ==
    ASSUME Apart, Timely, Spread, Quick, NEW s, NEW w \in Nat, NEW f \in Nat, w <= MaxSlow,
           f <= MaxFaults, Sound(s, now, w), s.orders # <<>>, Head(s.orders).cmd = "restart",
           \A y \in Slot : TrackedOf(s, now, w, f, y)
    PROVE  LET u == Restarted([s EXCEPT !.orders = Tail(@)], Head(s.orders))
           IN  \A y \in Slot : TrackedOf(u, now, w, f, y)
<1> DEFINE v == [s EXCEPT !.orders = Tail(@)]
           o == Head(s.orders)
           u == Restarted(v, o)
<1> SUFFICES ASSUME NEW y \in Slot PROVE TrackedOf(u, now, w, f, y)
  OBVIOUS
<1>1. s \in Mem /\ now \in Nat /\ Good(s, s.reads, DOMAIN s.reads, now, w)
  BY DEF Sound, Good
<1>2. /\ v \in Mem /\ v.ram = s.ram /\ v.log = s.log /\ v.reads = s.reads /\ o \in Order
      /\ RestartOf(o, y) => Ordered(s.orders, y)
      /\ Ordered(v.orders, y) => Ordered(s.orders, y)
      /\ ~RestartOf(o, y) => Follows(s, v, y)
  BY <1>1, TakenFollows
<1>3. OrderFormed(o)
  BY <1>1, TakenGood
<1> HIDE DEF v, o
<1>4. o.for # "boot" /\ o.cmd = "restart" /\ (o.for = "slot" => o.slot \in Slot)
  BY <1>3 DEF OrderFormed, o
<1>5. /\ u.reads = v.reads /\ u.orders = v.orders
      /\ Settled(u.log, y) <=> Settled(v.log, y)
      /\ u.ram.fired = v.ram.fired
      /\ o.for = "slot" => u.ram.pending = o.slot /\ u.ram.issuedAt = now
      /\ o.for # "slot" => u.ram.pending = v.ram.pending /\ u.ram.issuedAt = v.ram.issuedAt
  BY <1>2, <1>4, RestartedIs
<1> HIDE DEF u
<1>6. TrackedOf(s, now, w, f, y) /\ PerSlot(s, s.reads, DOMAIN s.reads, now, y)
  BY <1>1 DEF Good
<1>7. /\ AskedOf(u, y) <=> AskedOf(s, y)
      /\ Ordered(u.orders, y) => Ordered(s.orders, y)
      /\ Settled(u.log, y) <=> Settled(s.log, y)
      /\ u.ram.fired = s.ram.fired
  BY <1>2, <1>5 DEF AskedOf
<1>8. CASE RestartOf(o, y)
  <2>1. o.for = "slot" /\ o.slot = y /\ u.ram.pending = y /\ u.ram.issuedAt = now
    BY <1>5, <1>8 DEF RestartOf
  <2>2. Ordered(s.orders, y) /\ ~AskedOf(s, y) /\ s.ram.pending # y
    BY <1>2, <1>6, <1>8 DEF PerSlot, Single, AskedOf
  <2>3. now <= now + BootTimeout
    BY <1>1, TimesAssumption
  <2>4. QED
    BY <1>6, <1>7, <2>1, <2>2, <2>3 DEF TrackedOf, Tracked, AskedOf
<1>9. CASE ~RestartOf(o, y) /\ o.for # "slot"
  <2>1. Follows(v, u, y)
    BY <1>5, <1>9 DEF Follows
  <2>2. Follows(s, u, y)
    BY <1>2, <1>9, <2>1, FollowsOn
  <2>3. QED
    BY <1>6, <1>7, <2>2, FollowTrackedOf
<1>10. CASE ~RestartOf(o, y) /\ o.for = "slot"
  <2> DEFINE z == o.slot
  <2>1. z \in Slot /\ z # y /\ u.ram.pending = z /\ RestartOf(o, z)
    BY <1>4, <1>5, <1>10 DEF RestartOf
  <2>2. Ordered(s.orders, z)
    BY <1>1, <2>1, TakenFollows DEF o
  <2>3. now >= At[z] /\ now < At[z] + Window + w
    BY <2>1, <2>2, UnderWay
  <2>4. s.ram.pending = y => Settled(s.log, y)
    <3>1. s.ram.pending = y => InWindow(now, y) \/ Settled(s.log, y)
      BY <1>6, UnderWay
    <3>2. ~InWindow(now, y)
      <4>1. /\ At[z] \in Nat /\ At[y] \in Nat /\ Window \in Nat /\ Lead \in Nat
            /\ LeadWindow \in Nat /\ MaxSlow \in Nat
        BY <2>1, SlotIs, TimesAssumption
      <4>2. At[y] # At[z]
        BY <2>1 DEF Spread
      <4>3. At[y] < At[z] => At[y] + Window + Lead <= At[z]
        BY <2>1 DEF Apart
      <4>4. At[z] < At[y] => At[z] + Window + Lead <= At[y]
        BY <2>1 DEF Apart
      <4>5. w <= Lead
        BY <4>1 DEF Timely
      <4> HIDE DEF z
      <4>6. QED
        BY <1>1, <2>3, <4>1, <4>2, <4>3, <4>4, <4>5 DEF InWindow
    <3>3. QED
      BY <3>1, <3>2
  <2>5. CASE s.ram.pending = y
    BY <1>6, <1>7, <2>4, <2>5 DEF TrackedOf, Tracked, AskedOf
  <2>6. CASE s.ram.pending # y
    <3>1. Follows(s, v, y)
      BY <1>2, <1>10
    <3>2. Follows(s, u, y)
      BY <1>2, <1>5, <1>7, <2>6, <3>1 DEF Follows
    <3>3. QED
      BY <1>6, <1>7, <3>2, FollowTrackedOf
  <2>7. QED
    BY <2>5, <2>6
<1>11. QED
  BY <1>8, <1>9, <1>10

LEMMA RebootTracked ==
    ASSUME Apart, Timely, Quick, NEW s, NEW t, NEW w \in Nat, NEW f \in Nat, w <= MaxSlow,
           f <= MaxFaults, Sound(s, t, w), s.rebootPending,
           \A y \in Slot : TrackedOf(s, t, w, f, y)
    PROVE  LET u == Reboot(s, FALSE) IN \A y \in Slot : TrackedOf(u, t, w, f, y)
<1> DEFINE u == Reboot(s, FALSE)
<1> SUFFICES ASSUME NEW y \in Slot PROVE TrackedOf(u, t, w, f, y)
  OBVIOUS
<1>1. /\ u.ram = Fresh /\ u.reads = <<>> /\ u.orders = <<>> /\ u.log = s.log /\ t \in Nat
  BY RebootIs DEF Sound, Good
<1> HIDE DEF u
<1>2. DOMAIN u.reads = {} /\ DOMAIN u.orders = {} /\ y \notin u.ram.fired
  BY <1>1, FreshIs
<1>3. PICK x \in Slot : Near(x, t, w)
  BY DEF Sound, Good, AheadNear
<1>4. /\ At[x] \in Nat /\ At[y] \in Nat /\ Window \in Nat /\ Lead \in Nat
      /\ LeadWindow \in Nat /\ MaxSlow \in Nat
  BY SlotIs, TimesAssumption
<1>5. At[x] <= t + Lead /\ t < At[x]
  BY <1>1, <1>3, <1>4 DEF Near, Timely
<1>6. At[y] < At[x] => At[y] + Window + Lead <= At[x]
  BY DEF Apart
<1>7. t >= At[y] => t >= At[y] + Window
  BY <1>1, <1>4, <1>5, <1>6
<1>8. Settled(s.log, y) \/ t < At[y] \/ (y \notin s.ram.fired /\ t < At[y] + Window)
          \/ InWindow(t, y)
  BY UnderWay
<1>9. Settled(s.log, y) \/ t < At[y]
  BY <1>1, <1>4, <1>7, <1>8 DEF InWindow
<1>10. t < At[y] => t < At[y] + w + f
  BY <1>1, <1>4
<1>11. QED
  BY <1>1, <1>2, <1>9, <1>10 DEF TrackedOf, Tracked, Asked, Ordered

-----------------------------------------------------------------------------
(* Every step keeps it.                                                    *)
AllTracked == \A y \in Slot : TrackedOf(Now, now, slow, faults, y)
(* The strengthening behind NoSlotIsLost.                                  *)
TInv == SInv /\ PInv /\ AllTracked

LEMMA LaterTracked ==
    ASSUME NEW s, NEW t, NEW w \in Nat, NEW f \in Nat, NEW g \in Nat, f <= g, s \in Mem, t \in Nat,
           NEW y \in Slot, TrackedOf(s, t, w, f, y)
    PROVE  TrackedOf(s, t, w, g, y)
<1>1. At[y] \in Nat /\ s.ram.issuedAt \in Nat
  BY SlotIs DEF Mem, Rams
<1>2. /\ t < At[y] + w + f => t < At[y] + w + g
      /\ t <= At[y] + w + f => t <= At[y] + w + g
      /\ s.ram.issuedAt <= At[y] + w + f => s.ram.issuedAt <= At[y] + w + g
  BY <1>1
<1>3. QED
  BY <1>2 DEF TrackedOf, Tracked

LEMMA InitTracked == ASSUME Spread, Init PROVE AllTracked
<1> DEFINE s == Now
<1>1. Now.ram.fired = {} /\ Now.reads = <<>> /\ Now.orders = <<>>
      /\ now = 0 /\ slow = 0 /\ faults = 0
  BY FreshIs DEF Init, Now
<1>2. \A y \in Slot : 0 < At[y] + 0 + 0
  BY SlotIs DEF Spread
<1> HIDE DEF s
<1>3. s.ram.fired = {} /\ DOMAIN s.reads = {} /\ DOMAIN s.orders = {}
  BY <1>1 DEF s
<1>4. \A y \in Slot : TrackedOf(s, 0, 0, 0, y)
  BY <1>2, <1>3 DEF TrackedOf, Tracked, Asked, Ordered
<1>5. QED
  BY <1>1, <1>4 DEF AllTracked, s

LEMMA BecomesTracked ==
    ASSUME NEW u \in Mem, Becomes(u), \A y \in Slot : TrackedOf(u, now', slow', faults', y)
    PROVE  AllTracked'
<1>1. Now' = u
  BY BecomesNow
<1>2. QED
  BY <1>1 DEF AllTracked

LEMMA StateReadTracked ==
    ASSUME TInv, NEW ok \in BOOLEAN, NEW garbage \in BOOLEAN, StateRead(ok, garbage)
    PROVE  AllTracked'
<1> DEFINE s == Now
           c == [s EXCEPT !.reads = <<>>]
           late == {reads[i].slot : i \in DOMAIN reads} \ {None}
           b == IF robot = "booting" THEN Excuse(c, late) ELSE c
           idle == robot = "idle"
           u == AllSeen(b, reads, ok, idle, garbage)
<1>1. /\ TypeOK /\ s \in Mem /\ Ready(s) /\ s.reads = reads
      /\ \A y \in Slot : TrackedOf(s, now, slow, faults, y)
  BY NowTyped DEF TInv, PInv, AllTracked, Now
<1>2. /\ Becomes(u) /\ UNCHANGED <<now, robot, docked, slow>> /\ (ok => robot # "booting")
      /\ IF ok \/ robot = "booting" THEN UNCHANGED faults ELSE faults' = faults + 1
  BY DEF StateRead, Fault
<1>3. now \in Nat /\ slow \in Nat /\ faults \in Nat /\ faults' \in Nat
  BY <1>1, <1>2, TimesAssumption DEF TypeOK
<1>4. late \subseteq Slot /\ \A y \in Slot : Asked(reads, DOMAIN reads, y) => y \in late
  <2>1. \A i \in DOMAIN reads : reads[i] \in Read
    BY <1>1 DEF TypeOK
  <2>2. \A y \in Slot : Asked(reads, DOMAIN reads, y) => y \in late
    BY SlotIs DEF Asked, ReadOf
  <2>3. QED
    BY <2>1, <2>2 DEF Read
<1> HIDE DEF s, late
<1>5. /\ c \in Mem /\ c.ram = s.ram /\ c.log = s.log /\ c.orders = s.orders /\ c.reads = <<>>
      /\ c.prepared = s.prepared
  <2>1. <<>> \in Seq(Read)
    OBVIOUS
  <2>2. QED
    BY <1>1, <2>1 DEF Mem
<1> HIDE DEF c
<1>6. /\ Excuse(c, late) \in Mem /\ Excuse(c, late).log = [c.log EXCEPT !.excused = @ \cup late]
      /\ Excuse(c, late).ram = c.ram /\ Excuse(c, late).orders = c.orders
      /\ Excuse(c, late).reads = c.reads /\ Excuse(c, late).prepared = c.prepared
  BY <1>4, <1>5, ExcuseIs
<1>7. /\ b \in Mem /\ b.ram = s.ram /\ b.log.cleaned = s.log.cleaned
      /\ b.log.restarted = s.log.restarted /\ b.orders = s.orders /\ b.reads = <<>>
      /\ b.prepared = s.prepared
  BY <1>5, <1>6 DEF Mem, Logs
<1>8. \A y \in Slot : Follows(s, b, y) /\ (robot = "booting" /\ y \in late => Settled(b.log, y))
  <2>1. \A y \in Slot : Follows(s, c, y)
    BY <1>5 DEF Follows
  <2>2. \A y \in Slot : Follows(c, Excuse(c, late), y)
                        /\ (y \in late => Settled(Excuse(c, late).log, y))
    BY <1>4, <1>5, ExcuseFollows
  <2>3. \A y \in Slot : Follows(s, Excuse(c, late), y)
    BY <2>1, <2>2, FollowsOn
  <2>4. QED
    BY <2>1, <2>2, <2>3
<1>9. idle \in BOOLEAN
  OBVIOUS
<1> HIDE DEF b, idle
<1>10. Prepared(b, reads, DOMAIN reads)
  BY <1>1, <1>7, KeptPrepared DEF Ready
<1>11. ASSUME NEW y \in Slot
       PROVE  Tracked(b, reads, DOMAIN reads, now, slow, faults', ok, y)
  <2>1. Tracked(s, reads, DOMAIN reads, now, slow, faults, TRUE, y)
    BY <1>1 DEF TrackedOf
  <2>2. Tracked(b, reads, DOMAIN reads, now, slow, faults, TRUE, y)
    BY <1>8, <2>1, FollowTracked
  <2>3. CASE ok
    BY <1>2, <2>2, <2>3 DEF Tracked
  <2>4. CASE ~ok /\ robot = "booting"
    BY <1>2, <1>4, <1>8, <2>2, <2>4 DEF Tracked
  <2>5. CASE ~ok /\ robot # "booting"
    <3>1. At[y] \in Nat /\ b.ram.issuedAt \in Nat /\ faults' = faults + 1
      BY <1>2, <1>7, <2>5, SlotIs DEF Mem, Rams
    <3>2. /\ now <= At[y] + slow + faults => now < At[y] + slow + faults'
          /\ now < At[y] + slow + faults => now < At[y] + slow + faults'
          /\ now <= At[y] + slow + faults => now <= At[y] + slow + faults'
          /\ b.ram.issuedAt <= At[y] + slow + faults => b.ram.issuedAt <= At[y] + slow + faults'
      BY <1>3, <3>1
    <3>3. QED
      BY <2>2, <3>2 DEF Tracked
  <2>6. QED
    BY <2>3, <2>4, <2>5
<1>12. \A y \in Slot : Tracked(u, reads, {}, now, slow, faults', ok, y)
  BY <1>3, <1>9, <1>10, <1>11, AllSeenTracked
<1>13. u \in Mem /\ u.reads = <<>>
  <2>1. Prepared(u, reads, DOMAIN reads) /\ u.reads = b.reads
    BY <1>9, <1>10, AllSeenPrepared
  <2>2. QED
    BY <1>7, <2>1 DEF Prepared
<1>14. Becomes(u)
  BY <1>2
<1> HIDE DEF u
<1>15. \A y \in Slot : TrackedOf(u, now, slow, faults', y)
  <2>1. DOMAIN u.reads = {}
    BY <1>13
  <2>2. \A y : ~Asked(u.reads, {}, y) /\ ~Asked(reads, {}, y)
    BY DEF Asked
  <2>3. QED
    BY <1>12, <2>1, <2>2 DEF TrackedOf, Tracked
<1>16. now' = now /\ slow' = slow
  BY <1>2
<1>17. QED
  BY <1>13, <1>14, <1>15, <1>16, BecomesTracked

LEMMA NextTracked ==
    ASSUME Apart, Timely, Spread, Quick, ~CutsPower, TInv, [Next]_vars
    PROVE  AllTracked'
<1> DEFINE s == Now
           v == [Now EXCEPT !.orders = Tail(@)]
           o == Head(orders)
<1>1. /\ TypeOK /\ s \in Mem /\ Ready(s) /\ Sound(s, now, slow) /\ s.orders = orders
      /\ s.reads = reads /\ s.charger = charger /\ s.ram = ram /\ s.log = log
      /\ s.rebootPending = rebootPending
      /\ \A y \in Slot : TrackedOf(s, now, slow, faults, y)
  BY NowTyped DEF TInv, SInv, PInv, AllTracked, Now
<1>2. /\ now \in Nat /\ slow \in Nat /\ faults \in Nat /\ slow <= MaxSlow /\ faults <= MaxFaults
      /\ now \in 0 .. End
  BY <1>1, TimesAssumption DEF TypeOK
<1>3. Fault \/ UNCHANGED faults => faults' \in Nat /\ faults <= faults'
  BY <1>2 DEF Fault
<1>4. CASE Tick
  <2> DEFINE n == IF s.uptime < Grace THEN s.uptime + 1 ELSE s.uptime
             u == [s EXCEPT !.uptime = n]
             t == now + 1
  <2>1. /\ Becomes(Ticked(u, t)) /\ now' = t /\ faults' = faults
        /\ IF Answered THEN slow' = slow ELSE slow < MaxSlow /\ slow' = slow + 1
    BY <1>4 DEF Tick
  <2>2. n \in 0 .. Grace
    BY <1>1, TimesAssumption DEF Mem
  <2>3. /\ slow' \in Nat /\ slow' <= MaxSlow /\ slow' >= slow
        /\ s.reads # <<>> \/ s.orders # <<>> => slow' = slow + 1
    BY <1>1, <1>2, <2>1, TimesAssumption DEF Answered
  <2> HIDE DEF s, n
  <2>4. /\ u \in Mem /\ u.ram = s.ram /\ u.log = s.log /\ u.orders = s.orders /\ u.reads = s.reads
        /\ u.prepared = s.prepared
    BY <1>1, <2>2 DEF Mem
  <2> HIDE DEF u
  <2>5. Ready(u)
    BY <1>1, <2>4, KeptReady
  <2>6. \A y \in Slot : Owed(u, t, slow', faults, y)
    BY <1>1, <1>2, <2>3, <2>4, TimeOwed
  <2>7. t \in Nat
    BY <1>2
  <2> HIDE DEF t
  <2>8. \A y \in Slot : TrackedOf(Ticked(u, t), t, slow', faults, y)
    BY <1>2, <2>3, <2>5, <2>6, <2>7, TickedTracked
  <2>9. Ticked(u, t) \in Mem
    BY <2>5, TickedReady DEF Ready, Prepared
  <2>10. QED
    BY <2>1, <2>8, <2>9, BecomesTracked
<1>5. ASSUME NEW ok \in BOOLEAN, NEW garbage \in BOOLEAN, StateRead(ok, garbage)
      PROVE  AllTracked'
  BY <1>5, StateReadTracked
<1>6. ASSUME NEW ok \in BOOLEAN, ChargerRead(ok)
      PROVE  AllTracked'
  <2> DEFINE c == [s EXCEPT !.charger = None]
             m == [s.ram EXCEPT !.aheadPending = FALSE]
             d == [c EXCEPT !.ram = m]
             k == Command(c, "restart", "ahead", charger)
             u == IF ok /\ docked THEN k ELSE d
  <2>1. [Now EXCEPT !.charger = None, !.ram.aheadPending = FALSE] = d
    BY <1>1 DEF Mem
  <2>2. /\ Becomes(u) /\ UNCHANGED <<now, robot, docked, slow>> /\ (Fault \/ UNCHANGED faults)
    BY <1>6, <2>1 DEF ChargerRead
  <2>3. /\ m \in Rams /\ m.pending = s.ram.pending /\ m.issuedAt = s.ram.issuedAt
        /\ m.fired = s.ram.fired /\ charger \in Slot \cup {None}
    BY <1>1 DEF Mem, Rams
  <2> HIDE DEF s, m
  <2>4. /\ c \in Mem /\ c.ram = s.ram /\ c.log = s.log /\ c.orders = s.orders /\ c.reads = s.reads
    BY <1>1 DEF Mem
  <2> HIDE DEF c
  <2>5. d \in Mem /\ d.reads = s.reads
    BY <2>3, <2>4 DEF Mem
  <2>6. \A y \in Slot : Follows(s, c, y)
    BY <2>4 DEF Follows
  <2>7. \A y \in Slot : Follows(c, d, y)
    BY <2>3, <2>4, RamFollows
  <2>8. "ahead" # "slot" /\ "ahead" \in Purpose /\ "restart" \in {"restart", "clean"}
    BY DEF Purpose
  <2>9. \A y \in Slot : Follows(c, k, y)
    BY <2>3, <2>4, <2>8, CommandFollows
  <2>10. k \in Mem /\ k.reads = s.reads
    BY <2>3, <2>4, <2>8, CommandIs
  <2> HIDE DEF d, k
  <2>11. u \in Mem /\ u.reads = s.reads /\ \A y \in Slot : Follows(s, u, y)
    BY <2>5, <2>6, <2>7, <2>9, <2>10, FollowsOn
  <2> HIDE DEF u
  <2>12. \A y \in Slot : TrackedOf(u, now, slow, faults, y)
    BY <1>1, <2>11, FollowTrackedOf DEF AskedOf
  <2>13. \A y \in Slot : TrackedOf(u, now, slow, faults', y)
    BY <1>2, <1>3, <2>2, <2>11, <2>12, LaterTracked
  <2>14. now' = now /\ slow' = slow /\ Becomes(u)
    BY <2>2
  <2>15. QED
    BY <2>11, <2>13, <2>14, BecomesTracked
<1>7. CASE RestartDone
  <2> DEFINE u == Restarted(v, o)
  <2>1. /\ orders # <<>> /\ o.cmd = "restart" /\ Becomes(u) /\ UNCHANGED <<now, faults, slow>>
    BY <1>7 DEF RestartDone
  <2>2. v = [s EXCEPT !.orders = Tail(@)] /\ o = Head(s.orders)
    BY <1>1
  <2> HIDE DEF s, v, o
  <2>3. \A y \in Slot : TrackedOf(u, now, slow, faults, y)
    BY <1>1, <1>2, <2>1, <2>2, RestartedTracked
  <2>4. u \in Mem
    <3>1. Ready(v) /\ o \in Order /\ OrderFit(o)
      BY <1>1, <2>1, <2>2, TakenReady
    <3>2. Ready(u)
      BY <1>2, <2>1, <3>1, RestartedReady
    <3>3. QED
      BY <3>2 DEF Ready, Prepared
  <2> HIDE DEF u
  <2>5. now' = now /\ slow' = slow /\ faults' = faults
    BY <2>1
  <2>6. QED
    BY <2>1, <2>3, <2>4, <2>5, BecomesTracked
<1>8. ASSUME orders # <<>>, NEW y \in Slot
      PROVE  /\ v \in Mem /\ v.reads = s.reads /\ o \in Order
             /\ Ordered(v.orders, y) => Ordered(s.orders, y)
             /\ ~RestartOf(o, y) => Follows(s, v, y)
             /\ v.log = s.log
  <2>1. v = [s EXCEPT !.orders = Tail(@)] /\ o = Head(s.orders) /\ s.orders # <<>>
    BY <1>1, <1>8
  <2> HIDE DEF s, v, o
  <2>2. QED
    BY <1>1, <2>1, TakenFollows
<1>9. ASSUME orders # <<>>
      PROVE  v \in Mem /\ o \in Order
  BY <1>9, HeadTaken DEF TInv
<1>10. CASE CleanDone
  <2>1. /\ orders # <<>> /\ o.cmd = "clean" /\ Becomes(v) /\ UNCHANGED <<now, faults, slow>>
    BY <1>10 DEF CleanDone
  <2> HIDE DEF s, v, o
  <2>2. \A y \in Slot : ~RestartOf(o, y)
    BY <2>1 DEF RestartOf
  <2>3. \A y \in Slot : TrackedOf(v, now, slow, faults, y)
    BY <1>1, <1>8, <2>1, <2>2, FollowTrackedOf DEF AskedOf
  <2>4. now' = now /\ slow' = slow /\ faults' = faults
    BY <2>1
  <2>5. QED
    BY <1>9, <2>1, <2>3, <2>4, BecomesTracked
<1>11. CASE CommandFails
  <2> DEFINE e == Excuse(v, {o.slot} \ {None})
             m == [e.ram EXCEPT !.aheadPending = FALSE]
             d == [e EXCEPT !.ram = m]
             u == IF o.for = "ahead" THEN [e EXCEPT !.ram.aheadPending = FALSE] ELSE e
  <2>1. /\ orders # <<>> /\ Becomes(u) /\ UNCHANGED <<now, robot, docked, slow>>
        /\ Fault \/ UNCHANGED faults
    BY <1>11 DEF CommandFails
  <2> HIDE DEF s, v, o
  <2>2. {o.slot} \ {None} \in SUBSET Slot /\ v \in Mem
    BY <1>9, <2>1 DEF Order
  <2>3. e \in Mem /\ e.reads = v.reads
    BY <2>2, ExcuseIs
  <2>4. \A y \in Slot : Follows(v, e, y) /\ (y \in {o.slot} \ {None} => Settled(e.log, y))
    BY <2>2, ExcuseFollows
  <2> HIDE DEF e
  <2>5. [e EXCEPT !.ram.aheadPending = FALSE] = d
    BY <2>3 DEF Mem
  <2>6. m \in Rams /\ m.pending = e.ram.pending /\ m.issuedAt = e.ram.issuedAt
        /\ m.fired = e.ram.fired
    BY <2>3 DEF Mem, Rams
  <2> HIDE DEF m
  <2>7. d \in Mem /\ d.reads = e.reads /\ \A y \in Slot : Follows(e, d, y)
    BY <2>3, <2>6, RamFollows DEF Mem
  <2> HIDE DEF d
  <2>8. u \in Mem /\ u.reads = v.reads
        /\ \A y \in Slot : Follows(v, u, y) /\ (RestartOf(o, y) => Settled(u.log, y))
    <3>1. \A y \in Slot : RestartOf(o, y) => y \in {o.slot} \ {None}
      BY SlotIs DEF RestartOf
    <3>2. \A y \in Slot : Follows(v, d, y)
      BY <2>4, <2>7, FollowsOn
    <3>3. \A y \in Slot : Settled(e.log, y) => Settled(d.log, y)
      BY <2>7 DEF Follows
    <3>4. u = e \/ u = d
      BY <2>5
    <3> HIDE DEF u
    <3>5. QED
      BY <2>3, <2>4, <2>7, <3>1, <3>2, <3>3, <3>4
  <2> HIDE DEF u
  <2>9. ASSUME NEW y \in Slot
        PROVE  TrackedOf(u, now, slow, faults, y)
    <3>1. TrackedOf(s, now, slow, faults, y)
      BY <1>1
    <3>2. /\ v.reads = s.reads /\ (Ordered(v.orders, y) => Ordered(s.orders, y))
          /\ ~RestartOf(o, y) => Follows(s, v, y)
      BY <1>8, <2>1
    <3>3. Follows(v, u, y) /\ (RestartOf(o, y) => Settled(u.log, y)) /\ u.reads = v.reads
      BY <2>8
    <3>4. CASE RestartOf(o, y)
      BY <3>1, <3>2, <3>3, <3>4 DEF TrackedOf, Tracked, Follows
    <3>5. CASE ~RestartOf(o, y)
      <4>1. Follows(s, u, y)
        BY <3>2, <3>3, <3>5, FollowsOn
      <4>2. QED
        BY <3>1, <3>2, <3>3, <4>1, FollowTrackedOf DEF AskedOf
    <3>6. QED
      BY <3>4, <3>5
  <2>10. \A y \in Slot : TrackedOf(u, now, slow, faults', y)
    BY <1>2, <1>3, <2>1, <2>8, <2>9, LaterTracked
  <2>11. now' = now /\ slow' = slow
    BY <2>1
  <2>12. QED
    BY <2>1, <2>8, <2>10, <2>11, BecomesTracked
<1>12. CASE SoftReboot
  <2> DEFINE u == Reboot(s, FALSE)
  <2>1. rebootPending /\ Becomes(u) /\ UNCHANGED <<now, faults, slow>>
    BY <1>12 DEF SoftReboot
  <2> HIDE DEF s
  <2>2. u \in Mem
    BY <1>1, RebootIs
  <2>3. \A y \in Slot : TrackedOf(u, now, slow, faults, y)
    BY <1>1, <1>2, <2>1, RebootTracked
  <2> HIDE DEF u
  <2>4. now' = now /\ slow' = slow /\ faults' = faults
    BY <2>1
  <2>5. QED
    BY <2>1, <2>2, <2>3, <2>4, BecomesTracked
<1>13. CASE RequestSkip \/ CancelSkip \/ RobotBoots \/ RobotFinishes \/ UNCHANGED vars
  <2> DEFINE b == skip'
             u == [s EXCEPT !.skip = b]
  <2>1. Becomes(u) /\ UNCHANGED <<now, faults, slow>>
    BY <1>13 DEF RequestSkip, CancelSkip, RobotBoots, RobotFinishes, bridge, vars, Becomes, Now
  <2>2. b \in BOOLEAN
    BY <1>1, <1>13 DEF RequestSkip, CancelSkip, RobotBoots, RobotFinishes, bridge, vars, TypeOK
  <2> HIDE DEF s, b
  <2>3. /\ u \in Mem /\ u.ram = s.ram /\ u.log = s.log /\ u.orders = s.orders /\ u.reads = s.reads
    BY <1>1, <2>2 DEF Mem
  <2> HIDE DEF u
  <2>4. \A y \in Slot : Follows(s, u, y)
    BY <2>3 DEF Follows
  <2>5. \A y \in Slot : TrackedOf(u, now, slow, faults, y)
    BY <1>1, <2>3, <2>4, FollowTrackedOf DEF AskedOf
  <2>6. now' = now /\ slow' = slow /\ faults' = faults
    BY <2>1
  <2>7. QED
    BY <2>1, <2>3, <2>5, <2>6, BecomesTracked
<1>14. QED
  BY <1>4, <1>5, <1>6, <1>7, <1>10, <1>11, <1>12, <1>13 DEF Next

(* A slot whose window and wait are over was cleaned, skipped, or passed   *)
(* over because the robot was busy or did not come back: none is forgotten *)
(* between the flag that it fired, the reads and orders under way and the  *)
(* clean that waits for the robot to boot, which a reboot all forgets.     *)
THEOREM NoSlotIsLost ==
    ASSUME ~CutsPower, Apart, Timely, Spread, Quick
    PROVE  Spec => []SlotNotLost
<1>1. TInv => SlotNotLost
  <2> SUFFICES ASSUME TInv, NEW y \in Slot, now > At[y] + Window + BootTimeout
               PROVE  log.cleaned[y] > 0 \/ y \in log.skipped \cup log.excused
    BY DEF SlotNotLost
  <2> DEFINE s == Now
  <2>1. /\ TypeOK /\ Sound(s, now, slow) /\ TrackedOf(s, now, slow, faults, y) /\ s.log = log
    BY DEF TInv, SInv, AllTracked, Now
  <2> HIDE DEF s
  <2>2. /\ now \in Nat /\ slow \in Nat /\ faults \in Nat /\ slow <= MaxSlow /\ faults <= MaxFaults
    BY <2>1, TimesAssumption DEF TypeOK
  <2>3. /\ Settled(s.log, y) \/ now < At[y] \/ (y \notin s.ram.fired /\ now < At[y] + Window)
              \/ InWindow(now, y)
    BY <2>1, <2>2, UnderWay
  <2>4. Settled(log, y)
    BY <2>1, <2>2, <2>3, SlotIs, TimesAssumption DEF InWindow
  <2>5. QED
    BY <2>4 DEF Settled, Closed
<1>2. Init => TInv
  BY InitSound, InitReady, InitTracked DEF TInv
<1>3. TInv /\ [Next]_vars => TInv'
  BY NextSound, NextReady, NextTracked DEF TInv
<1>4. QED
  BY <1>1, <1>2, <1>3, PTL DEF Spec

=============================================================================
