------------------------- MODULE NeatoSerialProofs -------------------------
(***************************************************************************)
(* Proofs about NeatoSerial, for every set of requests, every assignment   *)
(* of operations to them and every queue limit.                            *)
(***************************************************************************)
EXTENDS NeatoSerialRefinement, Integers, TLAPS

-----------------------------------------------------------------------------
(* The tables.                                                             *)

LEMMA TablesType ==
    /\ Priority \in [Cmd -> 1 .. 4]
    /\ FirstCmd \in [Op -> Cmd]
    /\ WaitsForResponse \in [Cmd -> BOOLEAN]
<1>1. \A c \in Cmd : Priority[c] \in 1 .. 4
  BY DEF Priority, Cmd
<1>2. \A o \in Op : FirstCmd[o] \in Cmd
  BY DEF FirstCmd, Cmd, Op
<1>3. QED
  BY <1>1, <1>2 DEF Priority, FirstCmd, WaitsForResponse

LEMMA EntryType ==
    ASSUME NEW e \in Entry
    PROVE  /\ e.req \in Req
           /\ e.cmd \in Cmd
           /\ e.seq \in Nat
           /\ e.callback \in BOOLEAN
           /\ Priority[e.cmd] \in Nat
<1>1. e.cmd \in Cmd
  BY DEF Entry
<1>2. Priority[e.cmd] \in 1 .. 4
  BY <1>1, TablesType
<1>3. QED
  BY <1>2 DEF Entry

LEMMA NextCmdType ==
    ASSUME NEW o \in Op, NEW c \in Cmd, NEW ok \in BOOLEAN
    PROVE  /\ NextCmd(o, c, ok) \in Cmd \cup {None}
           /\ AnswersNow(o, c, ok) \in BOOLEAN
BY DEF NextCmd, AnswersNow, Cmd, Op

-----------------------------------------------------------------------------
(* The queue operators.                                                    *)

\* What enqueue() makes of the queue: one entry more, the others in place.
LEMMA InsertedShape ==
    ASSUME NEW q \in Seq(Entry), NEW e \in Entry, NEW i \in 1 .. Len(q) + 1
    PROVE  /\ Inserted(q, e, i) \in Seq(Entry)
           /\ Len(Inserted(q, e, i)) = Len(q) + 1
           /\ \A j \in 1 .. Len(q) + 1 : Inserted(q, e, i)[j] =
                IF j < i THEN q[j] ELSE IF j = i THEN e ELSE q[j - 1]
<1> DEFINE s == Inserted(q, e, i)
<1>1. \A j \in 1 .. Len(q) + 1 :
        (IF j < i THEN q[j] ELSE IF j = i THEN e ELSE q[j - 1]) \in Entry
  OBVIOUS
<1>2. s \in [1 .. Len(q) + 1 -> Entry]
  BY <1>1 DEF Inserted
<1>3. Len(q) + 1 \in Nat
  OBVIOUS
<1>4. s \in Seq(Entry) /\ Len(s) = Len(q) + 1
  BY <1>2, <1>3
<1>5. QED
  BY <1>4 DEF Inserted

\* enqueue() keeps the queue sorted, if the stamp is newer than all in it.
LEMMA InsertKeepsOrder ==
    ASSUME NEW q \in Seq(Entry), NEW e \in Entry, NEW i \in 1 .. Len(q) + 1,
           IsInsertPos(q, Priority[e.cmd], i),
           \A j \in DOMAIN q : q[j].seq < e.seq,
           \A j, k \in DOMAIN q : j < k => Before(q[j], q[k])
    PROVE  \A j, k \in DOMAIN Inserted(q, e, i) :
                j < k => Before(Inserted(q, e, i)[j], Inserted(q, e, i)[k])
<1> DEFINE s == Inserted(q, e, i)
<1>1. DOMAIN s = 1 .. Len(q) + 1
  BY InsertedShape
<1>2. \A j \in 1 .. Len(q) + 1 :
        s[j] = IF j < i THEN q[j] ELSE IF j = i THEN e ELSE q[j - 1]
  BY InsertedShape
<1>3. \A a, b \in Entry : Before(a, b) \in BOOLEAN
  BY DEF Before
<1>4. \A j \in DOMAIN q : q[j] \in Entry /\ Priority[q[j].cmd] \in Nat /\ q[j].seq \in Nat
  <2> SUFFICES ASSUME NEW j \in DOMAIN q
               PROVE  q[j] \in Entry /\ Priority[q[j].cmd] \in Nat /\ q[j].seq \in Nat
    OBVIOUS
  <2>1. q[j] \in Entry
    OBVIOUS
  <2>2. QED
    BY <2>1, EntryType
<1>5. Priority[e.cmd] \in Nat /\ e.seq \in Nat
  BY EntryType
<1>6. DOMAIN q = 1 .. Len(q)
  OBVIOUS
<1>14. \A j \in DOMAIN q : j < i => Before(q[j], e)
  BY <1>4, <1>5, <1>6 DEF IsInsertPos, Before
<1>15. \A j \in DOMAIN q : j >= i => Before(e, q[j])
  <2> SUFFICES ASSUME NEW j \in DOMAIN q, j >= i
               PROVE  Before(e, q[j])
    OBVIOUS
  <2>1. i \in DOMAIN q /\ Priority[q[i].cmd] > Priority[e.cmd]
    BY <1>6 DEF IsInsertPos
  <2>2. Priority[q[j].cmd] >= Priority[q[i].cmd]
    <3>1. CASE j = i
      BY <3>1, <1>4
    <3>2. CASE j > i
      BY <3>2, <2>1, <1>4 DEF Before
    <3>3. QED
      BY <3>1, <3>2, <1>6
  <2>3. QED
    BY <2>1, <2>2, <1>4, <1>5 DEF Before
<1>7. \A j \in 1 .. i - 1 : s[j] = q[j] /\ j \in DOMAIN q
  BY <1>2, <1>6
<1>8. s[i] = e
  BY <1>2
<1>9. \A j \in i + 1 .. Len(q) + 1 : s[j] = q[j - 1] /\ j - 1 \in DOMAIN q /\ j - 1 >= i
  BY <1>2, <1>6
<1> HIDE DEF s
<1>10. ASSUME NEW j \in 1 .. Len(q) + 1, NEW k \in 1 .. Len(q) + 1, j < k
       PROVE  Before(s[j], s[k])
  <2>1. CASE k < i
    <3>1. s[j] = q[j] /\ s[k] = q[k] /\ j \in DOMAIN q /\ k \in DOMAIN q
      BY <1>7, <1>10, <2>1
    <3>2. QED
      BY <3>1, <1>10
  <2>2. CASE k = i
    <3>1. s[j] = q[j] /\ s[k] = e /\ j \in DOMAIN q /\ j < i
      BY <1>7, <1>8, <1>10, <2>2
    <3>2. QED
      BY <3>1, <1>14
  <2>3. CASE k > i /\ j < i
    <3>1. s[j] = q[j] /\ s[k] = q[k - 1] /\ j \in DOMAIN q /\ k - 1 \in DOMAIN q /\ j < k - 1
      BY <1>7, <1>9, <1>10, <2>3
    <3>2. QED
      BY <3>1
  <2>4. CASE k > i /\ j = i
    <3>1. s[j] = e /\ s[k] = q[k - 1] /\ k - 1 \in DOMAIN q /\ k - 1 >= i
      BY <1>8, <1>9, <1>10, <2>4
    <3>2. QED
      BY <3>1, <1>15
  <2>5. CASE k > i /\ j > i
    <3>1. s[j] = q[j - 1] /\ s[k] = q[k - 1] /\ j - 1 \in DOMAIN q /\ k - 1 \in DOMAIN q /\ j - 1 < k - 1
      BY <1>9, <1>10, <2>5
    <3>2. QED
      BY <3>1
  <2>6. QED
    BY <2>1, <2>2, <2>3, <2>4, <2>5
<1>11. QED
  BY <1>1, <1>10 DEF s

-----------------------------------------------------------------------------
(* Type correctness.                                                       *)

LEMMA EnqueueType ==
    ASSUME TypeOK, NEW e \in Entry, Enqueue(queue, e)
    PROVE  /\ queue' \in Seq(Entry)
           /\ Len(queue') = Len(queue) + 1
           /\ nextSeq' = nextSeq + 1
           /\ nextSeq' \in Nat
<1>1. PICK i \in 1 .. Len(queue) + 1 : queue' = Inserted(queue, e, i)
  BY DEF Enqueue
<1>2. queue \in Seq(Entry) /\ nextSeq \in Nat
  BY DEF TypeOK
<1>3. QED
  BY <1>1, <1>2, InsertedShape DEF Enqueue

LEMMA NewEntryType ==
    ASSUME TypeOK, NEW r \in Req, NEW c \in Cmd, NEW cb \in BOOLEAN
    PROVE  NewEntry(r, c, cb) \in Entry
BY DEF TypeOK, NewEntry, Entry

\* A completion callback does one of three things.
LEMMA CallbackCases ==
    ASSUME TypeOK, NEW e \in Entry, NEW ok \in BOOLEAN, Callback(e, ok)
    PROVE  \/ /\ UNCHANGED <<queue, nextSeq>>
              /\ IF e.callback THEN \E v \in BOOLEAN : Answer(e.req, v) ELSE UNCHANGED replies
           \/ /\ HasRoom(queue)
              /\ \E c \in Cmd : Enqueue(queue, NewEntry(e.req, c, e.callback))
              /\ UNCHANGED replies
           \/ /\ HasRoom(queue)
              /\ \E c \in Cmd : Enqueue(queue, NewEntry(e.req, c, FALSE))
              /\ IF e.callback THEN \E v \in BOOLEAN : Answer(e.req, v) ELSE UNCHANGED replies
<1> DEFINE op == OpOf[e.req]
           next == NextCmd(op, e.cmd, ok)
           now == AnswersNow(op, e.cmd, ok)
<1>1. e.req \in Req /\ e.cmd \in Cmd /\ e.callback \in BOOLEAN
  BY EntryType
<1>2. op \in Op
  BY <1>1, OpOfAssumption
<1>3. next \in Cmd \cup {None} /\ now \in BOOLEAN
  BY <1>1, <1>2, NextCmdType
<1>4. next = None => now
  BY DEF AnswersNow
<1>5. /\ IF next # None /\ HasRoom(queue)
         THEN Enqueue(queue, NewEntry(e.req, next, ~now /\ e.callback))
         ELSE UNCHANGED <<queue, nextSeq>>
      /\ IF e.callback /\ (now \/ ~HasRoom(queue))
         THEN Answer(e.req, ok /\ next = None)
         ELSE UNCHANGED replies
  BY DEF Callback, PassesOn, AnswersCaller
<1>6. (ok /\ next = None) \in BOOLEAN
  OBVIOUS
<1> HIDE DEF next, now, op
<1>7. CASE next = None \/ ~HasRoom(queue)
  BY <1>4, <1>5, <1>6, <1>7
<1>8. CASE next # None /\ HasRoom(queue) /\ now
  <2>1. (~now /\ e.callback) = FALSE
    BY <1>1, <1>3, <1>8
  <2>2. Enqueue(queue, NewEntry(e.req, next, FALSE)) /\ next \in Cmd
    BY <1>3, <1>5, <1>8, <2>1
  <2>3. QED
    BY <1>5, <1>6, <1>8, <2>2
<1>9. CASE next # None /\ HasRoom(queue) /\ ~now
  <2>1. (~now /\ e.callback) = e.callback
    BY <1>1, <1>3, <1>9
  <2>2. Enqueue(queue, NewEntry(e.req, next, e.callback)) /\ next \in Cmd
    BY <1>3, <1>5, <1>9, <2>1
  <2>3. QED
    BY <1>5, <1>9, <2>2
<1>10. QED
  BY <1>3, <1>7, <1>8, <1>9

LEMMA AnswerType ==
    ASSUME TypeOK, NEW r \in Req, NEW v \in BOOLEAN, Answer(r, v)
    PROVE  replies' \in [Req -> Seq(BOOLEAN)]
BY DEF TypeOK, Answer

LEMMA CallbackType ==
    ASSUME TypeOK, NEW e \in Entry, NEW ok \in BOOLEAN, Callback(e, ok)
    PROVE  /\ queue' \in Seq(Entry)
           /\ nextSeq' \in Nat
           /\ replies' \in [Req -> Seq(BOOLEAN)]
<1>1. e.req \in Req /\ e.callback \in BOOLEAN
  BY EntryType
<1>2. UNCHANGED <<queue, nextSeq>> => queue' \in Seq(Entry) /\ nextSeq' \in Nat
  BY DEF TypeOK
<1>3. UNCHANGED replies => replies' \in [Req -> Seq(BOOLEAN)]
  BY DEF TypeOK
<1>4. \A v \in BOOLEAN : Answer(e.req, v) => replies' \in [Req -> Seq(BOOLEAN)]
  BY <1>1, AnswerType
<1>5. \A c \in Cmd, cb \in BOOLEAN : Enqueue(queue, NewEntry(e.req, c, cb)) =>
        queue' \in Seq(Entry) /\ nextSeq' \in Nat
  BY <1>1, NewEntryType, EnqueueType
<1>6. QED
  BY <1>1, <1>2, <1>3, <1>4, <1>5, CallbackCases

LEMMA InitTypeOK == Init => TypeOK
<1>1. [r \in Req |-> <<>>] \in [Req -> Seq(BOOLEAN)]
  OBVIOUS
<1>2. Init => replies \in [Req -> Seq(BOOLEAN)]
  BY <1>1 DEF Init
<1>3. Init => queue \in Seq(Entry) /\ inbox \in Seq(Entry) /\ rx \in Seq(Token)
  BY DEF Init
<1>4. Init => state \in State /\ expired \in BOOLEAN
  BY DEF Init, State
<1>5. Init => nextSeq \in Nat
  BY DEF Init
<1>6. Init => current = None /\ echo = None /\ issued = {} /\ replying = None /\ executed = {} /\ echoed = {}
  BY DEF Init
<1>7. QED
  BY <1>2, <1>3, <1>4, <1>5, <1>6 DEF TypeOK

LEMMA SubmitTypeOK ==
    ASSUME TypeOK, NEW r \in Req, Submit(r)
    PROVE  TypeOK'
<1>1. NewEntry(r, FirstCmd[OpOf[r]], TRUE) \in Entry
  BY NewEntryType, OpOfAssumption, TablesType
<1>2. queue' \in Seq(Entry) /\ nextSeq' \in Nat /\ replies' \in [Req -> Seq(BOOLEAN)]
  <2>1. CASE HasRoom(queue)
    BY <1>1, <2>1, EnqueueType DEF Submit, TypeOK
  <2>2. CASE ~HasRoom(queue)
    BY <2>2, AnswerType DEF Submit, TypeOK
  <2>3. QED
    BY <2>1, <2>2
<1>3. QED
  BY <1>2 DEF Submit, TypeOK, robot

\* What completeCommand() leaves behind is of the right type.
LEMMA CompleteType ==
    ASSUME TypeOK, Bookkeeping, state \in {"SENDING", "WAITING_RESPONSE"},
           NEW ok \in BOOLEAN, CompleteCommand(ok)
    PROVE  /\ current \in Entry
           /\ queue' \in Seq(Entry)
           /\ nextSeq' \in Nat
           /\ replies' \in [Req -> Seq(BOOLEAN)]
           /\ state' \in State
           /\ current' \in Entry \cup {None}
           /\ echo' \in Entry \cup {None}
           /\ expired' \in BOOLEAN
<1>1. current \in Entry
  BY DEF TypeOK, Bookkeeping
<1>2. QED
  BY <1>1, CallbackType DEF CompleteCommand, State

LEMMA TokenType ==
    ASSUME TypeOK
    PROVE  /\ Terminator \in 0 .. Len(rx)
           /\ EchoHeard \in Entry \cup {None}
           /\ \A i \in 1 .. Len(rx) : rx[i] \in Token /\ rx[i].from \in Entry
<1>1. \A i \in 1 .. Len(rx) : rx[i] \in Token /\ rx[i].from \in Entry
  <2>1. \A t \in Token : t.from \in Entry
    BY DEF Token
  <2>2. \A i \in 1 .. Len(rx) : rx[i] \in Token
    BY DEF TypeOK
  <2>3. QED
    BY <2>1, <2>2
<1>2. rx \in Seq(Token) /\ echo \in Entry \cup {None}
  BY DEF TypeOK
<1>3. Terminator \in 0 .. Len(rx)
  BY <1>2 DEF Terminator
<1>4. EchoHeard \in Entry \cup {None}
  BY <1>1, <1>2 DEF EchoHeard
<1>5. QED
  BY <1>1, <1>3, <1>4

LEMMA TickTypeOK ==
    ASSUME TypeOK, Bookkeeping, Tick
    PROVE  TypeOK'
<1>1. CASE DequeueNext
  <2>1. Head(queue) \in Entry /\ Tail(queue) \in Seq(Entry)
    BY <1>1 DEF DequeueNext, TypeOK
  <2>2. QED
    BY <1>1, <2>1 DEF DequeueNext, TypeOK, State, callers, robot
<1>2. CASE SendCurrentCommand
  <2>1. current \in Entry
    BY <1>2 DEF SendCurrentCommand, TypeOK, Bookkeeping
  <2>2. inbox' \in Seq(Entry) /\ rx' \in Seq(Token)
    BY <1>2, <2>1 DEF SendCurrentCommand, TypeOK
  <2>3. CASE WaitsForResponse[current.cmd]
    BY <1>2, <2>2, <2>3 DEF SendCurrentCommand, TypeOK, State
  <2>4. CASE ~WaitsForResponse[current.cmd]
    <3>1. CompleteCommand(TRUE) /\ state = "SENDING"
      BY <1>2, <2>4 DEF SendCurrentCommand
    <3>2. UNCHANGED <<issued, replying, executed, echoed>>
      BY <1>2 DEF SendCurrentCommand
    <3>3. QED
      BY <2>2, <3>1, <3>2, CompleteType DEF TypeOK
  <2>5. QED
    BY <2>3, <2>4
<1>3. CASE ReceiveResponse
  <2>1. rx' \in Seq(Token)
    <3>1. SubSeq(rx, Terminator + 1, Len(rx)) \in Seq(Token)
      <4>1. rx \in Seq(Token) /\ Terminator \in Nat
        BY TokenType DEF TypeOK
      <4>2. QED
        BY <4>1
    <3>2. QED
      BY <1>3, <3>1 DEF ReceiveResponse
  <2>2. PICK ok \in BOOLEAN : CompleteCommand(ok)
    <3>1. (ValidEcho /\ rx[Terminator].body = "ok") \in BOOLEAN
      BY DEF ValidEcho
    <3>2. QED
      BY <1>3, <3>1 DEF ReceiveResponse
  <2>3. UNCHANGED <<issued, inbox, replying, executed, echoed>> /\ state = "WAITING_RESPONSE"
    BY <1>3 DEF ReceiveResponse, robot
  <2>4. QED
    BY <2>1, <2>2, <2>3, CompleteType DEF TypeOK
<1>4. CASE ReadPartial
  BY <1>4, TokenType DEF ReadPartial, TypeOK, callers, robot
<1>5. CASE ResponseTimeout
  <2>1. CompleteCommand(FALSE) /\ state = "WAITING_RESPONSE"
    BY <1>5 DEF ResponseTimeout
  <2>2. UNCHANGED <<issued, inbox, replying, executed, echoed>>
    BY <1>5 DEF ResponseTimeout, robot
  <2>3. rx' \in Seq(Token)
    BY <1>5 DEF ResponseTimeout
  <2>4. QED
    BY <2>1, <2>2, <2>3, CompleteType DEF TypeOK
<1>6. CASE DelayOver
  BY <1>6 DEF DelayOver, TypeOK, State, callers, robot
<1>7. QED
  BY <1>1, <1>2, <1>3, <1>4, <1>5, <1>6 DEF Tick

LEMMA EnvironmentTypeOK ==
    ASSUME TypeOK, DeadlinePasses \/ Robot
    PROVE  TypeOK'
<1>1. CASE DeadlinePasses
  BY <1>1 DEF DeadlinePasses, TypeOK, callers, robot
<1>2. ASSUME NEW body \in Body, RobotEcho(body)
      PROVE  TypeOK'
  <2> DEFINE e == Head(inbox)
             t == [kind |-> "echo", from |-> e, body |-> body]
  <2>1. e \in Entry /\ Tail(inbox) \in Seq(Entry)
    BY <1>2 DEF RobotEcho, TypeOK
  <2>2. t \in Token /\ [t EXCEPT !.kind = "end"] \in Token
    BY <2>1 DEF Token
  <2>3. rx' \in Seq(Token) /\ replying' \in Token /\ inbox' \in Seq(Entry)
    BY <1>2, <2>1, <2>2 DEF RobotEcho, TypeOK
  <2>4. executed' \in SUBSET (Req \X Cmd)
    <3>1. e.req \in Req /\ e.cmd \in Cmd
      BY <2>1, EntryType
    <3>2. QED
      BY <1>2, <3>1 DEF RobotEcho, TypeOK
  <2>5. echoed' \in SUBSET Verbs
    <3>1. Verb[e.cmd] \in Verbs
      BY <2>1, EntryType DEF Verbs
    <3>2. echoed' = echoed \cup {Verb[e.cmd]} /\ echoed \in SUBSET Verbs
      BY <1>2 DEF RobotEcho, TypeOK
    <3>3. QED
      BY <3>1, <3>2
  <2>6. QED
    BY <1>2, <2>3, <2>4, <2>5 DEF RobotEcho, TypeOK, callers
<1>3. CASE RobotEnd
  BY <1>3 DEF RobotEnd, TypeOK, callers
<1>4. CASE RobotGiveUp
  BY <1>4 DEF RobotGiveUp, TypeOK, callers
<1>5. ASSUME NEW done \in BOOLEAN, RobotSilent(done)
      PROVE  TypeOK'
  <2>1. Head(inbox) \in Entry /\ Tail(inbox) \in Seq(Entry)
    BY <1>5 DEF RobotSilent, TypeOK
  <2>2. Head(inbox).req \in Req /\ Head(inbox).cmd \in Cmd
    BY <2>1, EntryType
  <2>3. QED
    BY <1>5, <2>1, <2>2 DEF RobotSilent, TypeOK, callers
<1>6. QED
  BY <1>1, <1>2, <1>3, <1>4, <1>5 DEF Robot

-----------------------------------------------------------------------------
(* Exactly-once completion.  A request's claim on an answer is held by one *)
(* entry, which moves from the queue to current and from there back to the *)
(* queue (the chain goes on) or into replies.                              *)

InQueue(q, r) == \E i \in DOMAIN q : Owes(q[i], r)
Unique(q, r) == \A i, j \in DOMAIN q : Owes(q[i], r) /\ Owes(q[j], r) => i = j

\* Inserting adds the claim of the new entry and no other.
LEMMA InsertClaims ==
    ASSUME NEW q \in Seq(Entry), NEW e \in Entry, NEW i \in 1 .. Len(q) + 1,
           NEW r \in Req, Unique(q, r), ~(Owes(e, r) /\ InQueue(q, r))
    PROVE  /\ InQueue(Inserted(q, e, i), r) <=> Owes(e, r) \/ InQueue(q, r)
           /\ Unique(Inserted(q, e, i), r)
<1> DEFINE s == Inserted(q, e, i)
<1>1. DOMAIN s = 1 .. Len(q) + 1 /\ DOMAIN q = 1 .. Len(q)
  BY InsertedShape
<1>2. /\ \A j \in 1 .. i - 1 : s[j] = q[j] /\ j \in DOMAIN q
      /\ s[i] = e
      /\ \A j \in i + 1 .. Len(q) + 1 : s[j] = q[j - 1] /\ j - 1 \in DOMAIN q
  BY InsertedShape
<1>3. /\ \A j \in DOMAIN q : j < i => s[j] = q[j]
      /\ \A j \in DOMAIN q : j >= i => s[j + 1] = q[j] /\ j + 1 \in DOMAIN s
      /\ \A j \in DOMAIN q : j \in DOMAIN s
      /\ i \in DOMAIN s
  <2>1. \A j \in DOMAIN q : j < i => s[j] = q[j]
    BY <1>1, <1>2
  <2>2. ASSUME NEW j \in DOMAIN q, j >= i
        PROVE  s[j + 1] = q[j] /\ j + 1 \in DOMAIN s
    <3>1. j + 1 \in i + 1 .. Len(q) + 1 /\ (j + 1) - 1 = j
      BY <1>1, <2>2
    <3>2. s[j + 1] = q[(j + 1) - 1]
      BY <1>2, <3>1
    <3>3. QED
      BY <1>1, <3>1, <3>2
  <2>3. (\A j \in DOMAIN q : j \in DOMAIN s) /\ i \in DOMAIN s
    BY <1>1
  <2>4. QED
    BY <2>1, <2>2, <2>3
<1> HIDE DEF s
<1>4. InQueue(s, r) => Owes(e, r) \/ InQueue(q, r)
  <2> SUFFICES ASSUME NEW j \in DOMAIN s, Owes(s[j], r)
               PROVE  Owes(e, r) \/ InQueue(q, r)
    BY DEF InQueue
  <2>1. j < i \/ j = i \/ j > i
    BY <1>1
  <2>2. QED
    BY <1>1, <1>2, <2>1 DEF InQueue
<1>5. Owes(e, r) => InQueue(s, r)
  BY <1>2, <1>3 DEF InQueue
<1>6. InQueue(q, r) => InQueue(s, r)
  <2> SUFFICES ASSUME NEW j \in DOMAIN q, Owes(q[j], r)
               PROVE  InQueue(s, r)
    BY DEF InQueue
  <2>1. j < i \/ j >= i
    BY <1>1
  <2>2. QED
    BY <1>3, <2>1 DEF InQueue
<1>7. Unique(s, r)
  <2> SUFFICES ASSUME NEW j \in DOMAIN s, NEW k \in DOMAIN s, Owes(s[j], r), Owes(s[k], r)
               PROVE  j = k
    BY DEF Unique
  <2>1. j \in Int /\ k \in Int /\ i \in Int
    BY <1>1
  <2>2. CASE Owes(e, r)
    <3>1. \A m \in DOMAIN q : ~Owes(q[m], r)
      BY <2>2 DEF InQueue
    <3>2. j = i /\ k = i
      BY <1>1, <1>2, <2>1, <3>1
    <3>3. QED
      BY <3>2
  <2>3. CASE ~Owes(e, r)
    <3>1. j # i /\ k # i
      BY <1>2, <2>3
    <3>2. CASE j < i /\ k < i
      BY <1>1, <1>2, <2>1, <3>2 DEF Unique
    <3>3. CASE j > i /\ k > i
      <4>1. j - 1 = k - 1
        BY <1>1, <1>2, <2>1, <3>3 DEF Unique
      <4>2. QED
        BY <2>1, <4>1
    <3>4. CASE j < i /\ k > i
      <4>1. j = k - 1
        BY <1>1, <1>2, <2>1, <3>4 DEF Unique
      <4>2. QED
        BY <2>1, <3>4, <4>1
    <3>5. CASE j > i /\ k < i
      <4>1. j - 1 = k
        BY <1>1, <1>2, <2>1, <3>5 DEF Unique
      <4>2. QED
        BY <2>1, <3>5, <4>1
    <3>6. QED
      BY <2>1, <3>1, <3>2, <3>3, <3>4, <3>5
  <2>4. QED
    BY <2>2, <2>3
<1>8. QED
  BY <1>4, <1>5, <1>6, <1>7 DEF s

\* Dequeuing takes the claim of the head and leaves the others.
LEMMA TailClaims ==
    ASSUME NEW q \in Seq(Entry), q # <<>>, NEW r \in Req, Unique(q, r)
    PROVE  /\ InQueue(q, r) <=> Owes(Head(q), r) \/ InQueue(Tail(q), r)
           /\ Owes(Head(q), r) => ~InQueue(Tail(q), r)
           /\ Unique(Tail(q), r)
<1> DEFINE t == Tail(q)
<1>1. DOMAIN q = 1 .. Len(q) /\ DOMAIN t = 1 .. Len(q) - 1 /\ Len(q) \in Nat \ {0}
  OBVIOUS
<1>2. Head(q) = q[1] /\ \A i \in DOMAIN t : t[i] = q[i + 1] /\ i + 1 \in DOMAIN q
  BY <1>1
<1>3. \A i \in DOMAIN q : i # 1 => i - 1 \in DOMAIN t /\ t[i - 1] = q[i]
  BY <1>1
<1>4. 1 \in DOMAIN q /\ \A i \in DOMAIN t : i + 1 # 1 /\ i \in Int
  BY <1>1
<1> HIDE DEF t
<1>5. InQueue(q, r) <=> Owes(Head(q), r) \/ InQueue(t, r)
  BY <1>2, <1>3, <1>4 DEF InQueue
<1>6. Owes(Head(q), r) => ~InQueue(t, r)
  BY <1>2, <1>4 DEF InQueue, Unique
<1>7. Unique(t, r)
  <2> SUFFICES ASSUME NEW i \in DOMAIN t, NEW j \in DOMAIN t, Owes(t[i], r), Owes(t[j], r)
               PROVE  i = j
    BY DEF Unique
  <2>1. i + 1 = j + 1
    BY <1>2 DEF Unique
  <2>2. QED
    BY <1>4, <2>1
<1>8. QED
  BY <1>5, <1>6, <1>7 DEF t

Claim(r) ==
    /\ Len(replies[r]) <= 1
    /\ Owes(current, r) \/ InQueue(queue, r) <=> r \in issued /\ replies[r] = <<>>
    /\ Owes(current, r) => ~InQueue(queue, r)
    /\ Unique(queue, r)

LEMMA ClaimDef == ExactlyOnce <=> \A r \in Req : Claim(r)
BY DEF ExactlyOnce, Claim, InQueue, Unique, Pending

LEMMA ClaimDefNext == ExactlyOnce' <=> \A r \in Req : Claim(r)'
BY DEF ExactlyOnce, Claim, InQueue, Unique, Pending

\* enqueue() keeps the queue bounded and in order and its entries known, and
\* hands the claim of the new entry to the queue.
LEMMA EnqueueInv ==
    ASSUME IInv, NEW e \in Entry, e.seq = nextSeq, HasRoom(queue), Enqueue(queue, e),
           issued \subseteq issued', e.req \in issued'
    PROVE  /\ QueueInOrder'
           /\ \A i \in DOMAIN queue' : queue'[i].seq < nextSeq' /\ queue'[i].req \in issued'
           /\ \A r \in Req : Unique(queue, r) /\ ~(Owes(e, r) /\ InQueue(queue, r)) =>
                /\ InQueue(queue', r) <=> Owes(e, r) \/ InQueue(queue, r)
                /\ Unique(queue', r)
<1>1. PICK i \in 1 .. Len(queue) + 1 :
        /\ IsInsertPos(queue, Priority[e.cmd], i)
        /\ queue' = Inserted(queue, e, i)
  BY DEF Enqueue
<1>2. nextSeq' = nextSeq + 1 /\ nextSeq \in Nat /\ queue \in Seq(Entry)
  BY DEF Enqueue, IInv, TypeOK
<1>3. /\ DOMAIN queue' = 1 .. Len(queue) + 1
      /\ Len(queue') = Len(queue) + 1
      /\ \A j \in 1 .. Len(queue) + 1 : queue'[j] =
            IF j < i THEN queue[j] ELSE IF j = i THEN e ELSE queue[j - 1]
  <2> DEFINE t == Inserted(queue, e, i)
  <2>1. /\ t \in Seq(Entry)
        /\ Len(t) = Len(queue) + 1
        /\ \A j \in 1 .. Len(queue) + 1 : t[j] =
              IF j < i THEN queue[j] ELSE IF j = i THEN e ELSE queue[j - 1]
    BY <1>2, InsertedShape
  <2>2. queue' = t
    BY <1>1
  <2> HIDE DEF t
  <2>3. DOMAIN t = 1 .. Len(queue) + 1
    BY <2>1
  <2>4. QED
    BY <2>1, <2>2, <2>3
<1>4. \A j \in DOMAIN queue : queue[j].seq < e.seq /\ queue[j].seq \in Nat /\ queue[j].req \in issued
  <2>1. \A j \in DOMAIN queue : queue[j] \in Entry
    BY <1>2
  <2>2. QED
    BY <2>1, EntryType DEF IInv, Bookkeeping
<1>5. QueueInOrder'
  <2>1. \A j, k \in DOMAIN queue' : j < k => Before(queue'[j], queue'[k])
    <3>1. \A j, k \in DOMAIN queue : j < k => Before(queue[j], queue[k])
      BY DEF IInv, QueueInOrder
    <3>2. QED
      BY <1>1, <1>2, <1>4, <3>1, InsertKeepsOrder
  <2>2. Len(queue') <= QueueMax
    BY <1>2, <1>3, QueueMaxAssumption DEF HasRoom
  <2>3. QED
    BY <2>1, <2>2 DEF QueueInOrder
<1>6. ASSUME NEW j \in DOMAIN queue'
      PROVE  queue'[j].seq < nextSeq' /\ queue'[j].req \in issued'
  <2>1. \/ j \in DOMAIN queue /\ queue'[j] = queue[j]
        \/ queue'[j] = e
        \/ j - 1 \in DOMAIN queue /\ queue'[j] = queue[j - 1]
    BY <1>2, <1>3
  <2>2. QED
    BY <1>2, <1>4, <2>1
<1>7. ASSUME NEW r \in Req, Unique(queue, r), ~(Owes(e, r) /\ InQueue(queue, r))
      PROVE  /\ InQueue(queue', r) <=> Owes(e, r) \/ InQueue(queue, r)
             /\ Unique(queue', r)
  BY <1>1, <1>2, <1>7, InsertClaims
<1>8. QED
  BY <1>5, <1>6, <1>7

LEMMA AnswerEffect ==
    ASSUME TypeOK, NEW r \in Req, NEW v \in BOOLEAN, Answer(r, v), replies[r] = <<>>
    PROVE  /\ replies'[r] = <<v>>
           /\ \A s \in Req : s # r => replies'[s] = replies[s]
BY DEF TypeOK, Answer

LEMMA OwesFields ==
    ASSUME NEW e \in Entry, NEW r \in Req
    PROVE  Owes(e, r) <=> e.req = r /\ e.callback
BY NoneAssumption DEF Owes

\* A completed command hands its claim on, or cashes it in.
LEMMA CompleteInv ==
    ASSUME IInv, state \in {"SENDING", "WAITING_RESPONSE"},
           NEW ok \in BOOLEAN, CompleteCommand(ok), UNCHANGED issued
    PROVE  (Bookkeeping /\ ExactlyOnce /\ QueueInOrder)'
<1> USE DEF IInv
<1>1. current \in Entry /\ current.req \in Req /\ current.req \in issued /\ current.callback \in BOOLEAN
  <2>1. current \in Entry /\ current.req \in issued
    BY DEF TypeOK, Bookkeeping
  <2>2. QED
    BY <2>1, EntryType
<1>2. current' = None /\ state' = "INTER_DELAY" /\ Callback(current, ok)
  BY DEF CompleteCommand
<1>3. \A r \in Req : ~Owes(current', r)
  BY <1>2 DEF Owes
<1>4. \A r \in Req : Claim(r)
  BY ClaimDef
<1>5. \A r \in Req : Owes(current, r) <=> current.req = r /\ current.callback
  BY <1>1, OwesFields
<1>6. current.callback => replies[current.req] = <<>> /\ ~InQueue(queue, current.req)
  BY <1>1, <1>4, <1>5 DEF Claim
<1> DEFINE Answered ==
             IF current.callback THEN \E v \in BOOLEAN : Answer(current.req, v)
                                 ELSE UNCHANGED replies
<1>7. Answered =>
        /\ \A r \in Req : Owes(current, r) => Len(replies'[r]) <= 1 /\ replies'[r] # <<>>
        /\ \A r \in Req : ~Owes(current, r) => replies'[r] = replies[r]
  <2>1. CASE current.callback
    <3> SUFFICES ASSUME NEW v \in BOOLEAN, Answer(current.req, v)
                 PROVE  /\ \A r \in Req : Owes(current, r) => Len(replies'[r]) <= 1 /\ replies'[r] # <<>>
                        /\ \A r \in Req : ~Owes(current, r) => replies'[r] = replies[r]
      BY <2>1
    <3>1. replies'[current.req] = <<v>>
      BY <1>1, <1>6, <2>1, AnswerEffect
    <3>2. \A r \in Req : r # current.req => replies'[r] = replies[r]
      BY <1>1, <1>6, <2>1, AnswerEffect
    <3>3. Len(<<v>>) <= 1 /\ <<v>> # <<>>
      OBVIOUS
    <3>4. QED
      BY <1>5, <2>1, <3>1, <3>2, <3>3
  <2>2. CASE ~current.callback
    BY <1>5, <2>2
  <2>3. QED
    BY <2>1, <2>2
<1> HIDE DEF Answered
<1>8. ASSUME NEW r \in Req, r \notin issued
      PROVE  ~Owes(current, r)
  BY <1>1, <1>5, <1>8
<1>9. \A r \in Req \ issued : replies[r] = <<>>
  BY DEF Bookkeeping
<1>10. CASE UNCHANGED <<queue, nextSeq>> /\ Answered
  <2>1. ASSUME NEW r \in Req
        PROVE  Claim(r)'
    <3>1. InQueue(queue', r) = InQueue(queue, r) /\ Unique(queue', r) = Unique(queue, r)
      BY <1>10
    <3>2. CASE Owes(current, r)
      BY <1>3, <1>4, <1>7, <1>10, <3>1, <3>2 DEF Claim
    <3>3. CASE ~Owes(current, r)
      BY <1>3, <1>4, <1>7, <1>10, <3>1, <3>3 DEF Claim
    <3>4. QED
      BY <3>2, <3>3
  <2>2. Bookkeeping'
    BY <1>2, <1>7, <1>8, <1>9, <1>10 DEF Bookkeeping
  <2>3. QueueInOrder'
    BY <1>10 DEF QueueInOrder
  <2>4. QED
    BY <2>1, <2>2, <2>3, ClaimDefNext
<1>11. ASSUME NEW c \in Cmd, NEW cb \in BOOLEAN, HasRoom(queue),
              Enqueue(queue, NewEntry(current.req, c, cb)),
              \/ cb = current.callback /\ UNCHANGED replies
              \/ cb = FALSE /\ Answered
       PROVE  (Bookkeeping /\ ExactlyOnce /\ QueueInOrder)'
  <2> DEFINE n == NewEntry(current.req, c, cb)
  <2>1. n \in Entry /\ n.seq = nextSeq /\ n.req = current.req /\ n.callback = cb
    BY <1>1, NewEntryType DEF NewEntry
  <2> HIDE DEF n
  <2>2. \A r \in Req : Owes(n, r) <=> current.req = r /\ cb
    BY <2>1, OwesFields
  <2>3. Enqueue(queue, n) /\ HasRoom(queue)
    BY <1>11 DEF n
  <2>4. issued \subseteq issued' /\ n.req \in issued'
    BY <1>1, <2>1
  <2>5. /\ QueueInOrder'
        /\ \A i \in DOMAIN queue' : queue'[i].seq < nextSeq' /\ queue'[i].req \in issued'
        /\ \A r \in Req : Unique(queue, r) /\ ~(Owes(n, r) /\ InQueue(queue, r)) =>
             /\ InQueue(queue', r) <=> Owes(n, r) \/ InQueue(queue, r)
             /\ Unique(queue', r)
    BY <2>1, <2>3, <2>4, EnqueueInv
  <2>6. \A r \in Req : Owes(n, r) => Owes(current, r)
    BY <1>1, <1>5, <1>11, <2>2
  <2>7. ASSUME NEW r \in Req
        PROVE  Claim(r)'
    <3>1. Unique(queue, r) /\ ~(Owes(n, r) /\ InQueue(queue, r))
      BY <1>4, <2>6 DEF Claim
    <3>2. Unique(queue', r) /\ (InQueue(queue', r) <=> Owes(n, r) \/ InQueue(queue, r))
      BY <2>5, <3>1
    <3>3. CASE cb = current.callback /\ UNCHANGED replies
      BY <1>1, <1>3, <1>4, <1>5, <2>2, <3>2, <3>3 DEF Claim
    <3>4. CASE cb = FALSE /\ Answered
      <4>1. ~Owes(n, r)
        BY <2>2, <3>4
      <4>2. CASE Owes(current, r)
        BY <1>3, <1>4, <1>7, <3>2, <3>4, <4>1, <4>2 DEF Claim
      <4>3. CASE ~Owes(current, r)
        BY <1>3, <1>4, <1>7, <3>2, <3>4, <4>1, <4>3 DEF Claim
      <4>4. QED
        BY <4>2, <4>3
    <3>5. QED
      BY <1>11, <3>3, <3>4
  <2>8. \A r \in Req \ issued : replies'[r] = <<>>
    BY <1>7, <1>8, <1>9, <1>11
  <2>9. Bookkeeping'
    BY <1>2, <2>5, <2>8 DEF Bookkeeping
  <2>10. QED
    BY <2>5, <2>7, <2>9, ClaimDefNext
<1>12. QED
  <2>1. \/ UNCHANGED <<queue, nextSeq>> /\ Answered
        \/ /\ HasRoom(queue)
           /\ \E c \in Cmd : Enqueue(queue, NewEntry(current.req, c, current.callback))
           /\ UNCHANGED replies
        \/ /\ HasRoom(queue)
           /\ \E c \in Cmd : Enqueue(queue, NewEntry(current.req, c, FALSE))
           /\ Answered
    BY <1>1, <1>2, CallbackCases DEF Answered
  <2>2. QED
    BY <1>1, <1>10, <1>11, <2>1

LEMMA InitIInv == Init => IInv
<1> SUFFICES ASSUME Init PROVE IInv
  OBVIOUS
<1>1. TypeOK
  BY InitTypeOK
<1>2. Bookkeeping
  BY DEF Init, Bookkeeping
<1>3. DOMAIN queue = {} /\ Len(queue) = 0 /\ issued = {} /\ current = None
  BY DEF Init
<1>4. QueueInOrder
  BY <1>3, QueueMaxAssumption DEF QueueInOrder
<1>5. \A r \in Req : Claim(r)
  <2>1. \A r \in Req : replies[r] = <<>>
    BY DEF Init
  <2>2. \A r \in Req : Len(replies[r]) <= 1
    <3>1. Len(<<>>) <= 1
      OBVIOUS
    <3>2. QED
      BY <2>1, <3>1
  <2>3. \A r \in Req : ~Owes(current, r) /\ ~InQueue(queue, r) /\ Unique(queue, r)
    BY <1>3 DEF Owes, InQueue, Unique
  <2>4. QED
    BY <1>3, <2>2, <2>3 DEF Claim
<1>6. QED
  BY <1>1, <1>2, <1>4, <1>5, ClaimDef DEF IInv

LEMMA SubmitInv ==
    ASSUME IInv, NEW r \in Req, Submit(r)
    PROVE  IInv'
<1> USE DEF IInv
<1>1. TypeOK'
  BY SubmitTypeOK
<1>2. /\ r \notin issued
      /\ issued' = issued \cup {r}
      /\ UNCHANGED <<state, current>>
  BY DEF Submit
<1>3. \A s \in Req : Claim(s)
  BY ClaimDef
<1>4. replies[r] = <<>> /\ ~Owes(current, r) /\ ~InQueue(queue, r)
  BY <1>2, <1>3 DEF Bookkeeping, Claim
<1>5. \A s \in Req \ issued : replies[s] = <<>>
  BY DEF Bookkeeping
<1>6. CASE HasRoom(queue)
  <2> DEFINE n == NewEntry(r, FirstCmd[OpOf[r]], TRUE)
  <2>1. n \in Entry /\ n.seq = nextSeq /\ n.req = r /\ n.callback
    BY NewEntryType, OpOfAssumption, TablesType DEF NewEntry
  <2>2. Enqueue(queue, n) /\ UNCHANGED replies
    BY <1>6 DEF Submit
  <2> HIDE DEF n
  <2>3. /\ QueueInOrder'
        /\ \A i \in DOMAIN queue' : queue'[i].seq < nextSeq' /\ queue'[i].req \in issued'
        /\ \A s \in Req : Unique(queue, s) /\ ~(Owes(n, s) /\ InQueue(queue, s)) =>
             /\ InQueue(queue', s) <=> Owes(n, s) \/ InQueue(queue, s)
             /\ Unique(queue', s)
    BY <1>2, <1>6, <2>1, <2>2, EnqueueInv
  <2>4. \A s \in Req : Owes(n, s) <=> s = r
    BY <2>1, OwesFields
  <2>5. ASSUME NEW s \in Req
        PROVE  Claim(s)'
    <3>1. Unique(queue', s) /\ (InQueue(queue', s) <=> Owes(n, s) \/ InQueue(queue, s))
      BY <1>3, <1>4, <2>3, <2>4 DEF Claim
    <3>2. CASE s = r
      BY <1>2, <1>3, <1>4, <2>2, <2>4, <3>1, <3>2 DEF Claim
    <3>3. CASE s # r
      BY <1>2, <1>3, <2>2, <2>4, <3>1, <3>3 DEF Claim
    <3>4. QED
      BY <3>2, <3>3
  <2>6. Bookkeeping'
    BY <1>2, <1>5, <2>2, <2>3 DEF Bookkeeping
  <2>7. QED
    BY <1>1, <2>3, <2>5, <2>6, ClaimDefNext
<1>7. CASE ~HasRoom(queue)
  <2>1. Answer(r, FALSE) /\ UNCHANGED <<queue, nextSeq>>
    BY <1>7 DEF Submit
  <2>2. replies'[r] = <<FALSE>> /\ \A s \in Req : s # r => replies'[s] = replies[s]
    BY <1>4, <2>1, AnswerEffect
  <2>3. Len(<<FALSE>>) <= 1 /\ <<FALSE>> # <<>>
    OBVIOUS
  <2>4. ASSUME NEW s \in Req
        PROVE  Claim(s)'
    <3>1. CASE s = r
      BY <1>2, <1>3, <1>4, <2>1, <2>2, <2>3, <3>1 DEF Claim
    <3>2. CASE s # r
      BY <1>2, <1>3, <2>1, <2>2, <3>2 DEF Claim
    <3>3. QED
      BY <3>1, <3>2
  <2>5. Bookkeeping'
    BY <1>2, <1>5, <2>1, <2>2 DEF Bookkeeping
  <2>6. QueueInOrder'
    BY <2>1 DEF QueueInOrder
  <2>7. QED
    BY <1>1, <2>4, <2>5, <2>6, ClaimDefNext
<1>8. QED
  BY <1>6, <1>7

LEMMA DequeueInv ==
    ASSUME IInv, DequeueNext
    PROVE  (Bookkeeping /\ ExactlyOnce /\ QueueInOrder)'
<1> USE DEF IInv
<1>1. /\ queue # <<>> /\ queue \in Seq(Entry)
      /\ queue' = Tail(queue)
      /\ current' = Head(queue)
      /\ current = None
      /\ state' = "SENDING"
      /\ UNCHANGED <<issued, replies, nextSeq>>
  BY DEF DequeueNext, TypeOK, Bookkeeping, callers
<1>2. /\ DOMAIN queue = 1 .. Len(queue) /\ DOMAIN queue' = 1 .. Len(queue) - 1
      /\ Len(queue') = Len(queue) - 1 /\ Len(queue) \in Nat
      /\ \A i \in DOMAIN queue' : queue'[i] = queue[i + 1]
      /\ Head(queue) = queue[1] /\ 1 \in DOMAIN queue
  BY <1>1
<1>3. Head(queue) \in Entry /\ Head(queue) # None
  BY <1>1, NoneAssumption
<1>4. \A r \in Req : Claim(r)
  BY ClaimDef
<1>5. \A r \in Req : ~Owes(current, r)
  BY <1>1 DEF Owes
<1>6. ASSUME NEW r \in Req
      PROVE  Claim(r)'
  <2>1. Unique(queue, r)
    BY <1>4 DEF Claim
  <2>2. /\ InQueue(queue, r) <=> Owes(Head(queue), r) \/ InQueue(Tail(queue), r)
        /\ Owes(Head(queue), r) => ~InQueue(Tail(queue), r)
        /\ Unique(Tail(queue), r)
    BY <1>1, <2>1, TailClaims
  <2>3. QED
    BY <1>1, <1>4, <1>5, <2>2 DEF Claim
<1>7. Bookkeeping'
  BY <1>1, <1>2, <1>3 DEF Bookkeeping
<1>8. QueueInOrder'
  <2>1. \A i, j \in DOMAIN queue' : i < j => Before(queue'[i], queue'[j])
    <3> SUFFICES ASSUME NEW i \in DOMAIN queue', NEW j \in DOMAIN queue', i < j
                 PROVE  Before(queue'[i], queue'[j])
      OBVIOUS
    <3>1. i + 1 \in DOMAIN queue /\ j + 1 \in DOMAIN queue /\ i + 1 < j + 1
      BY <1>2
    <3>2. Before(queue[i + 1], queue[j + 1])
      BY <3>1 DEF QueueInOrder
    <3>3. QED
      BY <1>2, <3>2
  <2>2. Len(queue') <= QueueMax
    BY <1>2, QueueMaxAssumption DEF QueueInOrder
  <2>3. QED
    BY <2>1, <2>2 DEF QueueInOrder
<1>9. QED
  BY <1>6, <1>7, <1>8, ClaimDefNext

\* A step that touches neither the queue nor the callers keeps their invariants.
LEMMA FrameInv ==
    ASSUME IInv, UNCHANGED <<queue, current, nextSeq, issued, replies>>,
           state' \in {"SENDING", "WAITING_RESPONSE"} <=> state \in {"SENDING", "WAITING_RESPONSE"}
    PROVE  (Bookkeeping /\ ExactlyOnce /\ QueueInOrder)'
<1>1. Bookkeeping'
  BY DEF IInv, Bookkeeping
<1>2. ExactlyOnce'
  BY DEF IInv, ExactlyOnce, Pending
<1>3. QueueInOrder'
  BY DEF IInv, QueueInOrder
<1>4. QED
  BY <1>1, <1>2, <1>3

LEMMA TickInv ==
    ASSUME IInv, Tick
    PROVE  IInv'
<1> USE DEF IInv
<1>1. TypeOK'
  BY TickTypeOK
<1>2. CASE DequeueNext
  BY <1>1, <1>2, DequeueInv
<1>3. CASE SendCurrentCommand
  <2>1. CASE WaitsForResponse[current.cmd]
    BY <1>1, <1>3, <2>1, FrameInv DEF SendCurrentCommand
  <2>2. CASE ~WaitsForResponse[current.cmd]
    BY <1>1, <1>3, <2>2, CompleteInv DEF SendCurrentCommand
  <2>3. QED
    BY <2>1, <2>2
<1>4. CASE ReceiveResponse
  <2>1. (ValidEcho /\ rx[Terminator].body = "ok") \in BOOLEAN
    BY DEF ValidEcho
  <2>2. QED
    BY <1>1, <1>4, <2>1, CompleteInv DEF ReceiveResponse
<1>5. CASE ReadPartial
  BY <1>1, <1>5, FrameInv DEF ReadPartial, callers
<1>6. CASE ResponseTimeout
  BY <1>1, <1>6, CompleteInv DEF ResponseTimeout
<1>7. CASE DelayOver
  BY <1>1, <1>7, FrameInv DEF DelayOver, callers
<1>8. QED
  BY <1>2, <1>3, <1>4, <1>5, <1>6, <1>7 DEF Tick

LEMMA EnvironmentInv ==
    ASSUME IInv, DeadlinePasses \/ Robot
    PROVE  IInv'
<1>1. TypeOK'
  BY EnvironmentTypeOK DEF IInv
<1>2. UNCHANGED <<queue, state, current, nextSeq, issued, replies>>
  BY DEF DeadlinePasses, Robot, RobotEcho, RobotEnd, RobotGiveUp, RobotSilent, callers
<1>3. QED
  BY <1>1, <1>2, FrameInv DEF IInv

LEMMA StutterInv ==
    ASSUME IInv, UNCHANGED vars
    PROVE  IInv'
<1>1. TypeOK'
  BY DEF IInv, TypeOK, vars
<1>2. UNCHANGED <<queue, state, current, nextSeq, issued, replies>>
  BY DEF vars
<1>3. QED
  BY <1>1, <1>2, FrameInv DEF IInv

(* The inductive invariant: types, exactly-once completion, the order and   *)
(* the bound of the queue, and the bookkeeping that ties them together hold *)
(* for every set of callers, whatever the robot does.                       *)
THEOREM Invariance == Spec => []IInv
<1>1. Init => IInv
  BY InitIInv
<1>2. IInv /\ [Next]_vars => IInv'
  BY SubmitInv, TickInv, EnvironmentInv, StutterInv DEF Next
<1>3. QED
  BY <1>1, <1>2, PTL DEF Spec

(* Every state of the queue, the state machine and the UART is well typed.  *)
THEOREM TypeCorrect == Spec => []TypeOK
BY Invariance, PTL DEF IInv

(* Every accepted call is answered at most once and is never lost: until it *)
(* is answered exactly one entry, waiting or on the wire, can answer it.    *)
THEOREM CompletesExactlyOnce == Spec => []ExactlyOnce
BY Invariance, PTL DEF IInv

(* The queue stays within NEATO_QUEUE_MAX_SIZE and in priority-then-        *)
(* submission order, re-entrant enqueues from callbacks included.           *)
THEOREM QueueStaysInOrder == Spec => []QueueInOrder
BY Invariance, PTL DEF IInv

-----------------------------------------------------------------------------
(* Success rests on an echo: what the robot has begun to answer covers what *)
(* the chains have tested so far.                                          *)

LEMMA ChainStep ==
    ASSUME NEW o \in Op, NEW c \in Chain(o), NEW ok \in BOOLEAN
    PROVE  LET next == NextCmd(o, c, ok)
           IN  /\ next # None /\ ~AnswersNow(o, c, ok) =>
                    /\ next \in Chain(o)
                    /\ \A x \in TestedBefore(o, next) :
                          x \in TestedBefore(o, c) \/ (ok /\ x = c /\ WaitsForResponse[c])
               /\ next = None /\ ok =>
                    \A x \in Tested(o) :
                          x \in TestedBefore(o, c) \/ (x = c /\ WaitsForResponse[c])
<1>1. c \in Cmd
  BY DEF Chain, Tested, Op, Cmd
<1>2. WaitsForResponse[c] <=> c # "SystemMode"
  BY <1>1 DEF WaitsForResponse
<1>3. None \notin Cmd
  BY NoneAssumption
<1>4. CASE o \in {"wheelsStop", "wheelsMove", "testModeOn", "getState"}
  BY <1>2, <1>3, <1>4 DEF Chain, Tested, TestedBefore, NextCmd, AnswersNow, Cmd
<1>5. CASE o = "brushOn"
  BY <1>2, <1>3, <1>5 DEF Chain, Tested, TestedBefore, NextCmd, AnswersNow, Cmd
<1>6. CASE o = "newBattery"
  BY <1>2, <1>3, <1>6 DEF Chain, Tested, TestedBefore, NextCmd, AnswersNow, Cmd
<1>7. CASE o = "powerCycle"
  BY <1>2, <1>3, <1>7 DEF Chain, Tested, TestedBefore, NextCmd, AnswersNow, Cmd
<1>8. QED
  BY <1>4, <1>5, <1>6, <1>7 DEF Op

LEMMA ChainStart ==
    ASSUME NEW o \in Op
    PROVE  FirstCmd[o] \in Chain(o) /\ TestedBefore(o, FirstCmd[o]) = {}
BY DEF FirstCmd, Chain, Tested, TestedBefore, Op

LEMMA InChainGrows ==
    ASSUME NEW e, NEW heard, NEW more, heard \subseteq more, InChain(e, heard)
    PROVE  InChain(e, more)
BY DEF InChain

\* The entries of a queue after an insertion are the old ones and the new one.
LEMMA EnqueueKeeps ==
    ASSUME TypeOK, NEW e \in Entry, Enqueue(queue, e), NEW heard,
           InChain(e, heard), \A i \in DOMAIN queue : InChain(queue[i], heard)
    PROVE  \A i \in DOMAIN queue' : InChain(queue'[i], heard)
<1>1. PICK i \in 1 .. Len(queue) + 1 : queue' = Inserted(queue, e, i)
  BY DEF Enqueue
<1>2. queue \in Seq(Entry)
  BY DEF TypeOK
<1>3. /\ DOMAIN queue' = 1 .. Len(queue) + 1
      /\ \A j \in 1 .. Len(queue) + 1 :
            queue'[j] = IF j < i THEN queue[j] ELSE IF j = i THEN e ELSE queue[j - 1]
  BY <1>1, <1>2, InsertedShape DEF Inserted
<1>4. SUFFICES ASSUME NEW j \in 1 .. Len(queue) + 1
               PROVE  InChain(queue'[j], heard)
  BY <1>3
<1>5. DOMAIN queue = 1 .. Len(queue) /\ Len(queue) \in Nat
  BY <1>2
<1>6. CASE j < i
  BY <1>3, <1>5, <1>6
<1>7. CASE j = i
  BY <1>3, <1>7
<1>8. CASE j > i
  <2>1. queue'[j] = queue[j - 1] /\ j - 1 \in DOMAIN queue
    BY <1>3, <1>5, <1>8
  <2>2. QED
    BY <2>1
<1>9. QED
  BY <1>6, <1>7, <1>8

\* A success needs the echo of the command it completes; everything after the
\* first command of a chain then has what it needs before it.
LEMMA CompleteEchoed ==
    ASSUME IInv, ChainsTested, OkMeansEchoed, state \in {"SENDING", "WAITING_RESPONSE"},
           NEW ok \in BOOLEAN, CompleteCommand(ok), UNCHANGED <<issued, echoed>>,
           ok /\ WaitsForResponse[current.cmd] => Verb[current.cmd] \in echoed
    PROVE  ChainsTested' /\ OkMeansEchoed' /\ echo' = None
<1> USE DEF IInv
<1> DEFINE e == current
           o == OpOf[e.req]
           next == NextCmd(o, e.cmd, ok)
           now == AnswersNow(o, e.cmd, ok)
<1>1. /\ e \in Entry /\ e # None /\ e.req \in Req /\ e.req \in issued
      /\ e.cmd \in Cmd /\ e.callback \in BOOLEAN
  <2>1. current \in Entry /\ current.req \in issued
    BY DEF TypeOK, Bookkeeping
  <2>2. QED
    BY <2>1, EntryType, NoneAssumption
<1>2. o \in Op
  BY <1>1, OpOfAssumption
<1>3. next \in Cmd \cup {None} /\ now \in BOOLEAN
  BY <1>1, <1>2, NextCmdType
<1>4. InChain(e, echoed)
  BY <1>1 DEF ChainsTested
<1>5. Callback(e, ok) /\ current' = None /\ echo' = None
  BY DEF CompleteCommand
<1>6. ChainsTested'
  <2>1. \A i \in DOMAIN queue : InChain(queue[i], echoed)
    BY DEF ChainsTested
  <2>2. \A i \in DOMAIN queue' : InChain(queue'[i], echoed)
    <3>1. CASE next # None /\ HasRoom(queue)
      <4> DEFINE n == NewEntry(e.req, next, PassesOn(e, now))
      <4>1. Enqueue(queue, n)
        BY <1>5, <3>1 DEF Callback
      <4>2. next \in Cmd /\ PassesOn(e, now) \in BOOLEAN
        BY <1>1, <1>3, <3>1 DEF PassesOn
      <4>3. n \in Entry
        BY <1>1, <4>2, NewEntryType
      <4>4. n.req = e.req /\ n.cmd = next /\ n.callback = PassesOn(e, now)
        BY DEF NewEntry
      <4>5. InChain(n, echoed)
        <5>1. SUFFICES ASSUME n.callback
                       PROVE  /\ next \in Chain(o)
                              /\ \A c \in TestedBefore(o, next) : Verb[c] \in echoed
          BY <4>4 DEF InChain
        <5>2. ~now /\ e.callback
          BY <4>4, <5>1 DEF PassesOn
        <5>3. /\ e.cmd \in Chain(o)
              /\ \A c \in TestedBefore(o, e.cmd) : Verb[c] \in echoed
          BY <1>4, <5>2 DEF InChain
        <5>4. /\ next \in Chain(o)
              /\ \A x \in TestedBefore(o, next) :
                    x \in TestedBefore(o, e.cmd) \/ (ok /\ x = e.cmd /\ WaitsForResponse[e.cmd])
          BY <1>2, <3>1, <5>2, <5>3, ChainStep
        <5>5. QED
          BY <5>3, <5>4
      <4>6. QED
        BY <2>1, <4>1, <4>3, <4>5, EnqueueKeeps
    <3>2. CASE ~(next # None /\ HasRoom(queue))
      BY <1>5, <2>1, <3>2 DEF Callback
    <3>3. QED
      BY <3>1, <3>2
  <2>3. QED
    BY <1>5, <2>2 DEF ChainsTested
<1>7. OkMeansEchoed'
  <2>1. CASE AnswersCaller(e, now)
    <3> DEFINE v == ok /\ next = None
    <3>1. e.callback /\ v \in BOOLEAN /\ Answer(e.req, v)
      BY <1>1, <1>5, <2>1 DEF Callback, AnswersCaller
    <3>2. replies[e.req] = <<>>
      <4>1. Owes(current, e.req)
        BY <1>1, <3>1 DEF Owes
      <4>2. QED
        BY <1>1, <4>1 DEF ExactlyOnce, Pending
    <3>3. /\ replies'[e.req] = <<v>>
          /\ \A s \in Req : s # e.req => replies'[s] = replies[s]
      BY <1>1, <3>1, <3>2, AnswerEffect
    <3>4. v => \A x \in Tested(o) : Verb[x] \in echoed
      <4>1. /\ e.cmd \in Chain(o)
            /\ \A c \in TestedBefore(o, e.cmd) : Verb[c] \in echoed
        BY <1>4, <3>1 DEF InChain
      <4>2. v => \A x \in Tested(o) :
                    x \in TestedBefore(o, e.cmd) \/ (x = e.cmd /\ WaitsForResponse[e.cmd])
        BY <1>2, <4>1, ChainStep
      <4>3. QED
        BY <4>1, <4>2
    <3>5. <<v>> = <<TRUE>> => v
      OBVIOUS
    <3>6. QED
      BY <3>3, <3>4, <3>5 DEF OkMeansEchoed
  <2>2. CASE ~AnswersCaller(e, now)
    BY <1>5, <2>2 DEF Callback, OkMeansEchoed
  <2>3. QED
    BY <2>1, <2>2
<1>8. QED
  BY <1>5, <1>6, <1>7

LEMMA NothingIn == \A i \in DOMAIN <<>> : FALSE
OBVIOUS

LEMMA InitEInv == Init => EInv
<1> SUFFICES ASSUME Init PROVE EInv
  OBVIOUS
<1>1. \A r \in Req : replies[r] # <<TRUE>>
  BY DEF Init
<1>2. QED
  BY <1>1, NothingIn DEF Init, EInv, EchoesAreReal, ChainsTested, OkMeansEchoed

LEMMA SubmitEInv ==
    ASSUME IInv, EInv, NEW r \in Req, Submit(r)
    PROVE  EInv'
<1> USE DEF IInv, EInv
<1>1. EchoesAreReal'
  BY DEF Submit, robot, EchoesAreReal
<1>2. UNCHANGED <<current, echoed>> /\ r \notin issued
  BY DEF Submit, robot
<1>3. CASE HasRoom(queue)
  <2> DEFINE n == NewEntry(r, FirstCmd[OpOf[r]], TRUE)
  <2>1. Enqueue(queue, n) /\ UNCHANGED replies
    BY <1>3 DEF Submit
  <2>2. OpOf[r] \in Op /\ FirstCmd[OpOf[r]] \in Cmd
    BY OpOfAssumption, TablesType
  <2>3. n \in Entry /\ n.req = r /\ n.cmd = FirstCmd[OpOf[r]]
    BY <2>2, NewEntryType DEF NewEntry
  <2>4. InChain(n, echoed)
    BY <2>2, <2>3, ChainStart DEF InChain
  <2>5. \A i \in DOMAIN queue' : InChain(queue'[i], echoed)
    BY <2>1, <2>3, <2>4, EnqueueKeeps DEF ChainsTested
  <2>6. QED
    BY <1>1, <1>2, <2>1, <2>5 DEF ChainsTested, OkMeansEchoed
<1>4. CASE ~HasRoom(queue)
  <2>1. Answer(r, FALSE) /\ UNCHANGED queue
    BY <1>4 DEF Submit
  <2>2. replies[r] = <<>>
    BY <1>2 DEF Bookkeeping
  <2>3. replies'[r] = <<FALSE>> /\ \A s \in Req : s # r => replies'[s] = replies[s]
    BY <2>1, <2>2, AnswerEffect
  <2>4. <<FALSE>> # <<TRUE>>
    OBVIOUS
  <2>5. QED
    BY <1>1, <1>2, <2>1, <2>3, <2>4 DEF ChainsTested, OkMeansEchoed
<1>5. QED
  BY <1>3, <1>4

LEMMA TickEInv ==
    ASSUME IInv, EInv, Tick
    PROVE  EInv'
<1> USE DEF IInv, EInv
<1>1. CASE DequeueNext
  <2>1. /\ queue \in Seq(Entry) /\ queue # <<>>
        /\ current' = Head(queue) /\ queue' = Tail(queue) /\ echo' = None
        /\ UNCHANGED <<rx, replies, replying, echoed>>
    BY <1>1 DEF DequeueNext, TypeOK, callers, robot
  <2>2. /\ Head(queue) = queue[1] /\ 1 \in DOMAIN queue
        /\ \A i \in DOMAIN Tail(queue) : i + 1 \in DOMAIN queue /\ Tail(queue)[i] = queue[i + 1]
    BY <2>1
  <2>3. ChainsTested'
    <3>1. \A i \in DOMAIN queue : InChain(queue[i], echoed)
      BY DEF ChainsTested
    <3>2. InChain(Head(queue), echoed) /\ \A i \in DOMAIN Tail(queue) : InChain(Tail(queue)[i], echoed)
      BY <2>2, <3>1
    <3>3. QED
      BY <2>1, <3>2 DEF ChainsTested
  <2>4. QED
    BY <2>1, <2>3 DEF EchoesAreReal, OkMeansEchoed
<1>2. CASE SendCurrentCommand
  <2>1. rx' = <<>> /\ UNCHANGED <<issued, replying, echoed>> /\ state = "SENDING"
    BY <1>2 DEF SendCurrentCommand
  <2>2. CASE WaitsForResponse[current.cmd]
    BY <1>2, <2>1, <2>2, NothingIn DEF SendCurrentCommand, EchoesAreReal, ChainsTested, OkMeansEchoed
  <2>3. CASE ~WaitsForResponse[current.cmd]
    <3>1. CompleteCommand(TRUE)
      BY <1>2, <2>3 DEF SendCurrentCommand
    <3>2. ChainsTested' /\ OkMeansEchoed' /\ echo' = None
      BY <2>1, <2>3, <3>1, CompleteEchoed
    <3>3. QED
      BY <2>1, <3>2 DEF EchoesAreReal
  <2>4. QED
    BY <2>2, <2>3
<1>3. CASE ReceiveResponse
  <2> DEFINE ok == ValidEcho /\ rx[Terminator].body = "ok"
  <2>1. /\ CompleteCommand(ok) /\ ok \in BOOLEAN /\ state = "WAITING_RESPONSE"
        /\ UNCHANGED <<issued, replying, echoed>>
        /\ rx' = <<>> \/ rx' = SubSeq(rx, Terminator + 1, Len(rx))
    BY <1>3 DEF ReceiveResponse, ValidEcho, robot
  <2>2. ValidEcho => Verb[current.cmd] \in echoed
    <3>1. EchoHeard # None => Verb[EchoHeard.cmd] \in echoed
      BY DEF EchoHeard, EchoesAreReal, TypeOK
    <3>2. QED
      BY <3>1 DEF ValidEcho
  <2>3. ChainsTested' /\ OkMeansEchoed' /\ echo' = None
    BY <2>1, <2>2, CompleteEchoed
  <2>4. \A i \in DOMAIN rx' : \E j \in DOMAIN rx : rx'[i] = rx[j]
    <3>1. rx \in Seq(Token) /\ Terminator \in Nat
      BY TokenType DEF TypeOK
    <3>2. CASE rx' = <<>>
      BY <3>2
    <3>3. CASE rx' = SubSeq(rx, Terminator + 1, Len(rx))
      <4>1. \A i \in DOMAIN rx' : rx'[i] = rx[Terminator + i] /\ Terminator + i \in DOMAIN rx
        BY <3>1, <3>3
      <4>2. QED
        BY <4>1
    <3>4. QED
      BY <2>1, <3>2, <3>3
  <2>5. EchoesAreReal'
    BY <2>1, <2>3, <2>4 DEF EchoesAreReal
  <2>6. QED
    BY <2>3, <2>5
<1>4. CASE ReadPartial
  <2>1. /\ echo' = EchoHeard /\ rx' = <<>>
        /\ UNCHANGED <<queue, current, replies, replying, echoed>>
    BY <1>4 DEF ReadPartial, callers, robot
  <2>2. EchoHeard # None => Verb[EchoHeard.cmd] \in echoed
    BY DEF EchoHeard, EchoesAreReal, TypeOK
  <2>3. QED
    BY <2>1, <2>2, NothingIn DEF EchoesAreReal, ChainsTested, OkMeansEchoed
<1>5. CASE ResponseTimeout
  <2>1. /\ CompleteCommand(FALSE) /\ state = "WAITING_RESPONSE" /\ rx' = <<>>
        /\ UNCHANGED <<issued, replying, echoed>>
    BY <1>5 DEF ResponseTimeout, robot
  <2>2. ChainsTested' /\ OkMeansEchoed' /\ echo' = None
    BY <2>1, CompleteEchoed
  <2>3. QED
    BY <2>1, <2>2 DEF EchoesAreReal
<1>6. CASE DelayOver
  BY <1>6 DEF DelayOver, callers, robot, EchoesAreReal, ChainsTested, OkMeansEchoed
<1>7. QED
  BY <1>1, <1>2, <1>3, <1>4, <1>5, <1>6 DEF Tick

\* What the robot sends it has begun; what it has begun it does not take back.
LEMMA RobotEInv ==
    ASSUME IInv, EInv, DeadlinePasses \/ Robot
    PROVE  EInv'
<1> USE DEF IInv, EInv
<1>1. UNCHANGED <<queue, current, echo, replies>>
  BY DEF DeadlinePasses, Robot, RobotEcho, RobotEnd, RobotGiveUp, RobotSilent, callers
<1>2. echoed \subseteq echoed'
  BY DEF DeadlinePasses, Robot, RobotEcho, RobotEnd, RobotGiveUp, RobotSilent, robot
<1>3. ChainsTested' /\ OkMeansEchoed'
  <2>1. ChainsTested'
    BY <1>1, <1>2, InChainGrows DEF ChainsTested
  <2>2. QED
    BY <1>1, <1>2, <2>1 DEF OkMeansEchoed
<1>4. rx \in Seq(Token)
  BY DEF TypeOK
<1>5. ASSUME NEW body \in Body, RobotEcho(body)
      PROVE  EchoesAreReal'
  <2> DEFINE e == Head(inbox)
             t == [kind |-> "echo", from |-> e, body |-> body]
  <2>1. /\ rx' = Append(rx, t) /\ replying' = [t EXCEPT !.kind = "end"]
        /\ echoed' = echoed \cup {Verb[e.cmd]}
    BY <1>5 DEF RobotEcho
  <2>2. \A i \in DOMAIN rx' : rx'[i] = t \/ (i \in DOMAIN rx /\ rx'[i] = rx[i])
    <3> HIDE DEF t
    <3>1. DOMAIN rx = 1 .. Len(rx) /\ DOMAIN rx' = 1 .. Len(rx) + 1
      BY <1>4, <2>1
    <3>2. QED
      BY <1>4, <2>1, <3>1
  <2>3. t.from = e /\ replying'.kind = "end"
    BY <2>1
  <2>4. QED
    BY <1>1, <1>2, <2>1, <2>2, <2>3 DEF EchoesAreReal
<1>6. CASE RobotEnd
  <2>1. rx' = Append(rx, replying) /\ replying.kind = "end" /\ replying' = None /\ UNCHANGED echoed
    BY <1>6 DEF RobotEnd, EchoesAreReal
  <2>2. \A i \in DOMAIN rx' : rx'[i] = replying \/ (i \in DOMAIN rx /\ rx'[i] = rx[i])
    <3>1. DOMAIN rx = 1 .. Len(rx) /\ DOMAIN rx' = 1 .. Len(rx) + 1
      BY <1>4, <2>1
    <3>2. QED
      BY <1>4, <2>1, <3>1
  <2>3. QED
    BY <1>1, <1>3, <2>1, <2>2 DEF EchoesAreReal
<1>7. CASE RobotGiveUp
  BY <1>1, <1>3, <1>7 DEF RobotGiveUp, EchoesAreReal
<1>8. ASSUME NEW done \in BOOLEAN, RobotSilent(done)
      PROVE  EchoesAreReal'
  BY <1>1, <1>8 DEF RobotSilent, EchoesAreReal
<1>9. CASE DeadlinePasses
  BY <1>1, <1>3, <1>9 DEF DeadlinePasses, robot, EchoesAreReal
<1>10. QED
  BY <1>3, <1>5, <1>6, <1>7, <1>8, <1>9 DEF Robot

LEMMA StutterEInv ==
    ASSUME EInv, UNCHANGED vars
    PROVE  EInv'
BY DEF EInv, vars, EchoesAreReal, ChainsTested, OkMeansEchoed

(* No success is reported on the strength of a reply to another kind of     *)
(* command, however late and in whatever pieces replies come: the robot     *)
(* began one to each command that completeCommand()'s chains test.          *)
THEOREM SuccessIsEchoed == Spec => []OkMeansEchoed
<1>1. Init => EInv
  BY InitEInv
<1>2. IInv /\ EInv /\ [Next]_vars => EInv'
  BY SubmitEInv, TickEInv, RobotEInv, StutterEInv DEF Next
<1>3. EInv => OkMeansEchoed
  BY DEF EInv
<1>4. QED
  BY <1>1, <1>2, <1>3, Invariance, PTL DEF Spec

-----------------------------------------------------------------------------
(* What the order of the queue means for what is transmitted.              *)

LEMMA DequeueTakesMostUrgent ==
    ASSUME IInv, [Next]_vars
    PROVE  state = "IDLE" /\ state' = "SENDING" =>
             \A i \in DOMAIN queue : queue[i] = current' \/ Before(current', queue[i])
<1> SUFFICES ASSUME state = "IDLE", state' = "SENDING", NEW i \in DOMAIN queue
             PROVE  queue[i] = current' \/ Before(current', queue[i])
  OBVIOUS
<1>1. DequeueNext
  <2>1. \A r \in Req : ~Submit(r)
    BY DEF Submit
  <2>2. ~DeadlinePasses /\ ~Robot /\ ~UNCHANGED vars
    BY DEF DeadlinePasses, Robot, RobotEcho, RobotEnd, RobotGiveUp, RobotSilent, vars
  <2>3. ~SendCurrentCommand /\ ~ReceiveResponse /\ ~ReadPartial /\ ~ResponseTimeout /\ ~DelayOver
    BY DEF SendCurrentCommand, ReceiveResponse, ReadPartial, ResponseTimeout, DelayOver
  <2>4. QED
    BY <2>1, <2>2, <2>3 DEF Next, Tick
<1>2. queue \in Seq(Entry) /\ queue # <<>> /\ current' = queue[1]
  BY <1>1 DEF DequeueNext, IInv, TypeOK
<1>3. i = 1 \/ (1 \in DOMAIN queue /\ 1 < i)
  BY <1>2
<1>4. QED
  BY <1>2, <1>3 DEF IInv, QueueInOrder

(* The command taken from the queue is always the most urgent one, and the  *)
(* oldest of these: a stop is never held up by anything queued behind it.   *)
THEOREM TransmitsMostUrgentFirst == Spec => MostUrgentFirst
<1>1. IInv /\ [Next]_vars =>
        [state = "IDLE" /\ state' = "SENDING" =>
           \A i \in DOMAIN queue : queue[i] = current' \/ Before(current', queue[i])]_vars
  BY DequeueTakesMostUrgent
<1>2. QED
  BY <1>1, Invariance, PTL DEF Spec, MostUrgentFirst

-----------------------------------------------------------------------------
(* The refinement.                                                         *)

LEMMA PhaseValues ==
    ASSUME NEW r \in Req
    PROVE  /\ replies[r] = <<>> /\ r \notin issued => Phase(r) = "idle"
           /\ replies[r] = <<>> /\ r \in issued => Phase(r) = "open"
           /\ \A v \in BOOLEAN : replies[r] = <<v>> => Phase(r) = IF v THEN "ok" ELSE "failed"
<1>1. <<>> # <<TRUE>> /\ <<>> # <<FALSE>> /\ <<TRUE>> # <<FALSE>>
  OBVIOUS
<1>2. QED
  BY <1>1 DEF Phase

LEMMA PhaseValuesNext ==
    ASSUME NEW r \in Req
    PROVE  /\ replies'[r] = <<>> /\ r \in issued' => Phase(r)' = "open"
           /\ \A v \in BOOLEAN : replies'[r] = <<v>> => Phase(r)' = IF v THEN "ok" ELSE "failed"
<1>1. <<>> # <<TRUE>> /\ <<>> # <<FALSE>> /\ <<TRUE>> # <<FALSE>>
  OBVIOUS
<1>2. QED
  BY <1>1 DEF Phase

\* Only the caller whose callback runs learns anything.
LEMMA PhaseFrame ==
    ASSUME NEW r \in Req, NEW p,
           \A s \in Req : s # r => replies'[s] = replies[s] /\ (s \in issued' <=> s \in issued),
           Phase(r)' = p
    PROVE  phaseBar' = [phaseBar EXCEPT ![r] = p]
<1>1. \A s \in Req : s # r => Phase(s)' = Phase(s)
  BY DEF Phase
<1>2. QED
  BY <1>1 DEF phaseBar

LEMMA PhaseStutter ==
    ASSUME UNCHANGED <<replies, issued>>
    PROVE  phaseBar' = phaseBar
BY DEF phaseBar, Phase

\* A completion is the end of a command of its caller's, with or without an
\* answer.
LEMMA CompleteFinishes ==
    ASSUME IInv, state \in {"SENDING", "WAITING_RESPONSE"},
           NEW ok \in BOOLEAN, CompleteCommand(ok), UNCHANGED issued
    PROVE  \E r \in Req : Service!Finish(r)
<1>1. current \in Entry /\ current # None /\ current.req \in Req /\ current.req \in issued
  <2>1. current \in Entry /\ current.req \in issued
    BY DEF IInv, TypeOK, Bookkeeping
  <2>2. QED
    BY <2>1, EntryType, NoneAssumption
<1>2. PICK r \in Req : r = current.req
  BY <1>1
<1>3. busyBar = r /\ busyBar' = None
  BY <1>1, <1>2 DEF busyBar, CompleteCommand
<1>4. \/ UNCHANGED replies
      \/ current.callback /\ \E v \in BOOLEAN : Answer(r, v)
  <2>1. Callback(current, ok)
    BY DEF CompleteCommand
  <2>2. QED
    BY <1>1, <1>2, <2>1, CallbackCases DEF IInv
<1>5. CASE UNCHANGED replies
  BY <1>3, <1>5, PhaseStutter DEF Service!Finish
<1>6. ASSUME NEW v \in BOOLEAN, current.callback, Answer(r, v)
      PROVE  Service!Finish(r)
  <2>1. replies[r] = <<>> /\ r \in issued
    BY <1>1, <1>2, <1>6, ClaimDef, OwesFields DEF IInv, Claim
  <2>2. replies'[r] = <<v>> /\ \A s \in Req : s # r => replies'[s] = replies[s]
    BY <1>6, <2>1, AnswerEffect DEF IInv
  <2>3. phaseBar[r] = "open"
    BY <2>1, PhaseValues DEF phaseBar
  <2>4. Phase(r)' = IF v THEN "ok" ELSE "failed"
    BY <2>2, PhaseValuesNext
  <2>5. phaseBar' = [phaseBar EXCEPT ![r] = IF v THEN "ok" ELSE "failed"]
    BY <2>2, <2>4, PhaseFrame
  <2>6. QED
    BY <1>3, <2>3, <2>5 DEF Service!Finish
<1>7. QED
  BY <1>4, <1>5, <1>6

LEMMA StepSimulation ==
    ASSUME IInv, [Next]_vars
    PROVE  [Service!SNext]_(Service!svars)
<1> USE DEF IInv
<1>1. ASSUME NEW r \in Req, Submit(r)
      PROVE  Service!Call(r)
  <2>1. r \notin issued /\ issued' = issued \cup {r} /\ UNCHANGED current
    BY <1>1 DEF Submit
  <2>2. replies[r] = <<>>
    BY <2>1 DEF Bookkeeping
  <2>3. phaseBar[r] = "idle"
    BY <2>1, <2>2, PhaseValues DEF phaseBar
  <2>4. UNCHANGED busyBar
    BY <2>1 DEF busyBar
  <2>5. CASE HasRoom(queue)
    <3>1. UNCHANGED replies
      BY <1>1, <2>5 DEF Submit
    <3>2. Phase(r)' = "open"
      BY <2>1, <2>2, <3>1, PhaseValuesNext
    <3>3. phaseBar' = [phaseBar EXCEPT ![r] = "open"]
      BY <2>1, <3>1, <3>2, PhaseFrame
    <3>4. QED
      BY <2>3, <2>4, <3>3 DEF Service!Call
  <2>6. CASE ~HasRoom(queue)
    <3>1. Answer(r, FALSE)
      BY <1>1, <2>6 DEF Submit
    <3>2. replies'[r] = <<FALSE>> /\ \A s \in Req : s # r => replies'[s] = replies[s]
      BY <2>2, <3>1, AnswerEffect
    <3>3. Phase(r)' = "failed"
      BY <3>2, PhaseValuesNext
    <3>4. phaseBar' = [phaseBar EXCEPT ![r] = "failed"]
      BY <2>1, <3>2, <3>3, PhaseFrame
    <3>5. QED
      BY <2>3, <2>4, <3>4 DEF Service!Call
  <2>7. QED
    BY <2>5, <2>6
<1>2. ASSUME DequeueNext
      PROVE  \E r \in Req : Service!Begin(r)
  <2>1. /\ queue # <<>> /\ queue \in Seq(Entry) /\ state = "IDLE"
        /\ current' = Head(queue) /\ UNCHANGED <<issued, replies>>
    BY <1>2 DEF DequeueNext, callers, TypeOK
  <2>2. Head(queue) \in Entry /\ 1 \in DOMAIN queue /\ Head(queue) = queue[1]
    BY <2>1
  <2>3. Head(queue) # None /\ Head(queue).req \in Req /\ Head(queue).req \in issued
    BY <2>2, EntryType, NoneAssumption DEF Bookkeeping
  <2>4. PICK r \in Req : r = Head(queue).req
    BY <2>3
  <2>5. busyBar = None /\ busyBar' = r
    BY <2>1, <2>3, <2>4 DEF busyBar, Bookkeeping
  <2>6. phaseBar[r] # "idle"
    BY <2>3, <2>4 DEF phaseBar, Phase
  <2>7. phaseBar' = phaseBar
    BY <2>1, PhaseStutter
  <2>8. QED
    BY <2>5, <2>6, <2>7 DEF Service!Begin
<1>3. ASSUME SendCurrentCommand
      PROVE  UNCHANGED Service!svars \/ \E r \in Req : Service!Finish(r)
  <2>1. CASE WaitsForResponse[current.cmd]
    <3>1. UNCHANGED <<current, issued, replies>>
      BY <1>3, <2>1 DEF SendCurrentCommand
    <3>2. QED
      BY <3>1, PhaseStutter DEF Service!svars, busyBar
  <2>2. CASE ~WaitsForResponse[current.cmd]
    BY <1>3, <2>2, CompleteFinishes DEF SendCurrentCommand
  <2>3. QED
    BY <2>1, <2>2
<1>4. ASSUME ReceiveResponse
      PROVE  \E r \in Req : Service!Finish(r)
  <2>1. (ValidEcho /\ rx[Terminator].body = "ok") \in BOOLEAN
    BY DEF ValidEcho
  <2>2. QED
    BY <1>4, <2>1, CompleteFinishes DEF ReceiveResponse
<1>5. ASSUME ResponseTimeout
      PROVE  \E r \in Req : Service!Finish(r)
  BY <1>5, CompleteFinishes DEF ResponseTimeout
<1>6. ASSUME ReadPartial \/ DelayOver \/ DeadlinePasses \/ Robot \/ UNCHANGED vars
      PROVE  UNCHANGED Service!svars
  <2>1. UNCHANGED <<current, issued, replies>>
    BY <1>6 DEF ReadPartial, DelayOver, DeadlinePasses, Robot, RobotEcho, RobotEnd,
                RobotGiveUp, RobotSilent, callers, vars
  <2>2. QED
    BY <2>1, PhaseStutter DEF Service!svars, busyBar
<1>7. QED
  BY <1>1, <1>2, <1>3, <1>4, <1>5, <1>6 DEF Next, Tick, Service!SNext

(* The queue implements CommandService: whatever the robot, the clock and   *)
(* the other callers do, a caller sees one call, one verdict, and one       *)
(* command on the wire at a time.                                           *)
THEOREM Implements == Spec => ImplementsService
<1>1. Init => Service!SInit
  <2> SUFFICES ASSUME Init PROVE Service!SInit
    OBVIOUS
  <2>1. \A r \in Req : Phase(r) = "idle"
    BY PhaseValues DEF Init
  <2>2. busyBar = None
    BY DEF Init, busyBar
  <2>3. QED
    BY <2>1, <2>2 DEF Service!SInit, phaseBar
<1>2. IInv /\ [Next]_vars => [Service!SNext]_(Service!svars)
  BY StepSimulation
<1>3. QED
  BY <1>1, <1>2, Invariance, PTL DEF Spec, ImplementsService, Service!SSpec
=============================================================================
