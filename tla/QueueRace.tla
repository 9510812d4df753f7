----------------------------- MODULE QueueRace -----------------------------
(***************************************************************************)
(* enqueue() and dequeueNext() of firmware/src/neato_serial.cpp, step by   *)
(* step, called from the two tasks that call them: the Arduino loop (tick  *)
(* and completion callbacks) and the web server's task (HTTP handlers).    *)
(* The queue has no lock.  Each access to the vector is taken to be one    *)
(* step that does what it says on the vector as it then is, which is the   *)
(* best an unlocked std::vector can do.                                    *)
(***************************************************************************)
EXTENDS Naturals, Sequences, FiniteSets, SequencesExt

CONSTANTS
    LoopCmds, WebCmds,  \* the commands each task enqueues
    Priority,           \* of each of them
    QueueMax,           \* NEATO_QUEUE_MAX_SIZE
    None                \* no command

Cmds == LoopCmds \cup WebCmds
Task == {"loop", "web"}
CmdsOf(t) == IF t = "loop" THEN LoopCmds ELSE WebCmds

VARIABLES
    queue,      \* the vector
    pc,         \* where each task is: "rest", "admitted", "placed", "copied"
    arg,        \* the command each is enqueueing, or the loop has copied
    it,         \* the position each is to insert at
    asked,      \* commands enqueue() has been called for
    accepted,   \* those it returned true for
    sent        \* the commands taken off the queue, in order

vars == <<queue, pc, arg, it, asked, accepted, sent>>

Init ==
    /\ queue = <<>>
    /\ pc = [t \in Task |-> "rest"]
    /\ arg = [t \in Task |-> None]
    /\ it = [t \in Task |-> 0]
    /\ asked = {}
    /\ accepted = {}
    /\ sent = <<>>

At(t, label) == pc[t] = label

Goto(t, label) == pc' = [pc EXCEPT ![t] = label]

\* enqueue(): the size test.
Admit(t, c) ==
    /\ At(t, "rest")
    /\ c \in CmdsOf(t) \ asked
    /\ asked' = asked \cup {c}
    /\ IF Len(queue) < QueueMax
       THEN Goto(t, "admitted") /\ arg' = [arg EXCEPT ![t] = c]
       ELSE UNCHANGED <<pc, arg>>
    /\ UNCHANGED <<queue, it, accepted, sent>>

\* The scan for the first less urgent entry.
Place(t) ==
    /\ At(t, "admitted")
    /\ LET less == {i \in DOMAIN queue : Priority[queue[i]] > Priority[arg[t]]}
       IN  it' = [it EXCEPT ![t] = IF less = {} THEN Len(queue) + 1
                                   ELSE CHOOSE i \in less : \A j \in less : i <= j]
    /\ Goto(t, "placed")
    /\ UNCHANGED <<queue, arg, asked, accepted, sent>>

\* The insertion; a position that has fallen off the end is the end.
Insert(t) ==
    /\ At(t, "placed")
    /\ LET i == IF it[t] > Len(queue) + 1 THEN Len(queue) + 1 ELSE it[t]
       IN  queue' = InsertAt(queue, i, arg[t])
    /\ accepted' = accepted \cup {arg[t]}
    /\ Goto(t, "rest")
    /\ arg' = [arg EXCEPT ![t] = None]
    /\ it' = [it EXCEPT ![t] = 0]
    /\ UNCHANGED <<asked, sent>>

\* dequeueNext(): the copy of the front ...
CopyFront ==
    /\ At("loop", "rest")
    /\ queue # <<>>
    /\ arg' = [arg EXCEPT !["loop"] = Head(queue)]
    /\ Goto("loop", "copied")
    /\ UNCHANGED <<queue, it, asked, accepted, sent>>

\* ... and the erasure of what is then the first.
EraseFront ==
    /\ At("loop", "copied")
    /\ queue' = IF queue = <<>> THEN queue ELSE Tail(queue)
    /\ sent' = Append(sent, arg["loop"])
    /\ arg' = [arg EXCEPT !["loop"] = None]
    /\ Goto("loop", "rest")
    /\ UNCHANGED <<it, asked, accepted>>

Next ==
    \/ \E t \in Task : (\E c \in Cmds : Admit(t, c)) \/ Place(t) \/ Insert(t)
    \/ CopyFront
    \/ EraseFront

Spec == Init /\ [][Next]_vars

-----------------------------------------------------------------------------
(* Properties.                                                             *)

Times(s, c) == Cardinality({i \in DOMAIN s : s[i] = c})

AtRest == \A t \in Task : pc[t] = "rest"

(* Every accepted command is sent exactly once: at rest it is on the queue  *)
(* or has been sent, never both, neither or twice.  Its callback is run as  *)
(* often as it is sent, and a fetcher's must be run exactly once.           *)
SentExactlyOnce ==
    AtRest => \A c \in accepted : Times(queue, c) + Times(sent, c) = 1
=============================================================================
