----------------------------- MODULE AsyncCache -----------------------------
(***************************************************************************)
(* firmware/src/async_cache.h: a cached value with a time to live, at most *)
(* one fetch in flight that later requesters join, and invalidation.       *)
(*                                                                         *)
(* The data the cache holds is a version number of its source, so that     *)
(* stale means smaller; source counts the changes of what is cached (the   *)
(* robot's state, a sensor), up to MaxSource.  fetcher is the environment: *)
(* it reads the source once, some time between the call and the answer, or *)
(* fails, possibly before the call returns (serial queue full).            *)
(***************************************************************************)
EXTENDS Naturals, Sequences, SequencesExt

CONSTANTS
    Reader,     \* the calls of get(), each with its callback
    MaxSource,  \* bound on the changes of the source
    None        \* no value

ASSUME MaxSourceAssumption == MaxSource \in Nat
ASSUME NoneAssumption == None \notin Nat

VARIABLES
    cached, hasValue,  \* the last successful value; hasValue
    fresh,      \* millis() - cachedAt < ttl
    fetching,   \* a fetch is in flight
    waiters,    \* the callbacks it will serve
    delivery,   \* pending: the callbacks still to invoke of a finished fetch
    result,     \* what they are invoked with
    called,     \* calls of get() made so far
    answers,    \* what each callback has been invoked with (history)
    floor,      \* newest version handed out, or expired, before each call (history)
    handedOut,  \* newest version handed out or expired so far (history)
    source,     \* environment: the current version of the data
    sample      \* environment: the version the fetch in flight has read, or None

cache == <<cached, hasValue, fresh, fetching, waiters>>
output == <<delivery, result, answers, handedOut>>
calls == <<called, floor>>
cvars == <<cached, hasValue, fresh, fetching, waiters, delivery, result,
           called, answers, floor, handedOut, source, sample>>

Data == Nat \cup {None}
Result == [ok: BOOLEAN, data: Data]

CTypeOK ==
    /\ cached \in Nat
    /\ hasValue \in BOOLEAN
    /\ fresh \in BOOLEAN
    /\ fetching \in BOOLEAN
    /\ waiters \in Seq(Reader)
    /\ delivery \in Seq(Reader)
    /\ result \in Result
    /\ called \in SUBSET Reader
    /\ answers \in [Reader -> Seq(Result)]
    /\ floor \in [Reader -> Nat]
    /\ handedOut \in Nat
    /\ source \in Nat
    /\ sample \in Data

Failed == [ok |-> FALSE, data |-> None]

CInit ==
    /\ cached = 0
    /\ hasValue = FALSE
    /\ fresh = FALSE
    /\ fetching = FALSE
    /\ waiters = <<>>
    /\ delivery = <<>>
    /\ result = Failed
    /\ called = {}
    /\ answers = [r \in Reader |-> <<>>]
    /\ floor = [r \in Reader |-> 0]
    /\ handedOut = 0
    /\ source = 0
    /\ sample = None

-----------------------------------------------------------------------------
(* get(), one action for each way it can go.                               *)

Answer(r, res) ==
    /\ answers' = [answers EXCEPT ![r] = Append(@, res)]
    /\ handedOut' = IF res.ok /\ res.data > handedOut THEN res.data ELSE handedOut

Call(r) ==
    /\ r \notin called
    /\ called' = called \cup {r}
    /\ floor' = [floor EXCEPT ![r] = handedOut]

IsHit_NoTTL == hasValue   \* mutant: the age of the value is not looked at

IsHit == hasValue /\ fresh

Hit(r) ==
    /\ Call(r)
    /\ IsHit
    /\ Answer(r, [ok |-> TRUE, data |-> cached])
    /\ UNCHANGED <<delivery, result, source, sample>>
    /\ UNCHANGED cache

Join(r) ==
    /\ Call(r)
    /\ ~IsHit
    /\ fetching
    /\ waiters' = Append(waiters, r)
    /\ UNCHANGED <<cached, hasValue, fresh, fetching, source, sample>>
    /\ UNCHANGED output

StartFetch(r) ==
    /\ Call(r)
    /\ ~IsHit
    /\ ~fetching
    /\ fetching' = TRUE
    /\ waiters' = Append(waiters, r)
    /\ sample' = None
    /\ UNCHANGED <<cached, hasValue, fresh, source>>
    /\ UNCHANGED output

\* The fetcher's callback is invoked with false before fetcher() returns.
FetchRefused_KeepsFlag(r) ==   \* mutant: a refused fetch stays "in flight"
    /\ Call(r)
    /\ ~IsHit
    /\ ~fetching
    /\ fetching' = TRUE
    /\ answers' = [x \in Reader |-> IF x \in ToSet(Append(waiters, r))
                                    THEN Append(answers[x], Failed) ELSE answers[x]]
    /\ waiters' = <<>>
    /\ UNCHANGED <<cached, hasValue, fresh, delivery, result, handedOut, source, sample>>

FetchRefused(r) ==
    /\ Call(r)
    /\ ~IsHit
    /\ ~fetching
    /\ answers' = [x \in Reader |-> IF x \in ToSet(Append(waiters, r))
                                    THEN Append(answers[x], Failed) ELSE answers[x]]
    /\ waiters' = <<>>
    /\ UNCHANGED <<cached, hasValue, fresh, fetching, delivery, result, handedOut, source, sample>>

Get(r) == Hit(r) \/ Join(r) \/ StartFetch(r) \/ FetchRefused(r)

-----------------------------------------------------------------------------
(* The fetch completes: the value is stored and the waiters are moved out; *)
(* then their callbacks are invoked one by one, each free to call get()    *)
(* again.                                                                  *)

FetchDone_StoresFailure(ok) ==   \* mutant: the value is stored whether or not ok
    /\ fetching
    /\ delivery = <<>>
    /\ ok => sample # None
    /\ fetching' = FALSE
    /\ cached' = sample
    /\ IF ok THEN hasValue' = TRUE /\ fresh' = TRUE ELSE UNCHANGED <<hasValue, fresh>>
    /\ result' = [ok |-> ok, data |-> IF ok THEN sample ELSE None]
    /\ delivery' = waiters
    /\ waiters' = <<>>
    /\ UNCHANGED <<answers, handedOut, source, sample>>
    /\ UNCHANGED calls

FetchDone(ok) ==
    /\ fetching
    /\ delivery = <<>>
    /\ ok => sample # None
    /\ fetching' = FALSE
    /\ IF ok
       THEN cached' = sample /\ hasValue' = TRUE /\ fresh' = TRUE
       ELSE UNCHANGED <<cached, hasValue, fresh>>
    /\ result' = [ok |-> ok, data |-> IF ok THEN sample ELSE None]
    /\ delivery' = waiters
    /\ waiters' = <<>>
    /\ UNCHANGED <<answers, handedOut, source, sample>>
    /\ UNCHANGED calls

Deliver_ClearsWaiters ==   \* mutant: waiters.clear() after the loop, with no move
    /\ delivery # <<>>
    /\ Answer(Head(delivery), result)
    /\ delivery' = Tail(delivery)
    /\ waiters' = IF Tail(delivery) = <<>> THEN <<>> ELSE waiters
    /\ UNCHANGED <<cached, hasValue, fresh, fetching, result, source, sample>>
    /\ UNCHANGED calls

Deliver ==
    /\ delivery # <<>>
    /\ Answer(Head(delivery), result)
    /\ delivery' = Tail(delivery)
    /\ UNCHANGED <<result, source, sample>>
    /\ UNCHANGED cache
    /\ UNCHANGED calls

\* invalidate()
Invalidate ==
    /\ hasValue' = FALSE
    /\ UNCHANGED <<cached, fresh, fetching, waiters, source, sample>>
    /\ UNCHANGED output
    /\ UNCHANGED calls

-----------------------------------------------------------------------------
(* The environment.                                                        *)

\* The time to live runs out; what calls made from now on may not get is
\* anything older than what the source holds now.
Expire ==
    /\ fresh
    /\ fresh' = FALSE
    /\ handedOut' = IF hasValue THEN source ELSE handedOut
    /\ UNCHANGED <<cached, hasValue, fetching, waiters, delivery, result, answers, source, sample>>
    /\ UNCHANGED calls

Sample ==
    /\ fetching
    /\ sample = None
    /\ sample' = source
    /\ UNCHANGED source
    /\ UNCHANGED cache
    /\ UNCHANGED output
    /\ UNCHANGED calls

Change ==
    /\ source < MaxSource
    /\ source' = source + 1
    /\ UNCHANGED sample
    /\ UNCHANGED cache
    /\ UNCHANGED output
    /\ UNCHANGED calls

CNext ==
    \/ \E r \in Reader : Get(r)
    \/ \E ok \in BOOLEAN : FetchDone(ok)
    \/ Deliver
    \/ Invalidate
    \/ Expire
    \/ Sample
    \/ Change

CSpec == CInit /\ [][CNext]_cvars

\* fetchFunc "must eventually call its callback exactly once"; the delivery is
\* a loop.
CFairSpec ==
    CSpec /\ WF_cvars(\E ok \in BOOLEAN : FetchDone(ok)) /\ WF_cvars(Deliver)

-----------------------------------------------------------------------------
(* Properties.                                                             *)

(* Every callback passed to get() is invoked exactly once: the calls not    *)
(* answered are those on the two lists, each there once, whatever calls of  *)
(* get() are made from callbacks in the middle of a delivery.               *)
AnsweredOnce ==
    /\ \A r \in Reader : Len(answers[r]) <= IF r \in called THEN 1 ELSE 0
    /\ ToSet(waiters) \cup ToSet(delivery) = {r \in called : answers[r] = <<>>}
    /\ ToSet(waiters) \cap ToSet(delivery) = {}
    /\ IsInjective(waiters) /\ IsInjective(delivery)

(* Nobody waits for a fetch that is not in flight, and no fetch is in       *)
(* flight while the cached value could have been served: together, one      *)
(* fetch at a time, none of them for nothing.                               *)
SingleFlight ==
    /\ fetching <=> waiters # <<>>
    /\ hasValue /\ fresh => ~fetching

(* Reads never go back in time: a call made after another was answered, or  *)
(* after the value outlived its time to live, gets nothing older than what  *)
(* was handed out, or was current, by then.                                 *)
MonotonicReads ==
    \A r \in Reader : \A i \in DOMAIN answers[r] :
        answers[r][i].ok => answers[r][i].data >= floor[r]

\* What the proofs add: which of the versions in play are older than which.
Chronology ==
    /\ cached <= source /\ handedOut <= source
    /\ sample # None => sample <= source
    /\ \A r \in Reader : floor[r] <= handedOut
    /\ hasValue /\ fresh => cached >= handedOut
    /\ result.ok => result.data \in Nat
    /\ fetching /\ sample # None =>
        /\ sample >= handedOut
        /\ delivery # <<>> /\ result.ok => sample >= result.data
    /\ delivery # <<>> /\ result.ok =>
        /\ result.data <= cached
        /\ \A r \in ToSet(delivery) : result.data >= floor[r]
    /\ \A r \in Reader : \A i \in DOMAIN answers[r] :
        answers[r][i].ok => answers[r][i].data \in Nat

CIInv == CTypeOK /\ AnsweredOnce /\ SingleFlight /\ Chronology /\ MonotonicReads

(* Every call of get() is answered, if fetchers keep their contract.        *)
GetAnswered == \A r \in Reader : r \in called ~> answers[r] # <<>>
=============================================================================
