---------------------------- MODULE BridgeProofs ---------------------------
(***************************************************************************)
(* Proofs about two parts of the bridge that share no state.               *)
(*                                                                         *)
(* Part 1, the caches: AsyncCache, for every set of callers and every      *)
(* bound on the changes of the source; then StateCache, for every set of   *)
(* readers and of actions and every bound on the changes of the robot's    *)
(* state: a confirmed action is seen by those who ask afterwards.          *)
(*                                                                         *)
(* Part 2, the life cycle: what the boot loader is left with, for any      *)
(* number of browsers, of uploads in any order, of resets and of losses of *)
(* the network.                                                            *)
(***************************************************************************)
EXTENDS StateCache, Lifecycle, Integers, TLAPS

-----------------------------------------------------------------------------
(***************************************************************************)
(* Part 1: the caches.                                                     *)
(***************************************************************************)

(* Sequences as sets.                                                      *)

LEMMA EmptySet == ToSet(<<>>) = {} /\ IsInjective(<<>>)
BY DEF ToSet, IsInjective

LEMMA NoElements ==
    ASSUME NEW S, NEW s \in Seq(S), ToSet(s) = {}
    PROVE  s = <<>>
<1> SUFFICES ASSUME s # <<>> PROVE FALSE
  OBVIOUS
<1>1. 1 \in DOMAIN s
  OBVIOUS
<1>2. s[1] \in ToSet(s)
  BY <1>1 DEF ToSet
<1>3. QED
  BY <1>2

LEMMA AppendSet ==
    ASSUME NEW S, NEW s \in Seq(S), NEW e \in S
    PROVE  /\ Append(s, e) \in Seq(S)
           /\ Append(s, e) # <<>>
           /\ ToSet(Append(s, e)) = ToSet(s) \cup {e}
           /\ IsInjective(s) /\ e \notin ToSet(s) => IsInjective(Append(s, e))
<1> DEFINE t == Append(s, e)
<1>1. /\ t \in Seq(S) /\ t # <<>>
      /\ DOMAIN t = 1 .. Len(s) + 1 /\ DOMAIN s = 1 .. Len(s) /\ Len(s) \in Nat
      /\ t[Len(s) + 1] = e
      /\ \A i \in 1 .. Len(s) : t[i] = s[i]
  OBVIOUS
<1>2. ToSet(t) = ToSet(s) \cup {e}
  <2>1. \A i \in DOMAIN t : t[i] \in ToSet(s) \cup {e}
    BY <1>1 DEF ToSet
  <2>2. \A i \in DOMAIN s : s[i] \in ToSet(t)
    BY <1>1 DEF ToSet
  <2>3. e \in ToSet(t)
    BY <1>1 DEF ToSet
  <2>4. QED
    BY <2>1, <2>2, <2>3 DEF ToSet
<1>3. ASSUME IsInjective(s), e \notin ToSet(s)
      PROVE  IsInjective(t)
  <2>1. \A i \in 1 .. Len(s) : s[i] # e
    BY <1>1, <1>3 DEF ToSet
  <2>2. QED
    BY <1>1, <1>3, <2>1 DEF IsInjective
<1>4. QED
  BY <1>1, <1>2, <1>3

LEMMA TailSet ==
    ASSUME NEW S, NEW s \in Seq(S), s # <<>>, IsInjective(s)
    PROVE  /\ Tail(s) \in Seq(S)
           /\ Head(s) \in S
           /\ Head(s) \in ToSet(s)
           /\ ToSet(Tail(s)) = ToSet(s) \ {Head(s)}
           /\ IsInjective(Tail(s))
<1>1. /\ Tail(s) \in Seq(S) /\ Head(s) = s[1] /\ Head(s) \in S
      /\ Len(s) \in Nat /\ 1 \in DOMAIN s /\ DOMAIN s = 1 .. Len(s)
      /\ DOMAIN Tail(s) = 1 .. Len(s) - 1
      /\ \A i \in 1 .. Len(s) - 1 : Tail(s)[i] = s[i + 1]
  OBVIOUS
<1>2. \A i \in 1 .. Len(s) - 1 : s[i + 1] # s[1]
  BY <1>1 DEF IsInjective
<1>3. \A i \in DOMAIN Tail(s) : Tail(s)[i] \in ToSet(s) \ {Head(s)}
  BY <1>1, <1>2 DEF ToSet
<1>4. \A i \in DOMAIN s : s[i] # Head(s) => s[i] \in ToSet(Tail(s))
  <2> SUFFICES ASSUME NEW i \in DOMAIN s, s[i] # Head(s)
               PROVE  s[i] \in ToSet(Tail(s))
    OBVIOUS
  <2>1. i - 1 \in DOMAIN Tail(s) /\ Tail(s)[i - 1] = s[i]
    BY <1>1
  <2>2. QED
    BY <2>1 DEF ToSet
<1>5. ToSet(Tail(s)) = ToSet(s) \ {Head(s)}
  BY <1>3, <1>4 DEF ToSet
<1>6. IsInjective(Tail(s))
  BY <1>1 DEF IsInjective
<1>7. Head(s) \in ToSet(s)
  BY <1>1 DEF ToSet
<1>8. QED
  BY <1>1, <1>5, <1>6, <1>7

-----------------------------------------------------------------------------
(* The invariant.                                                          *)

LEMMA CInitInv == CInit => CIInv
<1> SUFFICES ASSUME CInit PROVE CIInv
  OBVIOUS
<1>1. <<>> \in Seq(Reader) /\ <<>> \in Seq(Result)
  OBVIOUS
<1>2. CTypeOK
  BY <1>1 DEF CInit, CTypeOK, Failed, Result, Data
<1>3. AnsweredOnce
  BY EmptySet DEF CInit, AnsweredOnce
<1>4. SingleFlight /\ Chronology /\ MonotonicReads
  BY EmptySet DEF CInit, SingleFlight, Chronology, MonotonicReads, Failed
<1>5. QED
  BY <1>2, <1>3, <1>4 DEF CIInv

LEMMA AppendAnswer ==
    ASSUME NEW s \in Seq(Result), NEW x \in Result
    PROVE  /\ Append(s, x) \in Seq(Result)
           /\ Append(s, x) # <<>>
           /\ Len(Append(s, x)) = Len(s) + 1
           /\ \A i \in DOMAIN Append(s, x) :
                \/ Append(s, x)[i] = x
                \/ i \in DOMAIN s /\ Append(s, x)[i] = s[i]
OBVIOUS

\* What invoking the callback of r with x makes of the answers.
LEMMA AnswerShape ==
    ASSUME NEW a \in [Reader -> Seq(Result)], NEW r \in Reader, NEW x \in Result
    PROVE  LET b == [a EXCEPT ![r] = Append(@, x)]
           IN  /\ b \in [Reader -> Seq(Result)]
               /\ b[r] # <<>>
               /\ Len(b[r]) = Len(a[r]) + 1
               /\ \A y \in Reader : y # r => b[y] = a[y]
               /\ \A y \in Reader : \A i \in DOMAIN b[y] :
                    \/ y = r /\ b[y][i] = x
                    \/ i \in DOMAIN a[y] /\ b[y][i] = a[y][i]
<1> DEFINE b == [a EXCEPT ![r] = Append(@, x)]
<1>1. b[r] = Append(a[r], x) /\ \A y \in Reader : y # r => b[y] = a[y]
  OBVIOUS
<1>2. /\ b[r] \in Seq(Result) /\ b[r] # <<>>
      /\ Len(b[r]) = Len(a[r]) + 1
      /\ \A i \in DOMAIN b[r] : b[r][i] = x \/ (i \in DOMAIN a[r] /\ b[r][i] = a[r][i])
  BY <1>1, AppendAnswer
<1>3. b \in [Reader -> Seq(Result)]
  BY <1>1, <1>2
<1>4. QED
  BY <1>1, <1>2, <1>3

\* A refused fetch answers its caller and nobody else.
LEMMA RefusedAnswers ==
    ASSUME CIInv, NEW r \in Reader, FetchRefused(r)
    PROVE  /\ answers' = [answers EXCEPT ![r] = Append(@, Failed)]
           /\ waiters = <<>> /\ waiters' = <<>>
<1>1. waiters = <<>> /\ waiters' = <<>>
  BY DEF CIInv, CTypeOK, SingleFlight, FetchRefused
<1>2. ToSet(Append(waiters, r)) = {r}
  <2>1. ToSet(Append(waiters, r)) = ToSet(waiters) \cup {r}
    BY AppendSet DEF CIInv, CTypeOK
  <2>2. ToSet(waiters) = {}
    BY <1>1, EmptySet
  <2>3. QED
    BY <2>1, <2>2
<1>3. answers' = [answers EXCEPT ![r] = Append(@, Failed)]
  BY <1>2 DEF FetchRefused, CIInv, CTypeOK
<1>4. QED
  BY <1>1, <1>3

LEMMA CTypeStep == CIInv /\ [CNext]_cvars => CTypeOK'
<1> SUFFICES ASSUME CIInv, [CNext]_cvars PROVE CTypeOK'
  OBVIOUS
<1> USE DEF CIInv, CTypeOK, Data, Call, Answer, cache, output, calls
<1>0. Failed \in Result
  BY DEF Failed, Result
<1>1. ASSUME NEW r \in Reader, Hit(r) PROVE CTypeOK'
  <2>1. [ok |-> TRUE, data |-> cached] \in Result
    BY DEF Result
  <2>2. handedOut' \in Nat
    BY <1>1 DEF Hit
  <2>3. answers' \in [Reader -> Seq(Result)]
    BY <1>1, <2>1, AnswerShape DEF Hit
  <2>4. QED
    BY <1>1, <2>2, <2>3 DEF Hit
<1>2. ASSUME NEW r \in Reader, Join(r) PROVE CTypeOK'
  BY <1>2, AppendSet DEF Join
<1>3. ASSUME NEW r \in Reader, StartFetch(r) PROVE CTypeOK'
  BY <1>3, AppendSet DEF StartFetch
<1>4. ASSUME NEW r \in Reader, FetchRefused(r) PROVE CTypeOK'
  <2>0. answers' = [answers EXCEPT ![r] = Append(@, Failed)]
    BY <1>4, RefusedAnswers
  <2>1. answers' \in [Reader -> Seq(Result)]
    BY <1>0, <2>0, AnswerShape
  <2>2. waiters' \in Seq(Reader)
    BY <1>4, RefusedAnswers
  <2>3. QED
    BY <1>4, <2>1, <2>2 DEF FetchRefused
<1>5. ASSUME NEW ok \in BOOLEAN, FetchDone(ok) PROVE CTypeOK'
  <2>1. result' \in Result
    BY <1>5 DEF FetchDone, Result
  <2>2. waiters' \in Seq(Reader)
    BY <1>5 DEF FetchDone
  <2>3. cached' \in Nat /\ hasValue' \in BOOLEAN /\ fresh' \in BOOLEAN
    BY <1>5 DEF FetchDone
  <2>4. QED
    BY <1>5, <2>1, <2>2, <2>3 DEF FetchDone
<1>6. CASE Deliver
  <2>1. Head(delivery) \in Reader /\ Tail(delivery) \in Seq(Reader)
    BY <1>6 DEF Deliver
  <2>2. answers' \in [Reader -> Seq(Result)]
    BY <1>6, <2>1, AnswerShape DEF Deliver
  <2>3. handedOut' \in Nat
    <3>1. result.ok => result.data \in Nat
      BY DEF Chronology
    <3>2. QED
      BY <1>6, <3>1 DEF Deliver
  <2>4. QED
    BY <1>6, <2>1, <2>2, <2>3 DEF Deliver
<1>7. CASE Invalidate
  BY <1>7 DEF Invalidate
<1>8. CASE Expire
  BY <1>8 DEF Expire
<1>9. CASE Sample
  BY <1>9 DEF Sample
<1>10. CASE Change
  BY <1>10 DEF Change
<1>11. CASE UNCHANGED cvars
  BY <1>11 DEF cvars
<1>12. QED
  BY <1>1, <1>2, <1>3, <1>4, <1>5, <1>6, <1>7, <1>8, <1>9, <1>10, <1>11 DEF CNext, Get

\* r is answered, and leaves the open calls if it was one of them.
LEMMA AnswerCounts ==
    ASSUME CIInv, NEW r \in Reader, NEW x \in Result, answers[r] = <<>>,
           called' = called \cup {r},
           answers' = [answers EXCEPT ![r] = Append(@, x)]
    PROVE  /\ \A y \in Reader : Len(answers'[y]) <= IF y \in called' THEN 1 ELSE 0
           /\ {y \in called' : answers'[y] = <<>>} = {y \in called : answers[y] = <<>>} \ {r}
<1> USE DEF CIInv, CTypeOK
<1>1. /\ answers'[r] # <<>> /\ Len(answers'[r]) = 1
      /\ \A y \in Reader : y # r => answers'[y] = answers[y]
  BY AnswerShape
<1>2. \A y \in Reader : Len(answers'[y]) <= IF y \in called' THEN 1 ELSE 0
  BY <1>1 DEF AnsweredOnce
<1>3. QED
  BY <1>1, <1>2

LEMMA AnsweredOnceStep == CIInv /\ [CNext]_cvars => AnsweredOnce'
<1> SUFFICES ASSUME CIInv, [CNext]_cvars PROVE AnsweredOnce'
  OBVIOUS
<1> USE DEF CIInv, CTypeOK
<1> DEFINE Open == {r \in called : answers[r] = <<>>}
<1>0. /\ ToSet(waiters) \cup ToSet(delivery) = Open
      /\ ToSet(waiters) \cap ToSet(delivery) = {}
      /\ IsInjective(waiters) /\ IsInjective(delivery)
      /\ \A r \in Reader : Len(answers[r]) <= IF r \in called THEN 1 ELSE 0
  BY DEF AnsweredOnce
<1>00. \A r \in Reader : r \notin called => answers[r] = <<>>
  BY <1>0
\* A new caller that is answered on the spot was on neither list.
<1>1. ASSUME NEW r \in Reader, NEW x \in Result, Call(r),
             answers' = [answers EXCEPT ![r] = Append(@, x)],
             UNCHANGED <<waiters, delivery>>
      PROVE  AnsweredOnce'
  <2>1. answers[r] = <<>> /\ r \notin Open /\ called' = called \cup {r}
    BY <1>00, <1>1 DEF Call
  <2>2. /\ \A y \in Reader : Len(answers'[y]) <= IF y \in called' THEN 1 ELSE 0
        /\ Open' = Open \ {r}
    BY <1>1, <2>1, AnswerCounts
  <2>3. QED
    BY <1>0, <1>1, <2>1, <2>2 DEF AnsweredOnce
\* A new caller that has to wait joins the list of waiters.
<1>2. ASSUME NEW r \in Reader, Call(r), waiters' = Append(waiters, r),
             UNCHANGED <<answers, delivery>>
      PROVE  AnsweredOnce'
  <2>1. answers[r] = <<>> /\ r \notin called /\ called' = called \cup {r}
    BY <1>00, <1>2 DEF Call
  <2>2. Open' = Open \cup {r} /\ r \notin Open
    BY <1>2, <2>1
  <2>3. r \notin ToSet(waiters) /\ r \notin ToSet(delivery)
    BY <1>0, <2>2
  <2>4. ToSet(waiters') = ToSet(waiters) \cup {r} /\ IsInjective(waiters')
    BY <1>0, <1>2, <2>3, AppendSet
  <2>5. \A y \in Reader : Len(answers'[y]) <= IF y \in called' THEN 1 ELSE 0
    BY <1>0, <1>2, <2>1
  <2>6. QED
    BY <1>0, <1>2, <2>2, <2>3, <2>4, <2>5 DEF AnsweredOnce
\* Steps that concern no call.
<1>3. ASSUME UNCHANGED <<called, answers, waiters, delivery>>
      PROVE  AnsweredOnce'
  BY <1>3 DEF AnsweredOnce
<1>4. ASSUME NEW r \in Reader, Hit(r) PROVE AnsweredOnce'
  <2>1. [ok |-> TRUE, data |-> cached] \in Result
    BY DEF Result, Data
  <2>2. QED
    BY <1>1, <1>4, <2>1 DEF Hit, Answer, cache
<1>5. ASSUME NEW r \in Reader, Join(r) PROVE AnsweredOnce'
  BY <1>2, <1>5 DEF Join, output
<1>6. ASSUME NEW r \in Reader, StartFetch(r) PROVE AnsweredOnce'
  BY <1>2, <1>6 DEF StartFetch, output
<1>7. ASSUME NEW r \in Reader, FetchRefused(r) PROVE AnsweredOnce'
  <2>1. Failed \in Result
    BY DEF Failed, Result, Data
  <2>2. UNCHANGED <<waiters, delivery>>
    BY <1>7, RefusedAnswers DEF FetchRefused
  <2>3. QED
    BY <1>1, <1>7, <2>1, <2>2, RefusedAnswers DEF FetchRefused
\* The waiters become the delivery, which was over.
<1>8. ASSUME NEW ok \in BOOLEAN, FetchDone(ok) PROVE AnsweredOnce'
  <2>1. delivery = <<>> /\ delivery' = waiters /\ waiters' = <<>>
    BY <1>8 DEF FetchDone
  <2>2. Open' = Open /\ answers' = answers /\ called' = called
    BY <1>8 DEF FetchDone, calls
  <2>3. ToSet(delivery) = {} /\ ToSet(waiters') = {} /\ IsInjective(waiters')
    BY <2>1, EmptySet
  <2>4. QED
    BY <1>0, <2>1, <2>2, <2>3 DEF AnsweredOnce
<1>9. CASE Deliver
  <2> DEFINE r == Head(delivery)
  <2>1. /\ r \in Reader /\ r \in ToSet(delivery)
        /\ ToSet(delivery') = ToSet(delivery) \ {r}
        /\ IsInjective(delivery')
    BY <1>0, <1>9, TailSet DEF Deliver
  <2>2. r \in called /\ answers[r] = <<>> /\ r \notin ToSet(waiters)
    BY <1>0, <2>1
  <2>3. waiters' = waiters /\ called' = called \cup {r} /\ called' = called
    BY <1>9, <2>2 DEF Deliver, cache, calls
  <2>4. answers' = [answers EXCEPT ![r] = Append(@, result)]
    BY <1>9 DEF Deliver, Answer
  <2>5. /\ \A y \in Reader : Len(answers'[y]) <= IF y \in called' THEN 1 ELSE 0
        /\ Open' = Open \ {r}
    BY <2>1, <2>2, <2>3, <2>4, AnswerCounts
  <2>6. QED
    BY <1>0, <2>1, <2>2, <2>3, <2>5 DEF AnsweredOnce
<1>10. CASE Invalidate
  BY <1>3, <1>10 DEF Invalidate, output, calls
<1>11. CASE Expire
  BY <1>3, <1>11 DEF Expire, calls
<1>12. CASE Sample
  BY <1>3, <1>12 DEF Sample, cache, output, calls
<1>13. CASE Change
  BY <1>3, <1>13 DEF Change, cache, output, calls
<1>14. CASE UNCHANGED cvars
  BY <1>3, <1>14 DEF cvars
<1>15. QED
  BY <1>4, <1>5, <1>6, <1>7, <1>8, <1>9, <1>10, <1>11, <1>12, <1>13, <1>14 DEF CNext, Get

LEMMA SingleFlightStep == CIInv /\ [CNext]_cvars => SingleFlight'
<1> SUFFICES ASSUME CIInv, [CNext]_cvars PROVE SingleFlight'
  OBVIOUS
<1> USE DEF CIInv, CTypeOK, SingleFlight, cache, output, calls
<1>1. ASSUME NEW r \in Reader, Hit(r) PROVE SingleFlight'
  BY <1>1 DEF Hit
<1>2. ASSUME NEW r \in Reader, Join(r) PROVE SingleFlight'
  BY <1>2, AppendSet DEF Join, IsHit
<1>3. ASSUME NEW r \in Reader, StartFetch(r) PROVE SingleFlight'
  BY <1>3, AppendSet DEF StartFetch, IsHit
<1>4. ASSUME NEW r \in Reader, FetchRefused(r) PROVE SingleFlight'
  BY <1>4 DEF FetchRefused
<1>5. ASSUME NEW ok \in BOOLEAN, FetchDone(ok) PROVE SingleFlight'
  BY <1>5 DEF FetchDone
<1>6. CASE Deliver
  BY <1>6 DEF Deliver
<1>7. CASE Invalidate
  BY <1>7 DEF Invalidate
<1>8. CASE Expire
  BY <1>8 DEF Expire
<1>9. CASE Sample
  BY <1>9 DEF Sample
<1>10. CASE Change
  BY <1>10 DEF Change
<1>11. CASE UNCHANGED cvars
  BY <1>11 DEF cvars
<1>12. QED
  BY <1>1, <1>2, <1>3, <1>4, <1>5, <1>6, <1>7, <1>8, <1>9, <1>10, <1>11 DEF CNext, Get

\* The age of what r is answered with decides whether reads stay in order.
LEMMA AnswerAge ==
    ASSUME CIInv, NEW r \in Reader, NEW x \in Result,
           answers' = [answers EXCEPT ![r] = Append(@, x)],
           floor' \in [Reader -> Nat],
           \A y \in Reader : answers[y] # <<>> => floor'[y] = floor[y],
           x.ok => x.data \in Nat /\ x.data >= floor'[r]
    PROVE  /\ MonotonicReads'
           /\ \A y \in Reader : \A i \in DOMAIN answers'[y] :
                answers'[y][i].ok => answers'[y][i].data \in Nat
<1>1. /\ answers \in [Reader -> Seq(Result)]
      /\ \A y \in Reader : \A i \in DOMAIN answers[y] :
            answers[y][i].ok => answers[y][i].data \in Nat /\ answers[y][i].data >= floor[y]
  BY DEF CIInv, CTypeOK, Chronology, MonotonicReads
<1>2. \A y \in Reader : \A i \in DOMAIN answers'[y] :
        \/ y = r /\ answers'[y][i] = x
        \/ i \in DOMAIN answers[y] /\ answers'[y][i] = answers[y][i]
  BY <1>1, AnswerShape
<1>3. SUFFICES ASSUME NEW y \in Reader, NEW i \in DOMAIN answers'[y], answers'[y][i].ok
               PROVE  /\ answers'[y][i].data \in Nat
                      /\ answers'[y][i].data >= floor'[y]
  BY DEF MonotonicReads
<1>4. CASE y = r /\ answers'[y][i] = x
  BY <1>3, <1>4
<1>5. CASE i \in DOMAIN answers[y] /\ answers'[y][i] = answers[y][i]
  <2>1. answers[y] # <<>>
    BY <1>1, <1>5
  <2>2. QED
    BY <1>1, <1>3, <1>5, <2>1
<1>6. QED
  BY <1>2, <1>4, <1>5

LEMMA ChronologyStep == CIInv /\ [CNext]_cvars => Chronology' /\ MonotonicReads'
<1> SUFFICES ASSUME CIInv, [CNext]_cvars PROVE Chronology' /\ MonotonicReads'
  OBVIOUS
<1> DEFINE Typed == \A y \in Reader : \A i \in DOMAIN answers[y] :
                        answers[y][i].ok => answers[y][i].data \in Nat
<1>0. /\ cached \in Nat /\ source \in Nat /\ handedOut \in Nat
      /\ floor \in [Reader -> Nat] /\ sample \in Nat \cup {None}
      /\ delivery \in Seq(Reader) /\ waiters \in Seq(Reader)
      /\ result \in Result
  BY DEF CIInv, CTypeOK, Data
<1>00. SingleFlight /\ Chronology /\ MonotonicReads /\ Typed
  BY DEF CIInv, Chronology
<1>01. /\ \A y \in Reader : y \notin called => answers[y] = <<>>
       /\ ToSet(delivery) \subseteq called /\ ToSet(delivery) \subseteq Reader
       /\ ToSet(waiters) \subseteq Reader
  BY DEF CIInv, CTypeOK, AnsweredOnce
\* A new call's floor is what has been handed out; nobody else's changes.
<1>1. ASSUME NEW r \in Reader, Call(r)
      PROVE  /\ floor' \in [Reader -> Nat]
             /\ floor'[r] = handedOut
             /\ \A y \in Reader : y # r => floor'[y] = floor[y]
             /\ \A y \in Reader : answers[y] # <<>> => floor'[y] = floor[y]
             /\ r \notin ToSet(delivery)
  BY <1>0, <1>01, <1>1 DEF Call
<1>1a. ASSUME NEW r \in Reader, Call(r)
       PROVE  \A y \in Reader : floor'[y] \in Nat /\ floor'[y] <= handedOut
  <2>1. \A y \in Reader : floor[y] \in Nat /\ floor[y] <= handedOut
    BY <1>0, <1>00 DEF Chronology
  <2>2. handedOut <= handedOut
    BY <1>0
  <2>3. \A y \in Reader : floor'[y] = floor[y] \/ floor'[y] = handedOut
    BY <1>1, <1>1a
  <2>4. QED
    BY <1>0, <2>1, <2>2, <2>3
<1>2. ASSUME UNCHANGED <<answers, floor>>
      PROVE  MonotonicReads' /\ Typed'
  BY <1>00, <1>2 DEF MonotonicReads
<1>3. ASSUME NEW r \in Reader, Call(r), UNCHANGED answers
      PROVE  MonotonicReads' /\ Typed'
  <2> SUFFICES ASSUME NEW y \in Reader, NEW i \in DOMAIN answers[y], answers[y][i].ok
               PROVE  answers[y][i].data \in Nat /\ answers[y][i].data >= floor'[y]
    BY <1>3 DEF MonotonicReads
  <2>1. answers[y] # <<>>
    BY DEF CIInv, CTypeOK
  <2>2. QED
    BY <1>00, <1>1, <1>3, <2>1 DEF MonotonicReads
<1>4. ASSUME NEW r \in Reader, Hit(r) PROVE Chronology' /\ MonotonicReads'
  <2> DEFINE x == [ok |-> TRUE, data |-> cached]
  <2>1. x \in Result /\ x.ok = TRUE /\ x.data = cached
    BY <1>0 DEF Result, Data
  <2>2. cached >= handedOut
    BY <1>4, <1>00 DEF Hit, IsHit, Chronology
  <2>3. handedOut' = cached
    <3>1. handedOut' = IF x.ok /\ x.data > handedOut THEN x.data ELSE handedOut
      BY <1>4 DEF Hit, Answer
    <3>2. handedOut' = IF cached > handedOut THEN cached ELSE handedOut
      BY <2>1, <3>1
    <3>3. QED
      BY <1>0, <2>2, <3>2
  <2>4. answers' = [answers EXCEPT ![r] = Append(@, x)] /\ Call(r)
    BY <1>4 DEF Hit, Answer
  <2>5. MonotonicReads' /\ Typed'
    BY <1>0, <1>1, <2>1, <2>2, <2>4, AnswerAge
  <2>6. UNCHANGED <<cached, hasValue, fresh, fetching, delivery, result, source, sample>>
    BY <1>4 DEF Hit, cache
  <2>7. ~fetching /\ cached <= source
    BY <1>4, <1>00 DEF Hit, IsHit, SingleFlight, Chronology
  <2>8. \A y \in Reader : floor'[y] <= cached
    BY <1>0, <1>1a, <2>2, <2>4
  <2>9. \A y \in ToSet(delivery) : floor'[y] = floor[y]
    BY <1>1, <1>01, <2>4
  <2>10. QED
    BY <1>0, <1>00, <2>3, <2>5, <2>6, <2>7, <2>8, <2>9 DEF Chronology
\* A call that waits: its floor is no newer than what the fetch reads.
<1>5. ASSUME NEW r \in Reader, Join(r) \/ StartFetch(r)
      PROVE  Chronology' /\ MonotonicReads'
  <2>1. /\ Call(r) /\ UNCHANGED <<cached, hasValue, fresh, source>>
        /\ UNCHANGED <<delivery, result, answers, handedOut>>
        /\ sample' = None \/ (sample' = sample /\ fetching' = fetching)
    BY <1>5 DEF Join, StartFetch, output
  <2>2. MonotonicReads' /\ Typed'
    BY <1>3, <2>1
  <2>3. \A y \in Reader : floor'[y] <= handedOut
    BY <1>1a, <2>1
  <2>4. \A y \in ToSet(delivery) : floor'[y] = floor[y]
    BY <1>1, <1>01, <2>1
  <2>5. QED
    BY <1>00, <2>1, <2>2, <2>3, <2>4 DEF Chronology
<1>6. ASSUME NEW r \in Reader, FetchRefused(r) PROVE Chronology' /\ MonotonicReads'
  <2>1. Failed \in Result /\ Failed.ok = FALSE
    BY DEF Failed, Result, Data
  <2>2. /\ Call(r) /\ UNCHANGED <<cached, hasValue, fresh, fetching, source, sample>>
        /\ UNCHANGED <<delivery, result, handedOut>>
    BY <1>6 DEF FetchRefused
  <2>3. answers' = [answers EXCEPT ![r] = Append(@, Failed)]
    BY <1>6, RefusedAnswers
  <2>4. MonotonicReads' /\ Typed'
    BY <1>0, <1>1, <2>1, <2>2, <2>3, AnswerAge
  <2>5. \A y \in Reader : floor'[y] <= handedOut
    BY <1>1a, <2>2
  <2>6. \A y \in ToSet(delivery) : floor'[y] = floor[y]
    BY <1>1, <1>01, <2>2
  <2>7. QED
    BY <1>00, <2>2, <2>4, <2>5, <2>6 DEF Chronology
\* What was read is no older than anything handed out while it was in flight.
<1>7. ASSUME NEW ok \in BOOLEAN, FetchDone(ok) PROVE Chronology' /\ MonotonicReads'
  <2>1. /\ fetching /\ delivery = <<>> /\ fetching' = FALSE /\ delivery' = waiters
        /\ ok => sample # None
        /\ result' = [ok |-> ok, data |-> IF ok THEN sample ELSE None]
        /\ UNCHANGED <<answers, floor, handedOut, source, sample>>
    BY <1>7 DEF FetchDone, calls
  <2>2. MonotonicReads' /\ Typed'
    BY <1>2, <2>1
  <2>3. CASE ok
    <3>1. sample \in Nat /\ sample >= handedOut /\ sample <= source
      BY <1>0, <1>00, <2>1, <2>3 DEF Chronology
    <3>2. cached' = sample /\ result'.ok /\ result'.data = sample
      BY <1>7, <2>1, <2>3 DEF FetchDone
    <3>3. \A y \in ToSet(waiters) : sample >= floor[y]
      BY <1>0, <1>00, <1>01, <3>1 DEF Chronology
    <3>4. QED
      BY <1>0, <1>00, <2>1, <2>2, <3>1, <3>2, <3>3 DEF Chronology
  <2>4. CASE ~ok
    <3>1. UNCHANGED <<cached, hasValue, fresh>> /\ ~result'.ok
      BY <1>7, <2>1, <2>4 DEF FetchDone
    <3>2. QED
      BY <1>00, <2>1, <2>2, <3>1 DEF Chronology
  <2>5. QED
    BY <2>3, <2>4
<1>8. CASE Deliver
  <2> DEFINE r == Head(delivery)
  <2>1. /\ delivery # <<>> /\ r \in ToSet(delivery) /\ r \in Reader
        /\ ToSet(delivery') \subseteq ToSet(delivery)
    BY <1>0, <1>8, TailSet DEF Deliver, CIInv, AnsweredOnce
  <2>2. /\ answers' = [answers EXCEPT ![r] = Append(@, result)]
        /\ handedOut' = IF result.ok /\ result.data > handedOut THEN result.data ELSE handedOut
    BY <1>8 DEF Deliver, Answer
  <2>3. UNCHANGED <<cached, hasValue, fresh, fetching, floor, result, source, sample>>
    BY <1>8 DEF Deliver, cache, calls
  <2>4. result.ok => /\ result.data \in Nat /\ result.data >= floor[r]
                     /\ result.data <= cached
    BY <1>00, <2>1 DEF Chronology
  <2>5. MonotonicReads' /\ Typed'
    BY <1>0, <2>1, <2>2, <2>3, <2>4, AnswerAge
  <2>6. CASE handedOut' = handedOut
    BY <1>00, <2>1, <2>3, <2>5, <2>6 DEF Chronology
  <2>7. CASE result.ok /\ result.data > handedOut
    <3>1. handedOut' = result.data /\ result.data \in Nat /\ result.data <= cached
      BY <2>2, <2>4, <2>7
    <3>2. /\ handedOut' <= source' /\ \A y \in Reader : floor'[y] <= handedOut'
          /\ hasValue' /\ fresh' => cached' >= handedOut'
      BY <1>0, <1>00, <2>3, <2>7, <3>1 DEF Chronology
    <3>3. fetching' /\ sample' # None => sample' >= handedOut'
      BY <1>00, <2>1, <2>3, <2>7, <3>1 DEF Chronology
    <3>4. QED
      BY <1>00, <2>1, <2>3, <2>5, <3>1, <3>2, <3>3 DEF Chronology
  <2>8. QED
    BY <2>2, <2>6, <2>7
<1>9. CASE Invalidate
  <2>1. MonotonicReads' /\ Typed'
    BY <1>2, <1>9 DEF Invalidate, output, calls
  <2>2. QED
    BY <1>00, <1>9, <2>1 DEF Invalidate, output, calls, Chronology
<1>10. CASE Expire
  <2>1. MonotonicReads' /\ Typed'
    BY <1>2, <1>10 DEF Expire, calls
  <2>2. /\ ~fresh' /\ (handedOut' = handedOut \/ (hasValue /\ handedOut' = source))
        /\ fresh
        /\ UNCHANGED <<cached, hasValue, fetching, delivery, result, floor, source, sample>>
    BY <1>10 DEF Expire, calls
  <2>3. CASE handedOut' = handedOut
    BY <1>00, <2>1, <2>2, <2>3 DEF Chronology
  <2>4. CASE hasValue /\ handedOut' = source
    <3>1. ~fetching
      BY <1>00, <2>2, <2>4 DEF SingleFlight
    <3>2. \A y \in Reader : floor[y] <= source
      BY <1>0, <1>00 DEF Chronology
    <3>3. QED
      BY <1>0, <1>00, <2>1, <2>2, <2>4, <3>1, <3>2 DEF Chronology
  <2>5. QED
    BY <2>2, <2>3, <2>4
<1>11. CASE Sample
  <2>1. MonotonicReads' /\ Typed'
    BY <1>2, <1>11 DEF Sample, output, calls
  <2>2. /\ sample' = source
        /\ UNCHANGED <<cached, hasValue, fresh, fetching, delivery, result, floor, handedOut, source>>
    BY <1>11 DEF Sample, cache, output, calls
  <2>3. delivery # <<>> /\ result.ok => source >= result.data
    BY <1>0, <1>00 DEF Chronology
  <2>4. QED
    BY <1>0, <1>00, <2>1, <2>2, <2>3 DEF Chronology
<1>12. CASE Change
  <2>1. MonotonicReads' /\ Typed'
    BY <1>2, <1>12 DEF Change, output, calls
  <2>2. /\ source' = source + 1
        /\ UNCHANGED <<cached, hasValue, fresh, fetching, delivery, result, floor, handedOut, sample>>
    BY <1>12 DEF Change, cache, output, calls
  <2>3. /\ cached <= source' /\ handedOut <= source'
        /\ sample # None => sample <= source'
    BY <1>0, <1>00, <2>2 DEF Chronology
  <2>4. QED
    BY <1>00, <2>1, <2>2, <2>3 DEF Chronology
<1>13. CASE UNCHANGED cvars
  <2>1. MonotonicReads' /\ Typed'
    BY <1>2, <1>13 DEF cvars
  <2>2. QED
    BY <1>00, <1>13, <2>1 DEF cvars, Chronology
<1>14. QED
  BY <1>4, <1>5, <1>6, <1>7, <1>8, <1>9, <1>10, <1>11, <1>12, <1>13 DEF CNext, Get

-----------------------------------------------------------------------------
(* Theorems.                                                               *)

(* The strengthened invariant holds in every reachable state of the cache.  *)
THEOREM CInvariance == CSpec => []CIInv
<1>1. CIInv /\ [CNext]_cvars => CIInv'
  BY CTypeStep, AnsweredOnceStep, SingleFlightStep, ChronologyStep DEF CIInv
<1>2. QED
  BY <1>1, CInitInv, PTL DEF CSpec

(* Type correctness: a failed fetch leaves no non-value in the cache.       *)
THEOREM CTypeCorrect == CSpec => []CTypeOK
<1>1. CIInv => CTypeOK
  BY DEF CIInv
<1>2. QED
  BY <1>1, CInvariance, PTL

(* Every callback passed to get() is invoked at most once and is never      *)
(* dropped, however calls nest in deliveries (async_cache.h:34-71).         *)
THEOREM AnswersExactlyOnce == CSpec => []AnsweredOnce
<1>1. CIInv => AnsweredOnce
  BY DEF CIInv
<1>2. QED
  BY <1>1, CInvariance, PTL

(* At most one fetch is in flight, there is one whenever somebody waits,    *)
(* and never while the cached value is good.                                *)
THEOREM OneFetchAtATime == CSpec => []SingleFlight
<1>1. CIInv => SingleFlight
  BY DEF CIInv
<1>2. QED
  BY <1>1, CInvariance, PTL

(* No caller is given data older than what an earlier caller got or what    *)
(* was current when the value last expired.                                 *)
THEOREM ReadsStayInOrder == CSpec => []MonotonicReads
<1>1. CIInv => MonotonicReads
  BY DEF CIInv
<1>2. QED
  BY <1>1, CInvariance, PTL
-----------------------------------------------------------------------------
(* Every step is a step of the cache.                                      *)

LEMMA CacheStep == [SNext]_svars => [CNext]_cvars
<1> SUFFICES ASSUME [SNext]_svars
             PROVE  [CNext]_cvars
  OBVIOUS
<1>1. ASSUME NEW r \in Reader, GetState(r)
      PROVE  CNext
  BY <1>1 DEF GetState, CNext
<1>2. ASSUME NEW a \in Act, Clean(a)
      PROVE  CNext
  BY <1>2 DEF Clean, CNext
<1>3. ASSUME SendNext
      PROVE  UNCHANGED cvars
  BY <1>3 DEF SendNext
<1>4. ASSUME RobotHandles
      PROVE  CNext \/ UNCHANGED cvars
  BY <1>4 DEF RobotHandles, Becomes, CNext
<1>5. ASSUME NEW ok \in BOOLEAN, LineDone(ok)
      PROVE  CNext \/ UNCHANGED cvars
  BY <1>5 DEF LineDone, CNext
<1>6. ASSUME RobotMoves
      PROVE  CNext \/ UNCHANGED cvars
  BY <1>6 DEF RobotMoves, Becomes, CNext
<1>7. ASSUME SDeliver \/ SExpire
      PROVE  CNext
  BY <1>7 DEF SDeliver, SExpire, CNext
<1>8. ASSUME UNCHANGED svars
      PROVE  UNCHANGED cvars
  BY <1>8 DEF svars
<1>9. QED
  BY <1>1, <1>2, <1>3, <1>4, <1>5, <1>6, <1>7, <1>8 DEF SNext

\* So what is proved of the cache alone holds here.
LEMMA CacheInvariant == SSpec => []CIInv
<1>1. SInit => CInit
  BY DEF SInit
<1>2. QED
  BY <1>1, CacheStep, CInvariance, PTL DEF SSpec, CSpec

-----------------------------------------------------------------------------
(* Facts about the commands.                                               *)

LEMMA Commands ==
    /\ Poll \notin Command /\ Poll # None /\ None \notin Command
    /\ \A c \in Command : c.act \in Act /\ c.event \in Event
BY NoneNotAct, NoneNotCommand DEF Poll, Command

\* What Append adds.
LEMMA Appended ==
    ASSUME NEW S, NEW s \in Seq(S), NEW e, NEW i \in DOMAIN Append(s, e)
    PROVE  i \in DOMAIN s \/ Append(s, e)[i] = e
OBVIOUS

LEMMA InitSIInv == SInit => SIInv
<1> SUFFICES ASSUME SInit
             PROVE  SIInv
  OBVIOUS
<1> USE DEF SInit
<1>1. CTypeOK /\ hasValue = FALSE /\ fetching = FALSE /\ delivery = <<>> /\ source = 0
      /\ answers = [r \in Reader |-> <<>>]
  BY CInitInv DEF CIInv, CInit
<1>2. PICK u \in Ui : uiAt = <<u>>
  OBVIOUS
<1>3. uiAt \in Seq(Ui) /\ Len(uiAt) = source + 1
  BY <1>1, <1>2
<1>4. STypeOK
  <2>1. confirmed \in [Act -> Data] /\ newest \in [Reader -> SUBSET Act]
    BY DEF Data
  <2>2. <<>> \in Seq(Command)
    OBVIOUS
  <2>3. events \in Seq(Command) /\ pollQueued \in BOOLEAN /\ handled \in BOOLEAN
    BY <2>2
  <2>4. wire \in Command \cup {None, Poll} /\ asked \in SUBSET Act /\ polled \in SUBSET asked
    OBVIOUS
  <2>5. QED
    BY <1>1, <1>3, <2>1, <2>3, <2>4 DEF STypeOK
<1>5. SentOnce /\ NothingPolled
  BY <1>1, Commands DEF SentOnce, NothingPolled, Underway
<1>6. AsNewAsConfirmed /\ ReadYourWritesUnlessPolled
  BY <1>1, EmptySet DEF AsNewAsConfirmed, ReadYourWritesUnlessPolled
<1>7. QED
  BY <1>4, <1>5, <1>6 DEF SIInv

-----------------------------------------------------------------------------
(* getState().                                                             *)

\* What a call of get() leaves alone, and what it can answer.
LEMMA GetEffect ==
    ASSUME CIInv, NEW r \in Reader, Get(r)
    PROVE  /\ r \notin called /\ answers[r] = <<>>
           /\ UNCHANGED <<cached, hasValue, delivery, result, source>>
           /\ fetching' /\ sample' # None => fetching /\ sample' = sample
           /\ \A x \in Reader : \/ answers'[x] = answers[x]
                                \/ answers'[x] = Append(answers[x], Failed)
                                \/ /\ x = r /\ hasValue
                                   /\ answers'[x] = Append(answers[x], [ok |-> TRUE, data |-> cached])
<1>1. answers \in [Reader -> Seq(Result)]
  BY DEF CIInv, CTypeOK
<1>2. r \notin called
  BY DEF Get, Hit, Join, StartFetch, FetchRefused, Call
<1>3. Len(answers[r]) <= 0
  BY <1>2 DEF CIInv, AnsweredOnce
<1>4. answers[r] = <<>>
  BY <1>1, <1>3
<1>5. CASE Hit(r)
  BY <1>1, <1>2, <1>4, <1>5 DEF Hit, IsHit, Answer, cache
<1>6. CASE Join(r)
  BY <1>2, <1>4, <1>6 DEF Join, output
<1>7. CASE StartFetch(r)
  BY <1>2, <1>4, <1>7 DEF StartFetch, output
<1>8. CASE FetchRefused(r)
  BY <1>2, <1>4, <1>8 DEF FetchRefused
<1>9. QED
  BY <1>5, <1>6, <1>7, <1>8 DEF Get

LEMMA GetStateInv ==
    ASSUME CIInv, CTypeOK', SIInv, NEW r \in Reader, GetState(r)
    PROVE  SIInv'
<1>1. /\ r \notin called /\ answers[r] = <<>>
      /\ UNCHANGED <<cached, hasValue, delivery, result, source>>
      /\ fetching' /\ sample' # None => fetching /\ sample' = sample
      /\ \A x \in Reader : \/ answers'[x] = answers[x]
                           \/ answers'[x] = Append(answers[x], Failed)
                           \/ /\ x = r /\ hasValue
                              /\ answers'[x] = Append(answers[x], [ok |-> TRUE, data |-> cached])
  BY GetEffect DEF GetState
<1>2. /\ UNCHANGED <<uiAt, events, wire, handled, asked, polled, confirmed>>
      /\ newest' = [newest EXCEPT ![r] = {a \in Act : confirmed[a] # None}]
      /\ pollQueued' \in BOOLEAN
  BY DEF GetState, SIInv, STypeOK
<1>3. STypeOK
  BY DEF SIInv
<1>4. STypeOK'
  BY <1>1, <1>2, <1>3 DEF STypeOK
<1>5. SentOnce'
  BY <1>1, <1>2 DEF SIInv, SentOnce, Underway
<1>6. NothingPolled'
  BY <1>1, <1>2 DEF SIInv, NothingPolled, Underway
<1>7. r \notin ToSet(delivery)
  BY <1>1 DEF CIInv, AnsweredOnce
<1>8. AsNewAsConfirmed'
  <2>1. \A x \in Reader : \A a \in newest'[x] : confirmed[a] # None
    BY <1>2, <1>3 DEF SIInv, AsNewAsConfirmed, STypeOK
  <2>2. \A x \in ToSet(delivery) : newest'[x] = newest[x]
    BY <1>2, <1>3, <1>7 DEF STypeOK
  <2>3. QED
    BY <1>1, <1>2, <2>1, <2>2 DEF SIInv, AsNewAsConfirmed
<1>9. ASSUME NEW x \in Reader, NEW a \in newest'[x] \ polled, NEW i \in DOMAIN answers'[x], answers'[x][i].ok
      PROVE  answers'[x][i].data >= confirmed[a]
  <2>1. answers[x] \in Seq(Result)
    BY <1>3 DEF STypeOK, CTypeOK
  <2>2. CASE i \in DOMAIN answers[x]
    <3>1. x # r
      BY <1>1, <2>2
    <3>2. newest'[x] = newest[x]
      BY <1>2, <1>3, <3>1 DEF STypeOK
    <3>3. answers'[x][i] = answers[x][i]
      BY <1>1, <2>1, <2>2, SMTT(60)
    <3>4. QED
      BY <1>9, <2>2, <3>2, <3>3 DEF SIInv, ReadYourWritesUnlessPolled, Sees
  <2>3. CASE i \notin DOMAIN answers[x]
    <3>1. PICK e : /\ answers'[x] = Append(answers[x], e)
                   /\ e = Failed \/ (x = r /\ hasValue /\ e = [ok |-> TRUE, data |-> cached])
      BY <1>1, <1>9, <2>3
    <3>2. answers'[x][i] = e
      BY <1>9, <2>1, <2>3, <3>1, Appended
    <3>3. x = r /\ hasValue /\ answers'[x][i].data = cached
      BY <1>9, <3>1, <3>2 DEF Failed
    <3>4. a \in Act /\ confirmed[a] # None
      BY <1>2, <1>3, <3>3 DEF STypeOK
    <3>5. QED
      BY <3>3, <3>4 DEF SIInv, AsNewAsConfirmed
  <2>4. QED
    BY <2>2, <2>3
<1>10. ReadYourWritesUnlessPolled'
  BY <1>2, <1>9 DEF ReadYourWritesUnlessPolled, Sees
<1>11. QED
  BY <1>4, <1>5, <1>6, <1>8, <1>10 DEF SIInv

-----------------------------------------------------------------------------
(* clean().                                                                *)

\* clean() appends its event to the queue, or finds the queue full.
LEMMA CleanEvents ==
    ASSUME STypeOK, NEW a \in Act, Clean(a)
    PROVE  /\ events' \in Seq(Command)
           /\ \A i \in DOMAIN events' :
                \/ i \in DOMAIN events /\ events'[i] = events[i]
                \/ i = Len(events) + 1 /\ events'[i].act = a
<1>1. EventOf(a) \in Event
  BY ActionOfAssumption DEF EventOf, Event
<1> DEFINE c == [act |-> a, event |-> EventOf(a)]
<1>2. c \in Command /\ c.act = a
  BY <1>1 DEF Command
<1>3. events' = events \/ events' = Append(events, c)
  BY DEF Clean
<1>4. events \in Seq(Command)
  BY DEF STypeOK
<1> HIDE DEF c
<1>5. CASE events' = events
  BY <1>4, <1>5
<1>6. CASE events' = Append(events, c)
  <2>1. /\ Append(events, c) \in Seq(Command)
        /\ \A i \in DOMAIN Append(events, c) : \/ i \in DOMAIN events /\ Append(events, c)[i] = events[i]
                                               \/ i = Len(events) + 1 /\ Append(events, c)[i] = c
    BY <1>2, <1>4
  <2>2. QED
    BY <1>2, <1>6, <2>1
<1>7. QED
  BY <1>3, <1>5, <1>6

LEMMA CleanInv ==
    ASSUME CTypeOK', SIInv, NEW a \in Act, Clean(a)
    PROVE  SIInv'
<1>1. STypeOK
  BY DEF SIInv
<1>2. /\ a \notin asked /\ asked' = asked \cup {a}
      /\ polled' = IF wire = Poll THEN polled \cup {a} ELSE polled
      /\ hasValue' = FALSE
      /\ UNCHANGED <<uiAt, pollQueued, wire, handled, confirmed, newest>>
      /\ UNCHANGED <<cached, fetching, sample, source, delivery, result, answers>>
  BY DEF Clean, Invalidate, output
<1>3. /\ events' \in Seq(Command)
      /\ \A i \in DOMAIN events' : \/ i \in DOMAIN events /\ events'[i] = events[i]
                                   \/ i = Len(events) + 1 /\ events'[i].act = a
  BY <1>1, CleanEvents
<1>4. STypeOK'
  BY <1>1, <1>2, <1>3 DEF STypeOK
<1>5. /\ ~Underway(a) /\ confirmed[a] = None
      /\ \A b \in Act : Underway(b)' => Underway(b) \/ b = a
  BY <1>2, <1>3 DEF SIInv, SentOnce, Underway
<1>6. SentOnce'
  BY <1>2, <1>3, <1>5 DEF SIInv, SentOnce, Underway
<1>7. NothingPolled'
  BY <1>2, <1>5 DEF SIInv, NothingPolled
<1>8. AsNewAsConfirmed'
  BY <1>2 DEF SIInv, AsNewAsConfirmed
<1>9. ReadYourWritesUnlessPolled'
  BY <1>2 DEF SIInv, ReadYourWritesUnlessPolled, Sees
<1>10. QED
  BY <1>4, <1>6, <1>7, <1>8, <1>9 DEF SIInv

-----------------------------------------------------------------------------
(* The line.                                                               *)

LEMMA SendNextInv ==
    ASSUME CTypeOK', SIInv, SendNext
    PROVE  SIInv'
<1>1. STypeOK /\ wire = None
  BY DEF SIInv, SendNext
<1>2. handled' = FALSE /\ UNCHANGED <<cvars, uiAt, history>>
  BY DEF SendNext
<1>3. /\ UNCHANGED <<cached, hasValue, fetching, sample, source, delivery, result, answers>>
      /\ UNCHANGED <<uiAt, asked, polled, confirmed, newest>>
  BY <1>2 DEF cvars, history
<1>4. /\ events' \in Seq(Command) /\ pollQueued' \in BOOLEAN
      /\ wire' \in Command \cup {Poll}
      /\ \A b \in Act : Underway(b)' => Underway(b)
      /\ \A i, j \in DOMAIN events' : events'[i].act = events'[j].act => i = j
      /\ wire' \in Command => \A i \in DOMAIN events' : events'[i].act # wire'.act
      /\ wire' = Poll => events' = <<>>
  <2>1. CASE events # <<>> /\ wire' = Head(events) /\ events' = Tail(events) /\ UNCHANGED pollQueued
    <3>1. /\ Tail(events) \in Seq(Command) /\ Head(events) \in Command /\ Head(events) = events[1]
          /\ \A i \in DOMAIN Tail(events) : i + 1 \in DOMAIN events /\ i + 1 # 1 /\ Tail(events)[i] = events[i + 1]
          /\ 1 \in DOMAIN events /\ DOMAIN Tail(events) \subseteq Nat
      BY <1>1, <2>1 DEF STypeOK
    <3>2. \A i, j \in DOMAIN events : events[i].act = events[j].act => i = j
      BY DEF SIInv, SentOnce
    <3>3. \A i, j \in DOMAIN events' : events'[i].act = events'[j].act => i = j
      BY <2>1, <3>1, <3>2
    <3>4. \A i \in DOMAIN events' : events'[i].act # wire'.act
      BY <2>1, <3>1, <3>2
    <3>5. \A b \in Act : Underway(b)' => Underway(b)
      BY <2>1, <3>1 DEF Underway
    <3>6. wire' # Poll /\ wire' \in Command /\ pollQueued' \in BOOLEAN /\ events' \in Seq(Command)
      BY <1>1, <2>1, <3>1, Commands DEF STypeOK
    <3>7. QED
      BY <3>3, <3>4, <3>5, <3>6
  <2>2. CASE events = <<>> /\ wire' = Poll /\ pollQueued' = FALSE /\ UNCHANGED events
    <3>1. \A b \in Act : ~Underway(b)'
      BY <2>2, Commands DEF Underway
    <3>2. events' \in Seq(Command) /\ DOMAIN events' = {}
      BY <1>1, <2>2 DEF STypeOK
    <3>3. QED
      BY <2>2, <3>1, <3>2, Commands
  <2>3. QED
    BY <2>1, <2>2 DEF SendNext
<1>5. STypeOK'
  BY <1>1, <1>2, <1>3, <1>4 DEF STypeOK
<1>6. SentOnce'
  BY <1>3, <1>4 DEF SIInv, SentOnce
<1>7. NothingPolled'
  <2>1. ~(fetching /\ sample # None)
    BY <1>1, Commands DEF SIInv, NothingPolled
  <2>2. wire' = Poll => \A b \in Act : ~Underway(b)'
    BY <1>4, Commands DEF Underway
  <2>3. QED
    BY <1>3, <1>4, <2>1, <2>2 DEF SIInv, NothingPolled
<1>8. AsNewAsConfirmed' /\ ReadYourWritesUnlessPolled'
  BY <1>3 DEF SIInv, AsNewAsConfirmed, ReadYourWritesUnlessPolled, Sees
<1>9. QED
  BY <1>5, <1>6, <1>7, <1>8 DEF SIInv

\* The robot's state changes, or does not.
LEMMA RobotBecomes ==
    ASSUME STypeOK, NEW u \in Ui, Becomes(u)
    PROVE  /\ uiAt' \in Seq(Ui) /\ Len(uiAt') = source' + 1
           /\ source' \in Nat /\ source' >= source
           /\ UNCHANGED <<cached, hasValue, fetching, sample, delivery, result, answers>>
<1>1. uiAt \in Seq(Ui) /\ Len(uiAt) = source + 1 /\ source \in Nat
  BY DEF STypeOK, CTypeOK
<1>2. CASE UNCHANGED <<cvars, uiAt>>
  BY <1>1, <1>2 DEF cvars
<1>3. CASE Change /\ uiAt' = Append(uiAt, u)
  BY <1>1, <1>3 DEF Change, cache, output
<1>4. QED
  BY <1>2, <1>3 DEF Becomes

\* A new version of the robot's state takes nothing back.
LEMMA NewVersion ==
    ASSUME CTypeOK', SIInv, NEW u \in Ui, Becomes(u), handled' \in BOOLEAN,
           UNCHANGED <<pollQueued, events, wire, history>>
    PROVE  SIInv'
<1>1. STypeOK
  BY DEF SIInv
<1>2. /\ uiAt' \in Seq(Ui) /\ Len(uiAt') = source' + 1
      /\ source' \in Nat /\ source' >= source
      /\ UNCHANGED <<cached, hasValue, fetching, sample, delivery, result, answers>>
  BY <1>1, RobotBecomes
<1>3. UNCHANGED <<asked, polled, confirmed, newest>>
  BY DEF history
<1>4. STypeOK'
  BY <1>1, <1>2, <1>3 DEF STypeOK
<1>5. SentOnce'
  <2>1. \A a \in Act : confirmed[a] # None => confirmed[a] <= source'
    <3>1. source \in Nat /\ \A a \in Act : confirmed[a] # None => confirmed[a] \in Nat
      BY <1>1 DEF STypeOK, CTypeOK, Data
    <3>2. \A a \in Act : confirmed[a] # None => confirmed[a] <= source
      BY DEF SIInv, SentOnce
    <3>3. QED
      BY <1>2, <3>1, <3>2
  <2>2. QED
    BY <1>3, <2>1 DEF SIInv, SentOnce, Underway
<1>6. NothingPolled'
  BY <1>2, <1>3 DEF SIInv, NothingPolled, Underway
<1>7. AsNewAsConfirmed' /\ ReadYourWritesUnlessPolled'
  BY <1>2, <1>3 DEF SIInv, AsNewAsConfirmed, ReadYourWritesUnlessPolled, Sees
<1>8. QED
  BY <1>4, <1>5, <1>6, <1>7 DEF SIInv

LEMMA RobotHandlesInv ==
    ASSUME CTypeOK', SIInv, RobotHandles
    PROVE  SIInv'
<1>1. STypeOK /\ wire # None
  BY DEF SIInv, RobotHandles
<1>2. CASE wire = Poll
  <2>1. /\ sample' = source /\ handled' = TRUE
        /\ UNCHANGED <<cached, hasValue, fetching, source, delivery, result, answers>>
        /\ UNCHANGED <<uiAt, pollQueued, events, wire, asked, polled, confirmed, newest>>
    BY <1>2 DEF RobotHandles, Sample, cache, output, history
  <2>2. STypeOK'
    BY <1>1, <2>1 DEF STypeOK
  <2>3. SentOnce' /\ NothingPolled'
    BY <1>2, <2>1 DEF SIInv, SentOnce, NothingPolled, Underway
  <2>4. AsNewAsConfirmed'
    <3>1. source \in Nat /\ \A a \in Act : confirmed[a] # None => confirmed[a] \in Nat
      BY <1>1 DEF STypeOK, CTypeOK, Data
    <3>2. \A a \in Act : confirmed[a] # None => sample' >= confirmed[a]
      BY <2>1, <3>1 DEF SIInv, SentOnce
    <3>3. QED
      BY <2>1, <3>2 DEF SIInv, AsNewAsConfirmed
  <2>5. ReadYourWritesUnlessPolled'
    BY <2>1 DEF SIInv, ReadYourWritesUnlessPolled, Sees
  <2>6. QED
    BY <2>2, <2>3, <2>4, <2>5 DEF SIInv
<1>3. CASE wire # Poll
  <2>1. uiAt \in Seq(Ui) /\ source + 1 \in DOMAIN uiAt
    BY <1>1 DEF STypeOK, CTypeOK
  <2>2. After(wire.event) \in Ui
    BY <2>1 DEF After, ui, Ui
  <2>3. /\ Becomes(After(wire.event)) /\ handled' = TRUE
        /\ UNCHANGED <<pollQueued, events, wire, history>>
    BY <1>3 DEF RobotHandles
  <2>4. QED
    BY <2>2, <2>3, NewVersion
<1>4. QED
  BY <1>2, <1>3

\* The poll on the wire ends: what the robot showed is stored and handed out.
LEMMA PollDoneInv ==
    ASSUME CTypeOK', SIInv, NEW ok \in BOOLEAN, LineDone(ok), wire = Poll
    PROVE  SIInv'
<1>1. STypeOK
  BY DEF SIInv
<1>2. /\ wire' = None /\ handled' = FALSE
      /\ UNCHANGED <<uiAt, pollQueued, events, asked, polled, confirmed, newest>>
      /\ FetchDone(ok)
  BY DEF LineDone
<1>3. /\ fetching /\ fetching' = FALSE /\ (ok => sample # None)
      /\ IF ok THEN cached' = sample /\ hasValue' = TRUE ELSE UNCHANGED <<cached, hasValue>>
      /\ result' = [ok |-> ok, data |-> IF ok THEN sample ELSE None]
      /\ UNCHANGED <<sample, source, answers>>
  BY <1>2 DEF FetchDone
<1>4. STypeOK'
  BY <1>1, <1>2, <1>3 DEF STypeOK
<1>5. \A b \in Act : Underway(b)' => Underway(b)
  BY <1>2, Commands DEF Underway
<1>6. SentOnce'
  BY <1>2, <1>3, <1>5, Commands DEF SIInv, SentOnce
<1>7. NothingPolled'
  <2>1. \A b \in Act \ polled : ~Underway(b)
    BY DEF SIInv, NothingPolled
  <2>2. QED
    BY <1>2, <1>3, <1>5, <2>1 DEF NothingPolled
<1>8. AsNewAsConfirmed'
  <2>1. ok => \A a \in Act \ polled : confirmed[a] # None => sample >= confirmed[a]
    BY <1>3 DEF SIInv, AsNewAsConfirmed
  <2>2. ToSet(delivery') \subseteq Reader
    <3>1. delivery' \in Seq(Reader)
      BY DEF CTypeOK
    <3>2. QED
      BY <3>1 DEF ToSet
  <2>3. \A r \in Reader : \A a \in newest[r] : confirmed[a] # None /\ a \in Act
    BY <1>1 DEF SIInv, AsNewAsConfirmed, STypeOK
  <2>4. result'.ok = ok /\ (ok => result'.data = sample)
    BY <1>3
  <2>5. \A r \in ToSet(delivery') : \A a \in newest[r] \ polled : result'.ok => result'.data >= confirmed[a]
    BY <2>1, <2>2, <2>3, <2>4
  <2>6. \A a \in Act \ polled : confirmed[a] # None => (hasValue' => cached' >= confirmed[a])
    BY <1>3, <2>1 DEF SIInv, AsNewAsConfirmed
  <2>7. QED
    BY <1>2, <1>3, <2>3, <2>5, <2>6 DEF AsNewAsConfirmed
<1>9. ReadYourWritesUnlessPolled'
  BY <1>2, <1>3 DEF SIInv, ReadYourWritesUnlessPolled, Sees
<1>10. QED
  BY <1>4, <1>6, <1>7, <1>8, <1>9 DEF SIInv

\* The event on the wire ends: nothing older than what it led to is cached,
\* nothing has been read, and nobody has been told of it before.
LEMMA EventDoneInv ==
    ASSUME CTypeOK', SIInv, NEW ok \in BOOLEAN, LineDone(ok), wire # Poll
    PROVE  SIInv'
<1>1. STypeOK
  BY DEF SIInv
<1>2. wire \in Command /\ wire.act \in Act
  BY <1>1, Commands DEF STypeOK, LineDone
<1> DEFINE b == wire.act
<1>3. /\ wire' = None /\ handled' = FALSE /\ delivery = <<>>
      /\ confirmed' = IF ok THEN [confirmed EXCEPT ![b] = source] ELSE confirmed
      /\ UNCHANGED <<uiAt, pollQueued, events, asked, polled, newest>>
      /\ UNCHANGED <<cached, hasValue, fetching, sample, source, delivery, result, answers>>
  BY DEF LineDone, cvars
<1>4. Underway(b) /\ b \in asked /\ confirmed[b] = None
  BY <1>2 DEF Underway, SIInv, SentOnce
<1>5. source \in Nat /\ source # None /\ confirmed \in [Act -> Data]
  BY <1>1, NoneAssumption DEF STypeOK, CTypeOK
<1>6. \A a \in Act : a # b => confirmed'[a] = confirmed[a]
  BY <1>3, <1>5
<1>7. confirmed'[b] \in {None, source}
  BY <1>2, <1>3, <1>4, <1>5
<1>8. STypeOK'
  <2>1. confirmed' \in [Act -> Data]
    BY <1>3, <1>5 DEF Data
  <2>2. QED
    BY <1>1, <1>3, <2>1 DEF STypeOK
<1>9. \A a \in Act : Underway(a)' => Underway(a) /\ a # b
  BY <1>2, <1>3, Commands DEF Underway, SIInv, SentOnce
<1>10. SentOnce'
  <2>1. \A a \in Act : confirmed'[a] # None => a \in asked /\ confirmed'[a] <= source
    BY <1>2, <1>4, <1>5, <1>6, <1>7 DEF SIInv, SentOnce
  <2>2. \A a \in Act : Underway(a)' => a \in asked /\ confirmed'[a] = None
    BY <1>6, <1>9 DEF SIInv, SentOnce
  <2>3. QED
    BY <1>3, <2>1, <2>2, Commands DEF SIInv, SentOnce
<1>11. ~(fetching /\ sample # None)
  BY DEF SIInv, NothingPolled
<1>12. NothingPolled'
  BY <1>3, <1>9, <1>11, Commands DEF SIInv, NothingPolled
<1>13. \A r \in Reader : b \notin newest[r] /\ newest[r] \subseteq Act
  BY <1>1, <1>4 DEF SIInv, AsNewAsConfirmed, STypeOK
<1>14. AsNewAsConfirmed'
  <2>1. b \notin polled => ~hasValue
    BY <1>2, <1>4 DEF SIInv, NothingPolled
  <2>2. \A a \in Act \ polled : confirmed'[a] # None => (hasValue => cached >= confirmed'[a])
    BY <1>6, <2>1 DEF SIInv, AsNewAsConfirmed
  <2>3. ToSet(delivery) = {}
    BY <1>3, EmptySet
  <2>4. QED
    BY <1>3, <1>6, <1>11, <1>13, <2>2, <2>3 DEF SIInv, AsNewAsConfirmed
<1>15. ReadYourWritesUnlessPolled'
  BY <1>3, <1>6, <1>13 DEF SIInv, ReadYourWritesUnlessPolled, Sees
<1>16. QED
  BY <1>8, <1>10, <1>12, <1>14, <1>15 DEF SIInv

-----------------------------------------------------------------------------
(* The cache.                                                              *)

LEMMA SDeliverInv ==
    ASSUME CIInv, CTypeOK', SIInv, SDeliver
    PROVE  SIInv'
<1>1. STypeOK
  BY DEF SIInv
<1> DEFINE r == Head(delivery)
<1>2. /\ delivery # <<>> /\ delivery' = Tail(delivery)
      /\ answers' = [answers EXCEPT ![r] = Append(@, result)]
      /\ UNCHANGED <<cached, hasValue, fetching, sample, source, result>>
      /\ UNCHANGED <<uiAt, pollQueued, events, wire, handled, asked, polled, confirmed, newest>>
  BY DEF SDeliver, Deliver, Answer, cache, line, history
<1>3. STypeOK'
  BY <1>1, <1>2 DEF STypeOK
<1>4. SentOnce' /\ NothingPolled'
  BY <1>2 DEF SIInv, SentOnce, NothingPolled, Underway
<1>5. /\ r \in ToSet(delivery) /\ r \in Reader
      /\ ToSet(Tail(delivery)) \subseteq ToSet(delivery)
  <2>1. delivery \in Seq(Reader) /\ IsInjective(delivery)
    BY DEF CIInv, CTypeOK, AnsweredOnce
  <2>2. ToSet(Tail(delivery)) = ToSet(delivery) \ {Head(delivery)} /\ Head(delivery) \in Reader
    BY <1>2, <2>1, TailSet
  <2>3. 1 \in DOMAIN delivery /\ Head(delivery) = delivery[1]
    BY <1>2, <2>1
  <2>4. QED
    BY <2>2, <2>3 DEF ToSet
<1>6. AsNewAsConfirmed'
  BY <1>2, <1>5 DEF SIInv, AsNewAsConfirmed
<1>7. ASSUME NEW x \in Reader, NEW a \in newest[x] \ polled, NEW i \in DOMAIN answers'[x], answers'[x][i].ok
      PROVE  answers'[x][i].data >= confirmed[a]
  <2>1. answers \in [Reader -> Seq(Result)] /\ result \in Result
    BY <1>1 DEF STypeOK, CTypeOK
  <2>2. (x = r /\ answers'[x][i] = result) \/ (i \in DOMAIN answers[x] /\ answers'[x][i] = answers[x][i])
    <3> HIDE DEF r
    <3> QED
      BY <1>2, <1>5, <1>7, <2>1, AnswerShape
  <2>3. CASE x = r /\ answers'[x][i] = result
    BY <1>5, <1>7, <2>3 DEF SIInv, AsNewAsConfirmed
  <2>4. CASE i \in DOMAIN answers[x] /\ answers'[x][i] = answers[x][i]
    BY <1>7, <2>4 DEF SIInv, ReadYourWritesUnlessPolled, Sees
  <2>5. QED
    BY <2>2, <2>3, <2>4
<1>8. ReadYourWritesUnlessPolled'
  BY <1>2, <1>7 DEF ReadYourWritesUnlessPolled, Sees
<1>9. QED
  BY <1>3, <1>4, <1>6, <1>8 DEF SIInv

LEMMA FrameInv ==
    ASSUME CTypeOK', SIInv,
           UNCHANGED <<cached, hasValue, fetching, sample, source, delivery, result, answers>>,
           UNCHANGED <<uiAt, line, history>>
    PROVE  SIInv'
<1>1. UNCHANGED <<pollQueued, events, wire, handled, asked, polled, confirmed, newest>>
  BY DEF line, history
<1>2. STypeOK'
  BY <1>1 DEF SIInv, STypeOK
<1>3. SentOnce' /\ NothingPolled'
  BY <1>1 DEF SIInv, SentOnce, NothingPolled, Underway
<1>4. AsNewAsConfirmed' /\ ReadYourWritesUnlessPolled'
  BY <1>1 DEF SIInv, AsNewAsConfirmed, ReadYourWritesUnlessPolled, Sees
<1>5. QED
  BY <1>2, <1>3, <1>4 DEF SIInv

-----------------------------------------------------------------------------
(* The theorems.                                                           *)

LEMMA NextSIInv == CIInv /\ CIInv' /\ SIInv /\ [SNext]_svars => SIInv'
<1> SUFFICES ASSUME CIInv, CTypeOK', SIInv, [SNext]_svars
             PROVE  SIInv'
  BY DEF CIInv
<1>1. ASSUME NEW r \in Reader, GetState(r)
      PROVE  SIInv'
  BY <1>1, GetStateInv
<1>2. ASSUME NEW a \in Act, Clean(a)
      PROVE  SIInv'
  BY <1>2, CleanInv
<1>3. CASE SendNext
  BY <1>3, SendNextInv
<1>4. CASE RobotHandles
  BY <1>4, RobotHandlesInv
<1>5. ASSUME NEW ok \in BOOLEAN, LineDone(ok)
      PROVE  SIInv'
  BY <1>5, PollDoneInv, EventDoneInv
<1>6. CASE RobotMoves
  <2>1. PICK u \in Ui : Becomes(u)
    BY <1>6 DEF RobotMoves
  <2>2. UNCHANGED <<pollQueued, events, wire, handled, history>> /\ handled \in BOOLEAN
    BY <1>6 DEF RobotMoves, line, SIInv, STypeOK
  <2>3. QED
    BY <2>1, <2>2, NewVersion
<1>7. CASE SDeliver
  BY <1>7, SDeliverInv
<1>8. CASE SExpire
  BY <1>8, FrameInv DEF SExpire, Expire
<1>9. CASE UNCHANGED svars
  BY <1>9, FrameInv DEF svars, cvars
<1>10. QED
  BY <1>1, <1>2, <1>3, <1>4, <1>5, <1>6, <1>7, <1>8, <1>9 DEF SNext

(* The invariant holds in every state of the cache, the line and the robot. *)
THEOREM StateCacheInvariant == SSpec => []SIInv
BY InitSIInv, NextSIInv, CacheInvariant, PTL DEF SSpec

(* Type correctness.                                                        *)
THEOREM STypeCorrect == SSpec => []STypeOK
<1>1. SIInv => STypeOK
  BY DEF SIInv
<1>2. QED
  BY <1>1, StateCacheInvariant, PTL

(* Who asks for the state after an action has been confirmed is shown the   *)
(* robot as the action left it or later (invalidateState() in clean(),      *)
(* neato_serial.cpp), unless GetState was on the wire at the call.          *)
THEOREM WritesAreSeen == SSpec => []ReadYourWritesUnlessPolled
<1>1. SIInv => ReadYourWritesUnlessPolled
  BY DEF SIInv
<1>2. QED
  BY <1>1, StateCacheInvariant, PTL

-----------------------------------------------------------------------------
(***************************************************************************)
(* Part 2: the life cycle.                                                 *)
(***************************************************************************)

(* The access point policy and an attempt to connect touch nothing of the  *)
(* device but the access point and the station.                            *)

LEMMA ReevaluatedDevice ==
    ASSUME NEW d \in Dev, NEW creds, NEW fallback
    PROVE  /\ Reevaluated(d, creds, fallback) \in Dev
           /\ Reevaluated(d, creds, fallback).sta = d.sta
           /\ Reevaluated(d, creds, fallback).at = d.at
BY DEF Reevaluated, ApUp, ApDown, Dev, Hostname

LEMMA OffIsDevice == Off \in Dev /\ Off.sta = FALSE
BY DEF Off, Dev, Hostname

LEMMA WifiBegunDevice ==
    ASSUME NEW d \in Dev, d.sta = FALSE, NEW creds \in {"none", "good", "bad"}, NEW fallback, NEW ok \in BOOLEAN
    PROVE  /\ WifiBegun(d, creds, fallback, ok) \in Dev
           /\ WifiBegun(d, creds, fallback, ok).sta => ok
           /\ WifiBegun(d, creds, fallback, ok).at = d.at
<1> DEFINE yes == [d EXCEPT !.sta = TRUE, !.begun = creds, !.was = TRUE]
           no == [d EXCEPT !.begun = creds, !.was = (creds # "none"), !.config = TRUE]
<1>1. /\ yes \in Dev /\ yes.at = d.at
      /\ no \in Dev /\ no.at = d.at /\ no.sta = FALSE
  BY DEF Dev
<1>2. /\ Reevaluated(no, creds, fallback) \in Dev
      /\ Reevaluated(no, creds, fallback).sta = FALSE
      /\ Reevaluated(no, creds, fallback).at = d.at
  <2> HIDE DEF no
  <2> QED
    BY <1>1, ReevaluatedDevice
<1>3. QED
  BY <1>1, <1>2 DEF WifiBegun

\* What setup() makes of the device.
LEMMA SetupDevice ==
    ASSUME NEW stored \in Nvs, NEW ok \in BOOLEAN
    PROVE  LET early == Reevaluated(Off, stored.creds, stored.fallback)
               named == [early EXCEPT !.hostname = stored.hostname, !.at = "top"]
               d == WifiBegun(named, stored.creds, stored.fallback, ok)
           IN  /\ d \in Dev /\ (d.sta => ok) /\ d.at = "top"
<1> DEFINE early == Reevaluated(Off, stored.creds, stored.fallback)
           named == [early EXCEPT !.hostname = stored.hostname, !.at = "top"]
<1>1. early \in Dev /\ early.sta = FALSE
  BY OffIsDevice, ReevaluatedDevice
<1>2. stored.hostname \in Hostname /\ stored.creds \in {"none", "good", "bad"}
  BY DEF Nvs
<1>3. named \in Dev /\ named.sta = FALSE /\ named.at = "top"
  BY <1>1, <1>2 DEF Dev
<1> DEFINE d == WifiBegun(named, stored.creds, stored.fallback, ok)
<1>4. d \in Dev /\ (d.sta => ok) /\ d.at = "top"
  <2> HIDE DEF named
  <2> QED
    BY <1>2, <1>3, WifiBegunDevice
<1>5. QED
  BY <1>4

-----------------------------------------------------------------------------
(* The inductive invariant.  The types are those the argument needs.       *)

Types ==
    /\ flash \in Flash /\ nvs \in Nvs /\ dev \in Dev /\ fw \in Fw
    /\ settings \in Settings /\ sys \in Sys
    /\ uploads \in [Clients -> [img: Images \cup {"none"}, sent: 0 .. 2]]

\* Nothing is being written when the device boots, and what is being written
\* is not an image that was ever marked.
UpdateOfUnmarked ==
    /\ dev.at = "off" => ~fw.on
    /\ fw.on => ~flash.spare

\* Marked images, and the one that runs while the station is connected, can
\* join the network.
MarkedJoin ==
    /\ flash.proven => flash.runs # "noSta"
    /\ flash.spare => flash.other # "noSta"
    /\ dev.sta => flash.runs # "noSta"

\* What has been written begins with the first chunk of an image for this chip.
WrittenIsForChip ==
    /\ fw.data # <<>> => fw.data[1] \in (Images \ {"alien"}) \X {1}
    /\ fw.chip /\ ~fw.error => fw.data # <<>>

BootableImages ==
    /\ flash.runs # "alien"
    /\ flash.other # "alien"

LInv == Types /\ UpdateOfUnmarked /\ MarkedJoin /\ WrittenIsForChip /\ BootableImages

LEMMA InitInv == Init => LInv
<1> SUFFICES ASSUME Init
             PROVE  LInv
  OBVIOUS
<1> USE DEF Init
<1>1. flash \in Flash /\ settings \in Settings /\ sys \in Sys /\ dev \in Dev
  BY OffIsDevice DEF Flash, Settings, Sys, Default, Calm, Hostname
<1>2. nvs \in Nvs
  <2>1. /\ [creds |-> "none", hostname |-> "neato", fallback |-> TRUE] \in Nvs
        /\ [creds |-> "good", hostname |-> "upstairs", fallback |-> TRUE] \in Nvs
    BY DEF Nvs, Hostname
  <2>2. QED
    BY <2>1
<1>3. <<>> \in Seq(Images \X {1, 2})
  OBVIOUS
<1>4. fw \in Fw
  BY <1>3 DEF Fw, Idle
<1>5. uploads \in [Clients -> [img: Images \cup {"none"}, sent: 0 .. 2]]
  BY DEF NoUpload
<1>6. UpdateOfUnmarked /\ MarkedJoin /\ WrittenIsForChip /\ BootableImages
  BY DEF UpdateOfUnmarked, MarkedJoin, WrittenIsForChip, BootableImages, Idle, Off
<1>7. QED
  BY <1>1, <1>2, <1>4, <1>5, <1>6 DEF LInv, Types

-----------------------------------------------------------------------------
(* Groups of steps.                                                        *)

\* A step that leaves the partitions and the update alone, and after which
\* the station is connected only if it was, or if the image allows it.
LEMMA QuietStep ==
    ASSUME LInv, Types', UNCHANGED <<flash, fw>>,
           dev'.sta => (dev.sta \/ flash.runs # "noSta"),
           dev'.at = "off" => dev.at = "off"
    PROVE  LInv'
BY DEF LInv, UpdateOfUnmarked, MarkedJoin, WrittenIsForChip, BootableImages

\* A partition may be marked, if its image can join the network.
FlashKept ==
    /\ flash' \in Flash
    /\ flash'.runs = flash.runs /\ flash'.other = flash.other /\ flash'.spare = flash.spare
    /\ flash'.proven => flash'.runs # "noSta"

LEMMA SameFlash == LInv /\ UNCHANGED flash => FlashKept
BY DEF LInv, Types, MarkedJoin, FlashKept

\* A reboot, as far as RAM goes.
LEMMA RestartStep ==
    ASSUME LInv, Restarts, nvs' \in Nvs, FlashKept
    PROVE  LInv'
<1>1. <<>> \in Seq(Images \X {1, 2})
  OBVIOUS
<1>2. Idle \in Fw /\ Calm \in Sys /\ Default \in Settings
  BY <1>1 DEF Idle, Calm, Default, Fw, Sys, Settings, Hostname
<1>3. [c \in Clients |-> NoUpload] \in [Clients -> [img: Images \cup {"none"}, sent: 0 .. 2]]
  BY DEF NoUpload
<1>4. Types'
  BY <1>2, <1>3, OffIsDevice DEF Types, Restarts, FlashKept
<1>5. QED
  BY <1>4 DEF LInv, FlashKept, Restarts, UpdateOfUnmarked, MarkedJoin, WrittenIsForChip,
              BootableImages, Idle, Off

\* The boot loader leaves the image that runs, or changes the two.
LEMMA BootedFlash ==
    ASSUME LInv, NEW f \in Booted(flash)
    PROVE  /\ f \in Flash /\ f.runs # "alien" /\ f.other # "alien"
           /\ f.proven => f.runs # "noSta"
           /\ f.spare => f.other # "noSta"
<1> DEFINE swapped == [flash EXCEPT !.runs = flash.other, !.other = flash.runs, !.switched = FALSE,
                                    !.proven = flash.spare, !.spare = flash.proven]
           same == [flash EXCEPT !.switched = FALSE]
<1>1. flash \in Flash
  BY DEF LInv, Types
<1>2. f = same \/ (f = swapped /\ flash.other # "none")
  BY DEF Booted
<1>3. CASE f = same
  BY <1>1, <1>3 DEF Flash, LInv, MarkedJoin, BootableImages
<1>4. CASE f = swapped /\ flash.other # "none"
  BY <1>1, <1>4 DEF Flash, LInv, MarkedJoin, BootableImages
<1>5. QED
  BY <1>2, <1>3, <1>4

LEMMA ConfirmedFlash ==
    ASSUME NEW f \in Flash, NEW sta \in BOOLEAN
    PROVE  /\ Confirmed(f, sta) \in Flash
           /\ Confirmed(f, sta).runs = f.runs /\ Confirmed(f, sta).other = f.other
           /\ Confirmed(f, sta).spare = f.spare
           /\ Confirmed(f, sta).proven => f.proven \/ sta
BY DEF Confirmed, Flash

LEMMA SetupInv == LInv /\ Setup => LInv'
<1> SUFFICES ASSUME LInv, Setup
             PROVE  LInv'
  OBVIOUS
<1>1. flash \in Flash /\ nvs \in Nvs
  BY DEF LInv, Types
<1>2. PICK ok \in BOOLEAN, booted \in Booted(flash) :
        /\ ok => booted.runs # "noSta"
        /\ dev' \in Dev /\ (dev'.sta => ok) /\ dev'.at = "top"
        /\ flash' = Confirmed(booted, dev'.sta)
  <2> DEFINE early == Reevaluated(Off, nvs.creds, nvs.fallback)
             named == [early EXCEPT !.hostname = nvs.hostname, !.at = "top"]
             d(ok) == WifiBegun(named, nvs.creds, nvs.fallback, ok)
  <2>1. PICK ok \in BOOLEAN, booted \in Booted(flash) :
          /\ ok => booted.runs # "noSta"
          /\ dev' = [d(ok) EXCEPT !.server = d(ok).sta \/ d(ok).ap]
          /\ flash' = Confirmed(booted, d(ok).sta)
    BY DEF Setup
  <2>2. d(ok) \in Dev /\ (d(ok).sta => ok) /\ d(ok).at = "top"
    BY <1>1, SetupDevice
  <2> HIDE DEF d
  <2>3. dev' \in Dev /\ dev'.sta = d(ok).sta /\ dev'.at = "top"
    BY <2>1, <2>2 DEF Dev
  <2>4. QED
    BY <2>1, <2>2, <2>3
<1>3. /\ booted \in Flash /\ booted.runs # "alien" /\ booted.other # "alien"
      /\ booted.proven => booted.runs # "noSta"
      /\ booted.spare => booted.other # "noSta"
  BY BootedFlash
<1>4. /\ flash' \in Flash
      /\ flash'.runs = booted.runs /\ flash'.other = booted.other
      /\ flash'.proven => booted.proven \/ dev'.sta
      /\ flash'.spare = booted.spare
  <2>1. dev'.sta \in BOOLEAN
    BY <1>2 DEF Dev
  <2>2. QED
    BY <1>2, <1>3, <2>1, ConfirmedFlash
<1>5. ~fw.on /\ fw' = fw
  BY DEF Setup, LInv, UpdateOfUnmarked
<1>6. settings' \in Settings
  BY <1>1 DEF Setup, Loaded, Nvs, Settings
<1>7. Types'
  BY <1>2, <1>4, <1>6 DEF Setup, LInv, Types
<1>8. QED
  BY <1>2, <1>3, <1>4, <1>5, <1>7
     DEF LInv, UpdateOfUnmarked, MarkedJoin, WrittenIsForChip, BootableImages

-----------------------------------------------------------------------------
(* The loop.                                                               *)

LEMMA CheckPendingRebootInv == LInv /\ CheckPendingReboot => LInv'
<1> SUFFICES ASSUME LInv, CheckPendingReboot
             PROVE  LInv'
  OBVIOUS
<1>1. Types
  BY DEF LInv
<1>2. CASE ~RebootDue
  <2>1. dev' = [dev EXCEPT !.at = "wifi"] /\ UNCHANGED <<flash, nvs, settings, fw, sys, uploads>>
    BY <1>2 DEF CheckPendingReboot
  <2>2. Types' /\ dev'.sta = dev.sta /\ dev'.at = "wifi"
    BY <1>1, <2>1 DEF Types, Dev
  <2>3. QED
    BY <2>1, <2>2, QuietStep
<1>3. CASE RebootDue /\ sys.reset
  <2>1. /\ nvs' = [creds |-> "none", hostname |-> "neato", fallback |-> TRUE]
        /\ dev' = [dev EXCEPT !.at = "erasing", !.sta = FALSE]
        /\ UNCHANGED <<flash, settings, fw, sys, uploads>>
    BY <1>3 DEF CheckPendingReboot
  <2>2. nvs' \in Nvs
    BY <2>1 DEF Nvs, Hostname
  <2>3. dev' \in Dev /\ dev'.sta = FALSE /\ dev'.at = "erasing"
    BY <1>1, <2>1 DEF Types, Dev
  <2>4. Types'
    BY <1>1, <2>1, <2>2, <2>3 DEF Types
  <2>5. QED
    BY <2>1, <2>3, <2>4, QuietStep
<1>4. CASE RebootDue /\ ~sys.reset
  <2>1. Restarts /\ UNCHANGED <<flash, nvs>>
    BY <1>4 DEF CheckPendingReboot
  <2>2. QED
    BY <1>1, <2>1, RestartStep, SameFlash DEF Types
<1>5. QED
  BY <1>2, <1>3, <1>4

LEMMA WifiTickInv == ASSUME NEW due \in BOOLEAN PROVE LInv /\ WifiTick(due) => LInv'
<1> SUFFICES ASSUME LInv, WifiTick(due)
             PROVE  LInv'
  OBVIOUS
<1>1. Types
  BY DEF LInv
<1> DEFINE d == Reevaluated(dev, nvs.creds, settings.fallback)
<1>2. d \in Dev /\ d.sta = dev.sta
  BY <1>1, ReevaluatedDevice DEF Types
<1>3. /\ \/ dev' = [dev EXCEPT !.at = "rest"]
         \/ dev' = [d EXCEPT !.at = "rest"]
         \/ dev' = [d EXCEPT !.at = "waiting", !.begun = nvs.creds]
      /\ UNCHANGED <<flash, nvs, settings, fw, sys, uploads>>
  BY DEF WifiTick
<1>4. nvs.creds \in {"none", "good", "bad"}
  BY <1>1 DEF Types, Nvs
<1>5. dev' \in Dev /\ dev'.sta = dev.sta /\ dev'.at # "off"
  <2> HIDE DEF d
  <2> QED
    BY <1>1, <1>2, <1>3, <1>4 DEF Types, Dev
<1>6. Types'
  BY <1>1, <1>3, <1>5 DEF Types
<1>7. QED
  BY <1>3, <1>5, <1>6, QuietStep

LEMMA ReconnectEndsInv == LInv /\ ReconnectEnds => LInv'
<1> SUFFICES ASSUME LInv, ReconnectEnds
             PROVE  LInv'
  OBVIOUS
<1>1. Types
  BY DEF LInv
<1>2. PICK ok \in BOOLEAN : /\ ok => flash.runs # "noSta"
                            /\ dev' = [dev EXCEPT !.at = "rest", !.sta = ok]
  BY DEF ReconnectEnds, Associable
<1>3. UNCHANGED <<flash, nvs, settings, fw, sys, uploads>>
  BY DEF ReconnectEnds
<1>4. dev' \in Dev /\ dev'.sta = ok /\ dev'.at = "rest"
  BY <1>1, <1>2 DEF Types, Dev
<1>5. Types'
  BY <1>1, <1>3, <1>4 DEF Types
<1>6. QED
  BY <1>2, <1>3, <1>4, <1>5, QuietStep

\* The firmware is marked on the way to the tasks only by a connected station.
LEMMA BeforeTasksFlash == LInv /\ BeforeTasks => FlashKept
<1> SUFFICES ASSUME LInv, BeforeTasks
             PROVE  FlashKept
  OBVIOUS
<1>1. flash \in Flash /\ dev \in Dev
  BY DEF LInv, Types
<1>2. (StartsNow(dev) /\ dev.sta) \in BOOLEAN
  OBVIOUS
<1>3. flash' = Confirmed(flash, StartsNow(dev) /\ dev.sta)
  BY DEF BeforeTasks
<1>4. QED
  BY <1>1, <1>2, <1>3, ConfirmedFlash DEF LInv, MarkedJoin, FlashKept

LEMMA TasksInv == LInv /\ (FirmwareReboots \/ SkipTasks \/ TickAll) => LInv'
<1> SUFFICES ASSUME LInv, FirmwareReboots \/ SkipTasks \/ TickAll
             PROVE  LInv'
  OBVIOUS
<1>1. BeforeTasks /\ nvs' = nvs /\ dev.at = "rest" /\ (Restarts \/ Goes)
  BY DEF FirmwareReboots, SkipTasks, TickAll, BeforeTasks
<1>2. FlashKept
  BY <1>1, BeforeTasksFlash
<1>3. CASE Restarts
  BY <1>1, <1>2, <1>3, RestartStep DEF LInv, Types
<1>4. CASE Goes
  <2>1. dev' \in Dev /\ dev'.sta = dev.sta /\ dev'.at = "top"
    BY <1>4 DEF Goes, Dev, LInv, Types
  <2>2. sys' \in Sys
    BY <1>4 DEF Goes, ButtonSeen, Asks, Sys, LInv, Types
  <2>3. UNCHANGED <<settings, fw, uploads>>
    BY <1>4 DEF Goes
  <2>4. Types'
    BY <1>1, <1>2, <2>1, <2>2, <2>3 DEF LInv, Types, FlashKept
  <2>5. QED
    BY <1>2, <2>1, <2>3, <2>4
       DEF LInv, FlashKept, UpdateOfUnmarked, MarkedJoin, WrittenIsForChip, BootableImages
<1>5. QED
  BY <1>1, <1>3, <1>4

-----------------------------------------------------------------------------
(* What comes from outside: requests, time, the network, the power.        *)

\* The steps that leave the partitions and the update alone.
LEMMA QuietRequestsInv ==
    LInv /\ ((\E kind \in {"restart", "reset", "format"} : ApiSystem(kind)) \/ ApiSettings \/ ApiConnect
             \/ ApiForget \/ StaAssociates \/ NetworkChanges) => LInv'
<1> SUFFICES ASSUME LInv
             PROVE  ((\E kind \in {"restart", "reset", "format"} : ApiSystem(kind)) \/ ApiSettings
                     \/ ApiConnect \/ ApiForget \/ StaAssociates \/ NetworkChanges) => LInv'
  OBVIOUS
<1>1. Types
  BY DEF LInv
<1>2. ASSUME NEW kind \in {"restart", "reset", "format"}, ApiSystem(kind)
      PROVE  LInv'
  <2>1. sys' \in Sys /\ UNCHANGED <<flash, nvs, settings, dev, fw, uploads>>
    BY <1>1, <1>2 DEF ApiSystem, Combined, Asks, Types, Sys
  <2>2. Types'
    BY <1>1, <2>1 DEF Types
  <2>3. QED
    BY <2>1, <2>2, QuietStep
<1>3. ASSUME ApiSettings
      PROVE  LInv'
  <2>1. PICK h \in Hostname, f \in BOOLEAN :
          /\ settings' = [hostname |-> h, fallback |-> f]
          /\ dev' = dev \/ dev' = Reevaluated(dev, nvs.creds, f)
          /\ nvs' = nvs \/ nvs' = Saved(nvs, settings')
          /\ sys' = sys \/ sys' = Asks(sys)
    BY <1>3 DEF ApiSettings
  <2>2. UNCHANGED <<flash, fw, uploads>>
    BY <1>3 DEF ApiSettings
  <2>3. settings' \in Settings
    BY <2>1 DEF Settings
  <2>4. dev' \in Dev /\ dev'.sta = dev.sta /\ dev'.at = dev.at
    BY <1>1, <2>1, ReevaluatedDevice DEF Types
  <2>5. nvs' \in Nvs
    BY <1>1, <2>1, <2>3 DEF Saved, Types, Nvs, Settings
  <2>6. sys' \in Sys
    BY <1>1, <2>1 DEF Asks, Types, Sys
  <2>7. Types'
    BY <1>1, <2>2, <2>3, <2>4, <2>5, <2>6 DEF Types
  <2>8. QED
    BY <2>2, <2>4, <2>7, QuietStep
<1>4. ASSUME ApiConnect
      PROVE  LInv'
  <2>1. PICK creds \in {"good", "bad"} : /\ nvs' = [nvs EXCEPT !.creds = creds]
                                         /\ dev' = [dev EXCEPT !.sta = FALSE, !.begun = creds]
    BY <1>4 DEF ApiConnect
  <2>2. UNCHANGED <<flash, settings, fw, sys, uploads>>
    BY <1>4 DEF ApiConnect
  <2>3. nvs' \in Nvs /\ dev' \in Dev /\ dev'.sta = FALSE /\ dev'.at = dev.at
    BY <1>1, <2>1 DEF Types, Nvs, Dev
  <2>4. Types'
    BY <1>1, <2>2, <2>3 DEF Types
  <2>5. QED
    BY <2>2, <2>3, <2>4, QuietStep
<1>5. ASSUME ApiForget
      PROVE  LInv'
  <2> DEFINE d == [dev EXCEPT !.sta = FALSE, !.begun = "none", !.was = FALSE]
  <2>1. nvs' = [nvs EXCEPT !.creds = "none"] /\ dev' = Reevaluated(d, "none", settings.fallback)
    BY <1>5 DEF ApiForget
  <2>2. UNCHANGED <<flash, settings, fw, sys, uploads>>
    BY <1>5 DEF ApiForget
  <2>3. d \in Dev /\ d.sta = FALSE /\ d.at = dev.at
    BY <1>1 DEF Types, Dev
  <2>4. dev' \in Dev /\ dev'.sta = FALSE /\ dev'.at = dev.at
    <3> HIDE DEF d
    <3> QED
      BY <2>1, <2>3, ReevaluatedDevice
  <2>5. nvs' \in Nvs
    BY <1>1, <2>1 DEF Types, Nvs
  <2>6. Types'
    BY <1>1, <2>2, <2>4, <2>5 DEF Types
  <2>7. QED
    BY <2>2, <2>4, <2>6, QuietStep
<1>6. ASSUME StaAssociates
      PROVE  LInv'
  <2>1. dev' \in Dev /\ dev'.at = dev.at /\ flash.runs # "noSta"
    BY <1>1, <1>6 DEF StaAssociates, Associable, Types, Dev
  <2>2. UNCHANGED <<flash, nvs, settings, fw, sys, uploads>>
    BY <1>6 DEF StaAssociates
  <2>3. Types'
    BY <1>1, <2>1, <2>2 DEF Types
  <2>4. QED
    BY <2>1, <2>2, <2>3, QuietStep
<1>7. ASSUME NetworkChanges
      PROVE  LInv'
  <2>1. dev' \in Dev /\ dev'.at = dev.at /\ dev'.sta = FALSE
    BY <1>1, <1>7 DEF NetworkChanges, Types, Dev
  <2>2. UNCHANGED <<flash, nvs, settings, fw, sys, uploads>>
    BY <1>7 DEF NetworkChanges
  <2>3. Types'
    BY <1>1, <2>1, <2>2 DEF Types
  <2>4. QED
    BY <2>1, <2>2, <2>3, QuietStep
<1>8. QED
  BY <1>2, <1>3, <1>4, <1>5, <1>6, <1>7

LEMMA TimePassesInv == LInv /\ TimePasses => LInv'
<1> SUFFICES ASSUME LInv, TimePasses
             PROVE  LInv'
  OBVIOUS
<1>1. Types
  BY DEF LInv
<1>2. UNCHANGED <<flash, nvs, settings, dev, uploads>>
  BY DEF TimePasses
<1>3. /\ sys' \in Sys /\ fw' \in Fw
      /\ fw'.on = fw.on /\ fw'.data = fw.data /\ fw'.chip = fw.chip /\ fw'.error = fw.error
  BY <1>1 DEF TimePasses, Types, Sys, Fw
<1>4. Types'
  BY <1>1, <1>2, <1>3 DEF Types
<1>5. QED
  BY <1>2, <1>3, <1>4 DEF LInv, UpdateOfUnmarked, MarkedJoin, WrittenIsForChip, BootableImages

LEMMA ConnectEndsInv == LInv /\ ConnectEnds => LInv'
<1> SUFFICES ASSUME LInv, ConnectEnds
             PROVE  LInv'
  OBVIOUS
<1>1. Types /\ UNCHANGED <<flash, nvs>>
  BY DEF LInv, ConnectEnds
<1>2. CASE Restarts
  BY <1>1, <1>2, RestartStep, SameFlash DEF Types
<1> DEFINE d == [dev EXCEPT !.was = TRUE]
<1>3. CASE dev' = Reevaluated(d, nvs.creds, settings.fallback) /\ UNCHANGED <<settings, fw, sys, uploads>>
  <2>1. d \in Dev /\ d.sta = dev.sta /\ d.at = dev.at
    BY <1>1 DEF Types, Dev
  <2>2. dev' \in Dev /\ dev'.sta = dev.sta /\ dev'.at = dev.at
    <3> HIDE DEF d
    <3> QED
      BY <1>3, <2>1, ReevaluatedDevice
  <2>3. Types'
    BY <1>1, <1>3, <2>2 DEF Types
  <2>4. QED
    BY <1>1, <1>3, <2>2, <2>3, QuietStep
<1>4. QED
  BY <1>2, <1>3 DEF ConnectEnds

-----------------------------------------------------------------------------
(* Uploads.                                                                *)

\* An upload that begins leaves nothing in the other partition; one that cannot
\* leaves it as it is, and no update.
LEMMA BeginUploadInv == ASSUME NEW c \in Clients PROVE LInv /\ BeginUpload(c) => LInv'
<1> SUFFICES ASSUME LInv, BeginUpload(c)
             PROVE  LInv'
  OBVIOUS
<1>1. Types
  BY DEF LInv
<1>2. PICK img \in Images :
        /\ uploads' = [uploads EXCEPT ![c] = [img |-> img, sent |-> 0]]
        /\ \/ fw' = BeganUpdate(fw, img) /\ flash' = [flash EXCEPT !.other = "none", !.spare = FALSE]
           \/ fw' \in NotBegun(fw) /\ UNCHANGED flash
  BY DEF BeginUpload
<1>3. UNCHANGED <<nvs, settings, dev, sys>> /\ dev.at # "off"
  BY DEF BeginUpload, Asked, Running
<1>4. uploads' \in [Clients -> [img: Images \cup {"none"}, sent: 0 .. 2]]
  BY <1>1, <1>2 DEF Types
<1>5. CASE fw' = BeganUpdate(fw, img) /\ flash' = [flash EXCEPT !.other = "none", !.spare = FALSE]
  <2>1. /\ flash' \in Flash
        /\ flash'.runs = flash.runs /\ flash'.other = "none"
        /\ flash'.proven = flash.proven /\ flash'.spare = FALSE
    BY <1>1, <1>5 DEF Types, Flash
  <2>2. <<>> \in Seq(Images \X {1, 2})
    OBVIOUS
  <2>3. fw' \in Fw /\ fw'.data = <<>> /\ fw'.chip = FALSE
    BY <1>1, <1>5, <2>2 DEF BeganUpdate, Types, Fw
  <2>4. Types'
    BY <1>1, <1>3, <1>4, <2>1, <2>3 DEF Types
  <2>5. QED
    BY <1>3, <2>1, <2>3, <2>4 DEF LInv, UpdateOfUnmarked, MarkedJoin, WrittenIsForChip, BootableImages
<1>6. CASE fw' \in NotBegun(fw) /\ UNCHANGED flash
  <2>1. /\ fw' \in Fw /\ fw'.data = fw.data /\ fw'.on = FALSE
        /\ fw'.chip = FALSE /\ fw'.error = TRUE
    BY <1>1, <1>6 DEF NotBegun, Types, Fw
  <2>2. Types'
    BY <1>1, <1>3, <1>4, <1>6, <2>1 DEF Types
  <2>3. QED
    BY <1>3, <1>6, <2>1, <2>2 DEF LInv, UpdateOfUnmarked, MarkedJoin, WrittenIsForChip, BootableImages
<1>7. QED
  BY <1>2, <1>5, <1>6

\* A chunk is taken after the check of the chip, and as the first only if it
\* is the first of its image.
LEMMA WrittenChunk ==
    ASSUME LInv, NEW chunk \in Images \X {1, 2}, NEW f \in WrittenChunks(fw, chunk)
    PROVE  /\ f \in Fw
           /\ f.on => fw.on
           /\ f.data # <<>> => f.data[1] \in (Images \ {"alien"}) \X {1}
           /\ f.chip /\ ~f.error => f.data # <<>>
<1>1. fw \in Fw /\ WrittenIsForChip
  BY DEF LInv, Types
<1>2. CASE fw.error
  BY <1>1, <1>2 DEF WrittenChunks, WrittenIsForChip
<1> DEFINE write(g) == IF g.on /\ (g.data = <<>> => chunk[2] = 1) THEN [g EXCEPT !.data = Append(@, chunk)]
                       ELSE [g EXCEPT !.error = TRUE, !.on = FALSE]
           refused == [fw EXCEPT !.error = TRUE, !.on = FALSE, !.busy = FALSE]
           checked == [fw EXCEPT !.chip = TRUE]
<1>3. ASSUME NEW g \in Fw, g.on => fw.on, g.data = fw.data,
             g.data = <<>> /\ chunk[2] = 1 => chunk[1] # "alien"
      PROVE  /\ write(g) \in Fw
             /\ write(g).on => fw.on
             /\ write(g).data # <<>> => write(g).data[1] \in (Images \ {"alien"}) \X {1}
             /\ write(g).chip /\ ~write(g).error => write(g).data # <<>>
  <2>1. CASE g.on /\ (g.data = <<>> => chunk[2] = 1)
    <3>1. g.data \in Seq(Images \X {1, 2})
      BY DEF Fw
    <3>2. /\ Append(g.data, chunk) \in Seq(Images \X {1, 2})
          /\ Append(g.data, chunk) # <<>>
          /\ g.data # <<>> => Append(g.data, chunk)[1] = g.data[1]
          /\ g.data = <<>> => Append(g.data, chunk)[1] = chunk
      BY <3>1
    <3>3. write(g) = [g EXCEPT !.data = Append(g.data, chunk)]
      BY <2>1
    <3>4. /\ write(g) \in Fw /\ write(g).on = g.on
          /\ write(g).data = Append(g.data, chunk)
      BY <3>2, <3>3 DEF Fw
    <3>5. g.data = <<>> => chunk \in (Images \ {"alien"}) \X {1}
      BY <1>3, <2>1
    <3>6. QED
      BY <1>1, <1>3, <3>2, <3>4, <3>5 DEF WrittenIsForChip
  <2>2. CASE ~(g.on /\ (g.data = <<>> => chunk[2] = 1))
    <3>1. write(g) = [g EXCEPT !.error = TRUE, !.on = FALSE]
      BY <2>2
    <3>2. /\ write(g) \in Fw /\ write(g).on = FALSE /\ write(g).error = TRUE
          /\ write(g).data = fw.data
      BY <1>3, <3>1 DEF Fw
    <3>3. QED
      BY <1>1, <3>2 DEF WrittenIsForChip
  <2>3. QED
    BY <2>1, <2>2
<1>4. CASE ~fw.error /\ fw.chip
  <2>1. f = write(fw)
    BY <1>4 DEF WrittenChunks
  <2>2. fw.data # <<>>
    BY <1>1, <1>4 DEF WrittenIsForChip
  <2> HIDE DEF write
  <2>3. QED
    BY <1>1, <1>3, <2>1, <2>2
<1>5. CASE ~fw.error /\ ~fw.chip
  <2>1. PICK ok \in ChipAccepted(chunk) : f = IF ok THEN write(checked) ELSE refused
    BY <1>5 DEF WrittenChunks
  <2>2. ok \in BOOLEAN /\ (ok /\ chunk[2] = 1 => chunk[1] # "alien")
    BY DEF ChipAccepted
  <2>3. checked \in Fw /\ checked.on = fw.on /\ checked.data = fw.data
    BY <1>1 DEF Fw
  <2>4. /\ refused \in Fw /\ refused.on = FALSE /\ refused.error = TRUE
        /\ refused.data = fw.data
    BY <1>1 DEF Fw
  <2>5. CASE ok
    <3> HIDE DEF write, checked
    <3> QED
      BY <1>3, <2>1, <2>2, <2>3, <2>5
  <2>6. CASE ~ok
    <3> HIDE DEF refused
    <3> QED
      BY <1>1, <2>1, <2>4, <2>6 DEF WrittenIsForChip
  <2>7. QED
    BY <2>2, <2>5, <2>6
<1>6. fw.error \in BOOLEAN /\ fw.chip \in BOOLEAN
  BY <1>1 DEF Fw
<1>7. QED
  BY <1>2, <1>4, <1>5, <1>6

LEMMA UploadChunkInv == ASSUME NEW c \in Clients PROVE LInv /\ UploadChunk(c) => LInv'
<1> SUFFICES ASSUME LInv, UploadChunk(c)
             PROVE  LInv'
  OBVIOUS
<1> DEFINE chunk == <<uploads[c].img, uploads[c].sent + 1>>
<1>1. Types
  BY DEF LInv
<1>2. /\ uploads[c] \in [img: Images \cup {"none"}, sent: 0 .. 2]
      /\ uploads[c].img # "none" /\ uploads[c].sent < 2
  BY <1>1 DEF UploadChunk, Types
<1>3. chunk \in Images \X {1, 2}
  BY <1>2
<1>4. fw' \in WrittenChunks(fw, chunk)
  BY DEF UploadChunk
<1>5. /\ fw' \in Fw
      /\ fw'.on => fw.on
      /\ fw'.data # <<>> => fw'.data[1] \in (Images \ {"alien"}) \X {1}
      /\ fw'.chip /\ ~fw'.error => fw'.data # <<>>
  <2> HIDE DEF chunk
  <2> QED
    BY <1>3, <1>4, WrittenChunk
<1>6. uploads' \in [Clients -> [img: Images \cup {"none"}, sent: 0 .. 2]]
  BY <1>1, <1>2 DEF UploadChunk, Types
<1>7. UNCHANGED <<flash, nvs, settings, dev, sys>>
  BY DEF UploadChunk
<1>8. Types'
  BY <1>1, <1>5, <1>6, <1>7 DEF Types
<1>9. QED
  BY <1>5, <1>7, <1>8 DEF LInv, UpdateOfUnmarked, MarkedJoin, WrittenIsForChip, BootableImages

\* What is accepted is whole and of one image; it starts with a checked chunk.
LEMMA EndUploadInv == ASSUME NEW c \in Clients PROVE LInv /\ EndUpload(c) => LInv'
<1> SUFFICES ASSUME LInv, EndUpload(c)
             PROVE  LInv'
  OBVIOUS
<1>1. Types
  BY DEF LInv
<1>2. UNCHANGED <<nvs, settings, dev, sys>> /\ dev.at # "off"
  BY DEF EndUpload, Running
<1>3. uploads' \in [Clients -> [img: Images \cup {"none"}, sent: 0 .. 2]]
  BY <1>1 DEF EndUpload, NoUpload, Types
<1>4. CASE ~fw.error /\ fw.on /\ fw.data = Whole(fw.md5)
  <2>1. /\ fw' = [fw EXCEPT !.reboot = "asked", !.on = FALSE]
        /\ flash' = [flash EXCEPT !.other = fw.md5, !.switched = TRUE]
    BY <1>4 DEF EndUpload
  <2>2. fw.data # <<>> /\ fw.data[1] = <<fw.md5, 1>>
    BY <1>4 DEF Whole
  <2>3. fw.md5 \in Images \ {"alien"}
    BY <2>2 DEF LInv, WrittenIsForChip
  <2>4. /\ flash' \in Flash /\ flash'.runs = flash.runs /\ flash'.other = fw.md5
        /\ flash'.proven = flash.proven /\ flash'.spare = flash.spare
    BY <1>1, <2>1, <2>3 DEF Types, Flash
  <2>5. /\ fw' \in Fw /\ fw'.on = FALSE /\ fw'.data = fw.data
        /\ fw'.chip = fw.chip /\ fw'.error = fw.error
    BY <1>1, <2>1 DEF Types, Fw
  <2>6. ~flash.spare
    BY <1>4 DEF LInv, UpdateOfUnmarked
  <2>7. Types'
    BY <1>1, <1>2, <1>3, <2>4, <2>5 DEF Types
  <2>8. QED
    BY <1>2, <2>3, <2>4, <2>5, <2>6, <2>7
       DEF LInv, UpdateOfUnmarked, MarkedJoin, WrittenIsForChip, BootableImages
<1>5. CASE ~(~fw.error /\ fw.on /\ fw.data = Whole(fw.md5))
  <2>1. fw' = [fw EXCEPT !.error = TRUE, !.on = FALSE] /\ UNCHANGED flash
    BY <1>5 DEF EndUpload
  <2>2. fw' \in Fw /\ fw'.on = FALSE /\ fw'.error = TRUE /\ fw'.data = fw.data
    BY <1>1, <2>1 DEF Types, Fw
  <2>3. Types'
    BY <1>1, <1>2, <1>3, <2>1, <2>2 DEF Types
  <2>4. QED
    BY <1>2, <2>1, <2>2, <2>3 DEF LInv, UpdateOfUnmarked, MarkedJoin, WrittenIsForChip, BootableImages
<1>6. QED
  BY <1>4, <1>5

LEMMA AbandonUploadInv == ASSUME NEW c \in Clients PROVE LInv /\ AbandonUpload(c) => LInv'
<1> SUFFICES ASSUME LInv, AbandonUpload(c)
             PROVE  LInv'
  OBVIOUS
<1>1. uploads' \in [Clients -> [img: Images \cup {"none"}, sent: 0 .. 2]]
  BY DEF AbandonUpload, NoUpload, LInv, Types
<1>2. UNCHANGED <<flash, nvs, settings, dev, fw, sys>>
  BY DEF AbandonUpload
<1>3. Types'
  BY <1>1, <1>2 DEF LInv, Types
<1>4. QED
  BY <1>2, <1>3, QuietStep

-----------------------------------------------------------------------------
(* The theorems.                                                           *)

LEMMA StutterInv ==
    ASSUME LInv, UNCHANGED <<flash, nvs, settings, dev, fw, sys, uploads>>
    PROVE  LInv'
<1>1. Types'
  BY DEF LInv, Types
<1>2. QED
  BY <1>1, QuietStep

LEMMA NextInv == LInv /\ [Next]_vars => LInv'
<1> SUFFICES ASSUME LInv, [Next]_vars
             PROVE  LInv'
  OBVIOUS
<1>1. CASE Setup
  BY <1>1, SetupInv
<1>2. CASE Loop
  <2>1. CASE CheckPendingReboot
    BY <2>1, CheckPendingRebootInv
  <2>2. CASE Format
    BY <2>2, RestartStep, SameFlash DEF Format, LInv, Types
  <2>3. CASE WifiTick(TRUE) \/ WifiTick(FALSE)
    BY <2>3, WifiTickInv
  <2>4. CASE ReconnectEnds
    BY <2>4, ReconnectEndsInv
  <2>5. CASE FirmwareReboots \/ SkipTasks \/ TickAll
    BY <2>5, TasksInv
  <2>6. QED
    BY <1>2, <2>1, <2>2, <2>3, <2>4, <2>5 DEF Loop
<1>3. CASE Request
  <2>1. CASE (\E kind \in {"restart", "reset", "format"} : ApiSystem(kind)) \/ ApiSettings \/ ApiConnect
             \/ ApiForget
    BY <2>1, QuietRequestsInv
  <2>2. CASE PressButton
    BY <2>2, StutterInv DEF PressButton
  <2>3. ASSUME NEW c \in Clients, BeginUpload(c) \/ UploadChunk(c) \/ EndUpload(c) \/ AbandonUpload(c)
        PROVE  LInv'
    BY <2>3, BeginUploadInv, UploadChunkInv, EndUploadInv, AbandonUploadInv
  <2>4. QED
    BY <1>3, <2>1, <2>2, <2>3 DEF Request
<1>4. CASE TimePasses
  BY <1>4, TimePassesInv
<1>5. CASE ConnectEnds
  BY <1>5, ConnectEndsInv
<1>6. CASE StaAssociates \/ NetworkChanges
  BY <1>6, QuietRequestsInv
<1>7. CASE PowerCut
  BY <1>7, RestartStep, SameFlash DEF PowerCut, LInv, Types
<1>8. CASE ReleaseButton \/ UNCHANGED vars
  BY <1>8, StutterInv DEF ReleaseButton, vars
<1>9. QED
  BY <1>1, <1>2, <1>3, <1>4, <1>5, <1>6, <1>7, <1>8 DEF Next

(* The invariant holds in every state of the device.                       *)
THEOREM DeviceInvariant == Spec => []LInv
BY InitInv, NextInv, PTL DEF Spec

(* An image that cannot join the network is never marked valid             *)
(* (main.cpp:128), with any uploads, resets and outages.                   *)
THEOREM MarkedValidIsProven == Spec => []ValidIsProven
<1>1. LInv => ValidIsProven
  BY DEF LInv, MarkedJoin, ValidIsProven
<1>2. QED
  BY <1>1, DeviceInvariant, PTL

(* The boot loader is switched to whole images for this chip only,         *)
(* although the chunks of any number of uploads are mixed.                 *)
THEOREM OnlyWholeImagesBoot == Spec => []BootsWholeImage
<1>1. LInv => BootsWholeImage
  BY InputsAssumption DEF LInv, Types, BootableImages, BootsWholeImage, Flash
<1>2. QED
  BY <1>1, DeviceInvariant, PTL
=============================================================================
