-------------------------- MODULE ThreadSyncProofs --------------------------
(***************************************************************************)
(* Theorems about Mutex and ConditionVariable (ThreadSync), for every      *)
(* finite set of threads and any number of timeouts and exceptions, and    *)
(* about the Queue and SizedQueue written over them, which stand on what   *)
(* is proved about the mutex.  Where an exception ends the wait of         *)
(* Mutex#lock its ensure clause sends a token that was not received; the   *)
(* theorems about a mutex assume that none strikes there, and allow it at  *)
(* every other receive, those of wait's ensure clause included.            *)
(***************************************************************************)
EXTENDS SizedQueue, SequenceTheorems, FiniteSetTheorems, TLAPS

-----------------------------------------------------------------------------
(* Facts about queues of distinct elements *)

\* What Append does to a queue of distinct elements.
LEMMA AppendDistinct ==
    ASSUME NEW S, NEW s \in Seq(S), IsInjective(s), NEW e \in S, e \notin ToSet(s)
    PROVE  /\ Append(s, e) \in Seq(S) /\ IsInjective(Append(s, e))
           /\ ToSet(Append(s, e)) = ToSet(s) \cup {e}
  <1>1. /\ Append(s, e) \in Seq(S) /\ Len(Append(s, e)) = Len(s) + 1
        /\ \A i \in 1..Len(s) : Append(s, e)[i] = s[i]
        /\ Append(s, e)[Len(s) + 1] = e
    BY AppendProperties
  <1>2. DOMAIN s = 1..Len(s) /\ DOMAIN Append(s, e) = 1..(Len(s) + 1) /\ Len(s) \in Nat
    BY <1>1, LenProperties
  <1>3. ToSet(Append(s, e)) = ToSet(s) \cup {e}
    <2>1. ASSUME NEW i \in 1..(Len(s) + 1) PROVE Append(s, e)[i] \in ToSet(s) \cup {e}
      BY <1>1, <1>2 DEF ToSet
    <2>2. ASSUME NEW i \in 1..Len(s) PROVE s[i] \in ToSet(Append(s, e))
      <3>1. i \in 1..(Len(s) + 1) /\ Append(s, e)[i] = s[i]
        BY <1>1, <1>2
      <3> QED
        BY <3>1, <1>2 DEF ToSet
    <2>3. e \in ToSet(Append(s, e))
      BY <1>1, <1>2 DEF ToSet
    <2> QED
      BY <2>1, <2>2, <2>3, <1>2 DEF ToSet
  <1>4. IsInjective(Append(s, e))
    BY <1>1, <1>2 DEF IsInjective, ToSet
  <1> QED
    BY <1>1, <1>3, <1>4

\* What shift, taken n times, leaves and takes.
LEMMA DropDistinct ==
    ASSUME NEW S, NEW s \in Seq(S), IsInjective(s), NEW n \in 0..Len(s)
    PROVE  /\ SubSeq(s, n + 1, Len(s)) \in Seq(S) /\ IsInjective(SubSeq(s, n + 1, Len(s)))
           /\ ToSet(SubSeq(s, 1, n)) \subseteq ToSet(s)
           /\ ToSet(SubSeq(s, n + 1, Len(s))) = ToSet(s) \ ToSet(SubSeq(s, 1, n))
           /\ IsFiniteSet(ToSet(SubSeq(s, 1, n))) /\ Cardinality(ToSet(SubSeq(s, 1, n))) = n
  <1> DEFINE a == SubSeq(s, 1, n)
             b == SubSeq(s, n + 1, Len(s))
  <1>1. Len(s) \in Nat /\ DOMAIN s = 1..Len(s) /\ s \in [1..Len(s) -> S]
    BY LenProperties
  <1>2. a \in Seq(S) /\ Len(a) = n /\ \A i \in 1..n : a[i] = s[i]
    <2>1. \A i \in 1..n : s[i] \in S
      BY <1>1
    <2> QED
      BY <1>1, <2>1, SubSeqProperties
  <1>3. b \in Seq(S) /\ Len(b) = Len(s) - n /\ \A i \in 1..(Len(s) - n) : b[i] = s[n + i]
    <2>1. \A i \in (n + 1)..Len(s) : s[i] \in S
      BY <1>1
    <2>2. n + 1 \in Int /\ Len(s) \in Int
      BY <1>1
    <2>3. /\ b \in Seq(S)
          /\ Len(b) = IF n + 1 <= Len(s) THEN Len(s) - (n + 1) + 1 ELSE 0
          /\ \A i \in 1..(Len(s) - (n + 1) + 1) : b[i] = s[(n + 1) + i - 1]
      BY <2>1, <2>2, SubSeqProperties
    <2> HIDE DEF b
    <2>4. \A i \in 1..(Len(s) - n) : b[i] = s[n + i]
      <3> SUFFICES ASSUME NEW i \in 1..(Len(s) - n) PROVE b[i] = s[n + i]
        OBVIOUS
      <3>1. i \in 1..(Len(s) - (n + 1) + 1) /\ (n + 1) + i - 1 = n + i
        BY <1>1
      <3> QED
        BY <2>3, <3>1
    <2>5. Len(b) = Len(s) - n
      BY <2>3
    <2> QED
      BY <2>3, <2>4, <2>5
  <1>4. DOMAIN a = 1..n /\ DOMAIN b = 1..(Len(s) - n)
    BY <1>2, <1>3, LenProperties
  <1> HIDE DEF a, b
  <1>5. ToSet(a) = {s[i] : i \in 1..n}
    BY <1>2, <1>4 DEF ToSet
  <1>6. ToSet(b) = {s[i] : i \in (n + 1)..Len(s)}
    <2>1. ASSUME NEW i \in (n + 1)..Len(s) PROVE s[i] \in ToSet(b)
      <3>1. i - n \in 1..(Len(s) - n) /\ b[i - n] = s[i]
        BY <1>1, <1>3
      <3> QED
        BY <3>1, <1>4 DEF ToSet
    <2>2. ASSUME NEW i \in 1..(Len(s) - n) PROVE b[i] \in {s[j] : j \in (n + 1)..Len(s)}
      BY <1>1, <1>3
    <2> QED
      BY <2>1, <2>2, <1>4 DEF ToSet
  <1>7. ToSet(a) \subseteq ToSet(s) /\ ToSet(b) = ToSet(s) \ ToSet(a)
    <2>1. \A i, j \in 1..Len(s) : s[i] = s[j] => i = j
      BY <1>1 DEF IsInjective
    <2>2. ToSet(s) = {s[i] : i \in 1..Len(s)}
      BY <1>1 DEF ToSet
    <2>3. ToSet(a) \subseteq ToSet(s)
      BY <1>1, <1>5, <2>2
    <2>4. \A x \in ToSet(b) : x \in ToSet(s) \ ToSet(a)
      BY <1>1, <1>5, <1>6, <2>1, <2>2
    <2>5. \A x \in ToSet(s) \ ToSet(a) : x \in ToSet(b)
      BY <1>1, <1>5, <1>6, <2>2
    <2> QED
      BY <2>3, <2>4, <2>5
  <1>8. IsInjective(b)
    <2> SUFFICES ASSUME NEW i \in 1..(Len(s) - n), NEW j \in 1..(Len(s) - n), b[i] = b[j]
                 PROVE  i = j
      BY <1>4 DEF IsInjective
    <2>1. n + i \in DOMAIN s /\ n + j \in DOMAIN s /\ s[n + i] = s[n + j]
      BY <1>1, <1>3
    <2>2. n + i = n + j
      BY <2>1 DEF IsInjective
    <2> QED
      BY <2>2
  <1>9. IsFiniteSet(ToSet(a)) /\ Cardinality(ToSet(a)) = n
    <2>1. IsFiniteSet(1..n) /\ Cardinality(1..n) = n
      BY FS_Interval
    <2>2. a \in Bijection(1..n, ToSet(a))
      BY <1>1, <1>2, <1>4, <1>5 DEF Bijection, Injection, Surjection, IsInjective, ToSet
    <2> QED
      BY <2>1, <2>2, FS_Bijection, FS_SameCardinalityBij DEF ExistsBijection
  <1> QED
    BY <1>3, <1>7, <1>8, <1>9 DEF a, b

\* What Array#delete does to an element of a queue of distinct elements.
LEMMA RemoveDistinct ==
    ASSUME NEW S, NEW s \in Seq(S), IsInjective(s), NEW e \in ToSet(s)
    PROVE  /\ RemoveFirst(s, e) \in Seq(S) /\ IsInjective(RemoveFirst(s, e))
           /\ ToSet(RemoveFirst(s, e)) = ToSet(s) \ {e}
  <1>1. Len(s) \in Nat
    BY LenProperties
  <1>2. DOMAIN s = 1..Len(s) /\ s \in [1..Len(s) -> S]
    BY LenProperties
  <1>3. PICK k \in 1..Len(s) : s[k] = e
    BY <1>2 DEF ToSet
  <1>4. {i \in 1..Len(s) : s[i] = e} = {k}
    BY <1>2, <1>3 DEF IsInjective
  <1>5. Min({k}) = k
    BY <1>3 DEF Min
  <1>6. SelectInSeq(s, LAMBDA v : v = e) = k
    BY <1>4, <1>5 DEF SelectInSeq
  <1>7. RemoveFirst(s, e) = SubSeq(s, 1, k - 1) \o SubSeq(s, k + 1, Len(s))
    BY <1>3, <1>6 DEF RemoveFirst, RemoveAt
  <1> DEFINE a == SubSeq(s, 1, k - 1)
             b == SubSeq(s, k + 1, Len(s))
             r == RemoveFirst(s, e)
  <1>8. a \in Seq(S) /\ Len(a) = k - 1 /\ \A i \in 1..(k - 1) : a[i] = s[i]
    <2>1. \A i \in 1..(k - 1) : s[i] \in S
      BY <1>1, <1>2
    <2>2. k - 1 \in Int /\ (IF 1 <= k - 1 THEN (k - 1) - 1 + 1 ELSE 0) = k - 1
      BY <1>1
    <2>3. /\ a \in Seq(S) /\ Len(a) = IF 1 <= k - 1 THEN (k - 1) - 1 + 1 ELSE 0
          /\ \A i \in 1..((k - 1) - 1 + 1) : a[i] = s[1 + i - 1]
      BY <2>1, <2>2, SubSeqProperties
    <2> HIDE DEF a
    <2> QED
      BY <1>1, <2>3
  <1>9. b \in Seq(S) /\ Len(b) = Len(s) - k /\ \A i \in 1..(Len(s) - k) : b[i] = s[k + i]
    <2>1. \A i \in (k + 1)..Len(s) : s[i] \in S
      BY <1>1, <1>2
    <2>2. k + 1 \in Int /\ Len(s) \in Int
      BY <1>1
    <2>3. /\ b \in Seq(S)
          /\ Len(b) = IF k + 1 <= Len(s) THEN Len(s) - (k + 1) + 1 ELSE 0
          /\ \A i \in 1..(Len(s) - (k + 1) + 1) : b[i] = s[(k + 1) + i - 1]
      BY <2>1, <2>2, SubSeqProperties
    <2> HIDE DEF b
    <2> QED
      BY <1>1, <2>3
  <1> HIDE DEF a, b
  <1>10. /\ r \in Seq(S) /\ Len(r) = Len(s) - 1
         /\ \A i \in 1..(Len(s) - 1) : r[i] = s[IF i < k THEN i ELSE i + 1]
    <2>1. /\ a \o b \in Seq(S) /\ Len(a \o b) = Len(a) + Len(b)
          /\ \A i \in 1..(Len(a) + Len(b)) :
               (a \o b)[i] = IF i <= Len(a) THEN a[i] ELSE b[i - Len(a)]
      BY <1>8, <1>9, ConcatProperties
    <2>2. Len(a) + Len(b) = Len(s) - 1
      BY <1>1, <1>8, <1>9
    <2>3. ASSUME NEW i \in 1..(Len(s) - 1)
          PROVE  (a \o b)[i] = s[IF i < k THEN i ELSE i + 1]
      <3>1. CASE i < k
        BY <1>1, <1>8, <2>1, <2>2, <3>1
      <3>2. CASE ~(i < k)
        <4>1. i - (k - 1) \in 1..(Len(s) - k) /\ k + (i - (k - 1)) = i + 1
          BY <1>1, <3>2
        <4>2. b[i - (k - 1)] = s[i + 1]
          BY <1>9, <4>1
        <4>3. (a \o b)[i] = b[i - (k - 1)]
          BY <1>1, <1>8, <2>1, <2>2, <3>2
        <4> QED
          BY <4>2, <4>3, <3>2
      <3> QED
        BY <3>1, <3>2
    <2>4. r = a \o b
      BY <1>7 DEF a, b
    <2> QED
      BY <2>1, <2>2, <2>3, <2>4
  <1>11. DOMAIN r = 1..(Len(s) - 1)
    BY <1>10, LenProperties
  <1> HIDE DEF r
  <1>12. IsInjective(r)
    <2> SUFFICES ASSUME NEW i \in 1..(Len(s) - 1), NEW j \in 1..(Len(s) - 1), r[i] = r[j]
                 PROVE  i = j
      BY <1>11 DEF IsInjective
    <2> DEFINE x == IF i < k THEN i ELSE i + 1
               y == IF j < k THEN j ELSE j + 1
    <2>1. x \in 1..Len(s) /\ y \in 1..Len(s)
      BY <1>1
    <2>2. s[x] = s[y]
      BY <1>10
    <2>3. x = y
      BY <1>2, <2>1, <2>2 DEF IsInjective
    <2> QED
      BY <1>1, <2>3
  <1>13. ToSet(r) = ToSet(s) \ {e}
    <2>1. ASSUME NEW i \in 1..(Len(s) - 1) PROVE r[i] \in ToSet(s) \ {e}
      <3> DEFINE x == IF i < k THEN i ELSE i + 1
      <3>1. x \in 1..Len(s) /\ x # k
        BY <1>1
      <3>2. s[x] # e
        BY <1>4, <3>1
      <3> QED
        BY <1>2, <1>10, <3>1, <3>2 DEF ToSet
    <2>2. ASSUME NEW i \in 1..Len(s), s[i] # e PROVE s[i] \in ToSet(r)
      <3> DEFINE x == IF i < k THEN i ELSE i - 1
      <3>1. x \in 1..(Len(s) - 1) /\ (IF x < k THEN x ELSE x + 1) = i
        BY <1>1, <1>3, <2>2
      <3>2. r[x] = s[i]
        BY <1>10, <3>1
      <3> QED
        BY <1>11, <3>1, <3>2 DEF ToSet
    <2> QED
      BY <1>2, <1>11, <2>1, <2>2 DEF ToSet
  <1> QED
    BY <1>10, <1>12, <1>13 DEF r

\* What shift does to a queue of distinct elements that is not empty.
LEMMA ShiftDistinct ==
    ASSUME NEW S, NEW s \in Seq(S), IsInjective(s), s # << >>
    PROVE  /\ Head(s) \in ToSet(s) /\ 1 \in 0..Len(s)
           /\ Tail(s) = SubSeq(s, 2, Len(s)) /\ ToSet(SubSeq(s, 1, 1)) = {Head(s)}
           /\ Tail(s) \in Seq(S) /\ IsInjective(Tail(s))
           /\ ToSet(Tail(s)) = ToSet(s) \ {Head(s)}
  <1>1. Len(s) \in Nat \ {0}
    BY EmptySeq
  <1>2. DOMAIN s = 1..Len(s) /\ s \in [1..Len(s) -> S]
    BY LenProperties
  <1>3. Tail(s) = SubSeq(s, 2, Len(s)) /\ Head(s) = s[1]
    BY TailIsSubSeq
  <1>4. 1 \in 0..Len(s) /\ 1 \in 1..Len(s) /\ 1 + 1 = 2
    BY <1>1
  <1>5. ToSet(SubSeq(s, 1, 1)) = {s[1]}
    <2>1. /\ SubSeq(s, 1, 1) \in Seq(S)
          /\ Len(SubSeq(s, 1, 1)) = IF 1 <= 1 THEN 1 - 1 + 1 ELSE 0
          /\ \A i \in 1..(1 - 1 + 1) : SubSeq(s, 1, 1)[i] = s[1 + i - 1]
      <3>1. \A i \in 1..1 : s[i] \in S
        BY <1>2, <1>4
      <3> QED
        BY <3>1, SubSeqProperties
    <2> DEFINE a == SubSeq(s, 1, 1)
    <2> HIDE DEF a
    <2>2. a \in Seq(S) /\ Len(a) = 1 /\ a[1] = s[1]
      BY <2>1 DEF a
    <2>3. DOMAIN a = {1}
      BY <2>2
    <2>4. ToSet(a) = {s[1]}
      BY <2>2, <2>3 DEF ToSet
    <2> QED
      BY <2>4 DEF a
  <1>6. Head(s) \in ToSet(s)
    BY <1>2, <1>3, <1>4 DEF ToSet
  <1>7. /\ SubSeq(s, 1 + 1, Len(s)) \in Seq(S) /\ IsInjective(SubSeq(s, 1 + 1, Len(s)))
        /\ ToSet(SubSeq(s, 1 + 1, Len(s))) = ToSet(s) \ ToSet(SubSeq(s, 1, 1))
    <2>1. PICK n \in 0..Len(s) : n = 1
      BY <1>4
    <2>2. /\ SubSeq(s, n + 1, Len(s)) \in Seq(S) /\ IsInjective(SubSeq(s, n + 1, Len(s)))
          /\ ToSet(SubSeq(s, n + 1, Len(s))) = ToSet(s) \ ToSet(SubSeq(s, 1, n))
      BY DropDistinct
    <2> QED
      BY <2>1, <2>2
  <1>8. SubSeq(s, 1 + 1, Len(s)) = Tail(s)
    BY <1>3, <1>4, Zenon
  <1> QED
    BY <1>3, <1>4, <1>5, <1>6, <1>7, <1>8, Zenon

-----------------------------------------------------------------------------
(* The mutex *)

InSection(t) == pc[t] \in {"test", "take"}

Types ==
    /\ pc \in [Threads -> Steps] /\ holding \subseteq Threads
    /\ owner \in Threads \cup {Nobody} /\ raises \in 0..MaxRaises

\* One token: in the channel, or with the thread in the internal section.
OneToken ==
    /\ tokens = IF \E t \in Threads : InSection(t) THEN 0 ELSE 1
    /\ \A t, u \in Threads : InSection(t) /\ InSection(u) => t = u

\* What the token protects: who is about to take the mutex has seen it free, and nobody
\* has taken it since; who has taken it in wait owns it until wait returns.
OwnerStands ==
    \A t \in Threads : /\ pc[t] = "take" => owner = Nobody
                       /\ pc[t] = "wait_relock" => owner = t

MutexInv == Types /\ OneToken /\ OwnerStands /\ Exclusion

\* The initial state satisfies MutexInv.
LEMMA InitMutex == Init => MutexInv
  BY SyncAssumption
  DEF Init, MutexInv, Types, Steps, OneToken, InSection, OwnerStands, Exclusion

\* The steps inside a call keep MutexInv.
LEMMA MutexWork ==
    ASSUME MutexInv, NEW t \in Threads, Step(t)
    PROVE  MutexInv'
  <1> USE SyncAssumption
      DEF MutexInv, Types, Steps, OneToken, InSection, OwnerStands, Exclusion, Goto, mutex, cv
  <1>1. CASE lock_receive(t)
    BY <1>1 DEF lock_receive
  <1>2. CASE lock_test(t)
    BY <1>2 DEF lock_test
  <1>3. CASE lock_park(t)
    BY <1>3 DEF lock_park
  <1>4. CASE lock_take(t)
    BY <1>4 DEF lock_take
  <1>5. CASE unlock(t) \/ wait_unlock(t)
    BY <1>5 DEF unlock, wait_unlock, Release
  <1>6. CASE wait(t) \/ wait_signaled(t)
    BY <1>6 DEF wait, wait_signaled
  <1>7. CASE wait_relock(t)
    BY <1>7 DEF wait_relock
  <1>8. CASE signal(t) \/ broadcast(t)
    BY <1>8 DEF signal, broadcast, Notify
  <1> QED
    BY <1>1, <1>2, <1>3, <1>4, <1>5, <1>6, <1>7, <1>8 DEF Step

\* An exception keeps MutexInv, if it does not strike the wait of Mutex#lock: where it
\* ends the ensure clause of wait after mutex.lock, the thread does own the mutex.
LEMMA MutexRaise ==
    ASSUME RaiseAt \cap {"park", "relock"} = {}, MutexInv, NEW t \in Threads, Raise(t)
    PROVE  MutexInv'
  <1>1. /\ pc[t] \in Receives \ {"park", "relock"} /\ raises < MaxRaises /\ raises' = raises + 1
        /\ tokens' = tokens /\ owner' = owner
    <2>1. pc[t] \in RaiseAt /\ pc[t] \in Steps
      BY DEF Raise, MutexInv, Types
    <2>2. pc[t] \in Receives \ {"park", "relock"}
      BY <2>1, SyncAssumption DEF Receives, Steps
    <2> QED
      BY <2>2 DEF Raise
  <1>2. PICK to \in {"lock", "out"} : pc' = [pc EXCEPT ![t] = to]
    BY DEF Raise, Goto
  <1>3. holding' = holding \/ (pc[t] = "wait_relock" /\ holding' = holding \cup {t})
    BY DEF Raise
  <1> QED
    BY <1>1, <1>2, <1>3, SyncAssumption
    DEF MutexInv, Types, Steps, OneToken, InSection, OwnerStands, Exclusion, Receives

\* A call of one of the methods keeps MutexInv.
LEMMA MutexCall ==
    ASSUME MutexInv, NEW t \in Threads, pc[t] = "out",
           NEW op \in {"lock", "unlock", "wait", "signal", "broadcast"}, Goto(t, op),
           UNCHANGED <<holding, mutex, raises>>
    PROVE  MutexInv'
  BY DEF MutexInv, Types, Steps, OneToken, InSection, OwnerStands, Exclusion, Goto, mutex

\* Every step keeps MutexInv, if no exception strikes the wait of Mutex#lock.
LEMMA MutexStep ==
    ASSUME RaiseAt \cap {"park", "relock"} = {}, MutexInv, [Next]_vars
    PROVE  MutexInv'
  <1> USE SyncAssumption
      DEF MutexInv, Types, Steps, OneToken, InSection, OwnerStands, Exclusion, Goto, mutex, cv
  <1>1. CASE UNCHANGED vars
    BY <1>1 DEF vars
  <1>2. ASSUME NEW t \in Threads, Call(t) PROVE MutexInv'
    BY <1>2 DEF Call
  <1>3. ASSUME NEW t \in Threads, try_lock(t) \/ wait_timeout(t) PROVE MutexInv'
    BY <1>3 DEF try_lock, wait_timeout
  <1>4. ASSUME NEW t \in Threads, Raise(t) PROVE MutexInv'
    <2> HIDE DEF MutexInv
    <2> QED
      BY <1>4, MutexRaise
  <1>5. ASSUME NEW t \in Threads, Step(t) PROVE MutexInv'
    <2> HIDE DEF MutexInv
    <2> QED
      BY <1>5, MutexWork
  <1> QED
    BY <1>1, <1>2, <1>3, <1>4, <1>5 DEF Next

-----------------------------------------------------------------------------
(* The queue of the mutex *)

\* A thread whose way to the mutex nothing can end.
Coming(t) == pc[t] \in {"relock", "test", "take"} \/ t \in woken

\* The threads in the wait of Mutex#lock are those that are queued and those that
\* have been woken, and a free mutex has a thread coming if it has a queue.
QueueInv ==
    /\ queue \in Seq(Threads) /\ IsInjective(queue)
    /\ ToSet(queue) \cap woken = {}
    /\ ToSet(queue) \cup woken = {t \in Threads : pc[t] = "park"}
    /\ owner = Nobody /\ queue # << >> => \E t \in Threads : Coming(t)

\* The initial state satisfies QueueInv.
LEMMA InitQueue == Init => QueueInv
  <1> SUFFICES ASSUME Init PROVE QueueInv
    OBVIOUS
  <1>1. queue = << >> /\ woken = {} /\ pc = [t \in Threads |-> "out"]
    BY DEF Init
  <1>2. queue \in Seq(Threads) /\ IsInjective(queue) /\ ToSet(queue) = {}
    BY <1>1 DEF IsInjective, ToSet
  <1> QED
    BY <1>1, <1>2 DEF QueueInv

\* unlock, also in ConditionVariable#wait, wakes the first of the queue.
LEMMA ReleaseQueue ==
    ASSUME MutexInv, QueueInv, NEW t \in Threads, pc[t] \in {"unlock", "wait_unlock"},
           NEW to \in {"out", "sleep"}, Goto(t, to), Release
    PROVE  QueueInv'
  <1> USE DEF QueueInv, Goto
  <1>1. pc' \in [Threads -> Steps] /\ {u \in Threads : pc'[u] = "park"} = {u \in Threads : pc[u] = "park"}
    BY DEF MutexInv, Types, Steps
  <1>2. CASE queue = << >>
    BY <1>1, <1>2 DEF Release
  <1>3. CASE queue # << >>
    <2>1. /\ Head(queue) \in ToSet(queue) /\ Tail(queue) \in Seq(Threads)
          /\ IsInjective(Tail(queue)) /\ ToSet(Tail(queue)) = ToSet(queue) \ {Head(queue)}
      BY <1>3, ShiftDistinct
    <2>2. Head(queue) \in Threads /\ Head(queue) # Nobody
      BY <2>1, SyncAssumption
    <2>3. queue' = Tail(queue) /\ woken' = woken \cup {Head(queue)}
      BY <1>3, <2>2 DEF Release
    <2>4. \E u \in Threads : Coming(u)'
      BY <2>2, <2>3 DEF Coming
    <2> QED
      BY <1>1, <2>1, <2>2, <2>3, <2>4
  <1> QED
    BY <1>2, <1>3

\* Every step keeps QueueInv, if no exception strikes the wait of Mutex#lock.
LEMMA QueueStep ==
    ASSUME RaiseAt \cap {"park", "relock"} = {}, MutexInv, QueueInv, [Next]_vars
    PROVE  QueueInv'
  <1> USE SyncAssumption DEF MutexInv, Types, Steps, QueueInv, Coming, Goto, mutex, cv
  <1>1. CASE UNCHANGED vars
    BY <1>1 DEF vars
  <1>2. ASSUME NEW t \in Threads, Call(t) PROVE QueueInv'
    BY <1>2 DEF Call
  <1>3. ASSUME NEW t \in Threads, try_lock(t) PROVE QueueInv'
    BY <1>3 DEF try_lock
  <1>4. ASSUME NEW t \in Threads, lock_receive(t) PROVE QueueInv'
    BY <1>4 DEF lock_receive
  <1>5. ASSUME NEW t \in Threads, lock_test(t) PROVE QueueInv'
    <2>1. CASE owner = Nobody
      BY <1>5, <2>1 DEF lock_test
    <2>2. CASE owner # Nobody
      <3>1. t \notin ToSet(queue) /\ t \notin woken
        BY <1>5 DEF lock_test
      <3>2. queue' = Append(queue, t)
        BY <1>5, <2>2 DEF lock_test
      <3>3. /\ queue' \in Seq(Threads) /\ IsInjective(queue')
            /\ ToSet(queue') = ToSet(queue) \cup {t}
        <4>1. queue \in Seq(Threads) /\ IsInjective(queue)
          OBVIOUS
        <4>2. /\ Append(queue, t) \in Seq(Threads) /\ IsInjective(Append(queue, t))
              /\ ToSet(Append(queue, t)) = ToSet(queue) \cup {t}
          BY ONLY <3>1, <4>1, AppendDistinct, t \in Threads
        <4> QED
          BY ONLY <3>2, <4>2
      <3>4. pc' = [pc EXCEPT ![t] = "park"] /\ owner' = owner /\ woken' = woken
        BY <1>5, <2>2 DEF lock_test
      <3>5. ToSet(queue') \cup woken' = {u \in Threads : pc'[u] = "park"}
        BY <3>3, <3>4
      <3> QED
        BY <2>2, <3>1, <3>3, <3>4, <3>5
    <2> QED
      BY <2>1, <2>2
  <1>6. ASSUME NEW t \in Threads, lock_park(t) PROVE QueueInv'
    BY <1>6 DEF lock_park
  <1>7. ASSUME NEW t \in Threads, lock_take(t) PROVE QueueInv'
    BY <1>7 DEF lock_take
  <1>8. ASSUME NEW t \in Threads, unlock(t) \/ wait_unlock(t) PROVE QueueInv'
    BY <1>8, ReleaseQueue DEF unlock, wait_unlock
  <1>9. ASSUME NEW t \in Threads, wait(t) \/ wait_signaled(t) \/ wait_timeout(t) PROVE QueueInv'
    BY <1>9 DEF wait, wait_signaled, wait_timeout
  <1>10. ASSUME NEW t \in Threads, wait_relock(t) PROVE QueueInv'
    BY <1>10 DEF wait_relock
  <1>11. ASSUME NEW t \in Threads, signal(t) \/ broadcast(t) PROVE QueueInv'
    BY <1>11 DEF signal, broadcast, Notify
  <1>12. ASSUME NEW t \in Threads, Raise(t) PROVE QueueInv'
    <2>1. pc[t] \notin {"park", "relock", "test", "take"} /\ t \notin woken
      BY <1>12 DEF Raise, Receives
    <2>2. queue' = queue
      BY <1>12, <2>1 DEF Raise
    <2>3. PICK to \in {"lock", "out"} : pc' = [pc EXCEPT ![t] = to]
      BY <1>12 DEF Raise
    <2>4. woken' = woken /\ owner' = owner
      BY <1>12, <2>1 DEF Raise
    <2> QED
      BY <2>1, <2>2, <2>3, <2>4
  <1> QED
    BY <1>1, <1>2, <1>3, <1>4, <1>5, <1>6, <1>7, <1>8, <1>9, <1>10, <1>11, <1>12 DEF Next, Step

-----------------------------------------------------------------------------
(* The condition variable *)

InWait == {"wait_unlock", "sleep", "lock", "test", "park", "relock", "take", "wait_relock"}

\* The queue of the condition holds waiting threads, each at most once; who was sent a
\* signal, or has received one, is waiting and no longer queued.
WaitersQueued ==
    /\ pc \in [Threads -> Steps] /\ waiting \subseteq Waiters
    /\ \A t \in Threads : /\ t \in waiting => pc[t] \in InWait
                          /\ pc[t] \in {"wait_unlock", "sleep", "wait_relock"} => t \in waiting
                          /\ pc[t] = "wait" => t \in Waiters
    /\ cvqueue \in Seq(Threads) /\ IsInjective(cvqueue)
    /\ \A t \in ToSet(cvqueue) : t \in waiting /\ pc[t] # "wait_unlock"
    /\ sent \subseteq InFlight /\ signaled \subseteq InFlight

OwedExact == owed = Cardinality(InFlight)

CvSound == WaitersQueued /\ OwedExact

\* An exception elsewhere in wait than in its receive_timeout may break all of it.
CvInv == struck \/ CvSound

\* The threads a signal is under way to are finitely many.
LEMMA InFlightFinite ==
    ASSUME WaitersQueued
    PROVE  IsFiniteSet(InFlight) /\ Cardinality(InFlight) \in Nat
  <1>1. InFlight \in SUBSET Threads
    BY SyncAssumption DEF InFlight, WaitersQueued
  <1> QED
    BY <1>1, SyncAssumption, FS_Subset, FS_CardinalityType

\* The initial state satisfies CvSound.
LEMMA InitCv == Init => CvSound
  <1> SUFFICES ASSUME Init PROVE CvSound
    OBVIOUS
  <1>1. /\ pc = [t \in Threads |-> "out"] /\ cvqueue = << >> /\ waiting = {} /\ sent = {}
        /\ signaled = {} /\ owed = 0
    BY DEF Init
  <1>2. cvqueue \in Seq(Threads) /\ IsInjective(cvqueue) /\ ToSet(cvqueue) = {}
    BY <1>1 DEF IsInjective, ToSet
  <1>3. InFlight = {}
    BY <1>1 DEF InFlight
  <1> QED
    BY <1>1, <1>2, <1>3, FS_EmptySet DEF CvSound, WaitersQueued, OwedExact, Steps, InWait

\* Steps that leave the condition variable alone and keep a waiting thread in its wait.
LEMMA CvUntouched ==
    ASSUME CvSound, UNCHANGED <<cvqueue, sent, signaled, waiting, owed>>,
           NEW t \in Threads, NEW to \in Steps, Goto(t, to),
           t \in waiting => to \in InWait \ {"wait_unlock"},
           t \in waiting => pc[t] # "wait_unlock",
           to \in {"wait_unlock", "sleep", "wait_relock"} => t \in waiting,
           to = "wait" => t \in Waiters
    PROVE  CvSound'
  <1> USE DEF CvSound, WaitersQueued, Goto
  <1>1. InFlight' = InFlight
    BY DEF InFlight
  <1> QED
    BY <1>1 DEF OwedExact

\* signal and broadcast: n waiters leave the queue, and n signals are under way.
LEMMA NotifyCv ==
    ASSUME CvSound, NEW t \in Threads, pc[t] \in {"signal", "broadcast"},
           NEW n \in 0..Len(cvqueue), Notify(t, n)
    PROVE  CvSound'
  <1> USE DEF CvSound, WaitersQueued
  <1> DEFINE first == ToSet(SubSeq(cvqueue, 1, n))
  <1>1. /\ cvqueue' \in Seq(Threads) /\ IsInjective(cvqueue')
        /\ first \subseteq ToSet(cvqueue) /\ ToSet(cvqueue') = ToSet(cvqueue) \ first
        /\ IsFiniteSet(first) /\ Cardinality(first) = n
    <2>1. cvqueue' = SubSeq(cvqueue, n + 1, Len(cvqueue))
      BY DEF Notify
    <2> QED
      BY <2>1, DropDistinct
  <1>2. /\ sent' = sent \cup first /\ signaled' = signaled /\ waiting' = waiting
        /\ owed' = owed + n /\ pc' = [pc EXCEPT ![t] = "out"]
    <2>1. /\ sent' = sent \cup (first \ {Nobody}) /\ signaled' = signaled /\ waiting' = waiting
          /\ owed' = owed + n /\ pc' = [pc EXCEPT ![t] = "out"]
      BY DEF Notify, Goto
    <2>2. Nobody \notin first
      BY <1>1, SyncAssumption
    <2> QED
      BY <2>1, <2>2
  <1> HIDE DEF first
  <1>3. t \notin waiting
    <2>1. t \in waiting => pc[t] \in InWait
      BY Zenon
    <2> QED
      BY <2>1 DEF InWait
  <1>4. InFlight' = InFlight \cup first /\ InFlight \cap first = {}
    BY <1>1, <1>2, <1>3 DEF InFlight
  <1>5. Cardinality(InFlight') = Cardinality(InFlight) + n
    <2>1. Cardinality(InFlight \cup first)
            = Cardinality(InFlight) + Cardinality(first) - Cardinality(InFlight \cap first)
      BY <1>1, InFlightFinite, FS_Union
    <2>2. Cardinality(InFlight \cap first) = 0
      BY <1>4, FS_EmptySet
    <2>3. n \in Nat /\ Cardinality(InFlight) \in Nat
      BY InFlightFinite
    <2> HIDE DEF CvSound, WaitersQueued
    <2> QED
      BY <1>1, <1>4, <2>1, <2>2, <2>3
  <1>6. WaitersQueued'
    BY <1>1, <1>2, <1>3, <1>4 DEF Steps, InWait
  <1> QED
    BY <1>2, <1>5, <1>6 DEF OwedExact

\* The end of wait: a thread that takes a signal consumes it, one that meets a signal
\* too late hands it to the next in the queue.
LEMMA RelockCv ==
    ASSUME CvSound, NEW t \in Threads, wait_relock(t)
    PROVE  CvSound'
  <1> USE DEF CvSound, WaitersQueued
  <1>1. /\ pc[t] = "wait_relock" /\ t \in waiting /\ pc' = [pc EXCEPT ![t] = "out"]
        /\ signaled' = signaled \ {t} /\ waiting' = waiting \ {t}
    <2>1. /\ pc[t] = "wait_relock" /\ pc' = [pc EXCEPT ![t] = "out"]
          /\ signaled' = signaled \ {t} /\ waiting' = waiting \ {t}
      BY DEF wait_relock, Goto
    <2> QED
      BY <2>1
  <1>2. t \in InFlight => Cardinality(InFlight \ {t}) = Cardinality(InFlight) - 1
    BY InFlightFinite, FS_RemoveElement
  <1>3. CASE t \in signaled \/ (t \notin ToSet(cvqueue) /\ cvqueue = << >>)
    <2>1. cvqueue' = cvqueue
      <3>1. cvqueue = << >> => SubSeq(cvqueue, 2, Len(cvqueue)) = << >>
        OBVIOUS
      <3> QED
        BY <1>3, <3>1 DEF wait_relock
    <2>2. sent' = sent \ {t} /\ owed' = owed - 1
      BY <1>3 DEF wait_relock
    <2>3. t \in InFlight /\ InFlight' = InFlight \ {t}
      BY <1>1, <1>3, <2>1 DEF InFlight
    <2>4. WaitersQueued'
      BY <1>1, <1>3, <2>1, <2>2, <2>3 DEF Steps, InWait, InFlight
    <2> QED
      BY <1>2, <2>2, <2>3, <2>4 DEF OwedExact
  <1>4. CASE t \notin signaled /\ t \notin ToSet(cvqueue) /\ cvqueue # << >>
    <2> DEFINE h == Head(cvqueue)
    <2>1. /\ h \in ToSet(cvqueue) /\ SubSeq(cvqueue, 2, Len(cvqueue)) = Tail(cvqueue)
          /\ Tail(cvqueue) \in Seq(Threads) /\ IsInjective(Tail(cvqueue))
          /\ ToSet(Tail(cvqueue)) = ToSet(cvqueue) \ {h}
      BY <1>4, ShiftDistinct
    <2>2. cvqueue' = Tail(cvqueue) /\ sent' = (sent \ {t}) \cup {h} /\ owed' = owed
      <3>1. h # Nobody
        BY <2>1, SyncAssumption
      <3> QED
        BY <1>4, <2>1, <3>1 DEF wait_relock
    <2> HIDE DEF h
    <2>3. h \in waiting /\ h # t /\ t \in InFlight /\ h \notin InFlight
      BY <1>1, <1>4, <2>1 DEF InFlight
    <2>4. InFlight' = (InFlight \ {t}) \cup {h}
      BY <1>1, <2>1, <2>2, <2>3 DEF InFlight
    <2>5. Cardinality(InFlight') = Cardinality(InFlight)
      <3>1. IsFiniteSet(InFlight \ {t})
        BY InFlightFinite, FS_RemoveElement
      <3>2. Cardinality((InFlight \ {t}) \cup {h}) = Cardinality(InFlight \ {t}) + 1
        BY <2>3, <3>1, FS_AddElement
      <3> QED
        BY <1>2, <2>3, <2>4, <3>2, InFlightFinite
    <2>6. WaitersQueued'
      BY <1>1, <2>1, <2>2, <2>3, <2>4 DEF Steps, InWait, InFlight
    <2> QED
      BY <2>2, <2>5, <2>6 DEF OwedExact
  <1>5. CASE t \notin signaled /\ t \in ToSet(cvqueue)
    <2>1. cvqueue' = RemoveFirst(cvqueue, t) /\ sent' = sent \ {t} /\ owed' = owed
      BY <1>5 DEF wait_relock, ToSet
    <2>2. /\ cvqueue' \in Seq(Threads) /\ IsInjective(cvqueue')
          /\ ToSet(cvqueue') = ToSet(cvqueue) \ {t}
      BY <1>5, <2>1, RemoveDistinct
    <2>3. InFlight' = InFlight
      BY <1>1, <1>5, <2>2 DEF InFlight
    <2>4. WaitersQueued'
      BY <1>1, <1>5, <2>1, <2>2, <2>3 DEF Steps, InWait, InFlight
    <2> QED
      BY <2>1, <2>3, <2>4 DEF OwedExact
  <1> QED
    BY <1>3, <1>4, <1>5

\* The ghost struck is never reset.
LEMMA StruckStays ==
    ASSUME struck, [Next]_vars
    PROVE  struck'
  <1>1. CASE UNCHANGED vars
    BY <1>1, Zenon DEF vars, cv
  <1>2. ASSUME NEW t \in Threads, Raise(t) PROVE struck'
    BY <1>2, Zenon DEF Raise
  <1>3. ASSUME NEW t \in Threads, Call(t) \/ try_lock(t) \/ Step(t) \/ wait_timeout(t) PROVE struck'
    <2>1. UNCHANGED struck
      BY <1>3, Zenon DEF Call, try_lock, wait_timeout, Step, lock_receive, lock_test, lock_park, lock_take,
         unlock, wait, wait_unlock, wait_signaled, wait_relock, signal, broadcast, Notify, cv
    <2> QED
      BY <2>1, Zenon
  <1> QED
    BY <1>1, <1>2, <1>3, Zenon DEF Next

\* Every step keeps CvSound, unless it is an exception that strikes elsewhere in wait.
LEMMA CvSoundStep ==
    ASSUME CvSound, [Next]_vars, ~struck'
    PROVE  CvSound'
  <1>1. CASE UNCHANGED vars
    BY <1>1 DEF vars, cv, CvSound, WaitersQueued, OwedExact, InFlight
  <1>2. ASSUME NEW t \in Threads, Call(t) PROVE CvSound'
    <2>1. PICK op \in {"signal", "broadcast", "unlock", "lock", "wait"} :
            Goto(t, op) /\ (op = "wait" => t \in Waiters)
      BY <1>2 DEF Call
    <2>2. t \notin waiting
      BY <1>2 DEF Call, CvSound, WaitersQueued, InWait
    <2> QED
      BY <1>2, <2>1, <2>2, CvUntouched DEF Call, Steps, cv
  <1>3. ASSUME NEW t \in Threads, try_lock(t) PROVE CvSound'
    BY <1>3 DEF try_lock, cv, CvSound, WaitersQueued, OwedExact, InFlight
  <1>4. ASSUME NEW t \in Threads, lock_receive(t) \/ lock_test(t) \/ lock_park(t) PROVE CvSound'
    <2>1. PICK to \in {"test", "take", "park", "relock"} : Goto(t, to)
      BY <1>4 DEF lock_receive, lock_test, lock_park
    <2>2. pc[t] # "wait_unlock" /\ UNCHANGED cv
      BY <1>4 DEF lock_receive, lock_test, lock_park
    <2> QED
      BY <2>1, <2>2, CvUntouched DEF Steps, InWait, cv
  <1>5. ASSUME NEW t \in Threads, lock_take(t) PROVE CvSound'
    <2>1. CASE t \in waiting
      BY <1>5, <2>1, CvUntouched DEF lock_take, Steps, InWait, cv
    <2>2. CASE t \notin waiting
      BY <1>5, <2>2, CvUntouched DEF lock_take, Steps, InWait, cv
    <2> QED
      BY <2>1, <2>2
  <1>6. ASSUME NEW t \in Threads, unlock(t) PROVE CvSound'
    <2>1. t \notin waiting
      BY <1>6 DEF unlock, CvSound, WaitersQueued, InWait
    <2> QED
      BY <1>6, <2>1, CvUntouched DEF unlock, Steps, cv
  <1>7. ASSUME NEW t \in Threads, wait(t) PROVE CvSound'
    <2> USE DEF CvSound, WaitersQueued
    <2>1. /\ pc[t] = "wait" /\ pc' = [pc EXCEPT ![t] = "wait_unlock"] /\ waiting' = waiting \cup {t}
          /\ UNCHANGED <<cvqueue, sent, signaled, owed>>
      BY <1>7 DEF wait, Goto
    <2>2. t \notin waiting /\ t \in Waiters
      BY <2>1 DEF InWait
    <2>3. InFlight' = InFlight
      BY <2>1, <2>2 DEF InFlight
    <2> QED
      BY <2>1, <2>2, <2>3 DEF OwedExact, Steps, InWait
  <1>8. ASSUME NEW t \in Threads, wait_unlock(t) PROVE CvSound'
    <2> USE DEF CvSound, WaitersQueued
    <2>1. /\ pc[t] = "wait_unlock" /\ pc' = [pc EXCEPT ![t] = "sleep"]
          /\ cvqueue' = Append(cvqueue, t) /\ UNCHANGED <<sent, signaled, waiting, owed>>
      BY <1>8 DEF wait_unlock, Goto
    <2>2. t \notin ToSet(cvqueue) /\ t \in waiting
      BY <2>1
    <2>3. /\ cvqueue' \in Seq(Threads) /\ IsInjective(cvqueue')
          /\ ToSet(cvqueue') = ToSet(cvqueue) \cup {t}
      <3>1. cvqueue \in Seq(Threads) /\ IsInjective(cvqueue) /\ t \notin ToSet(cvqueue)
        BY <2>2
      <3>2. cvqueue' = Append(cvqueue, t)
        BY <2>1
      <3> HIDE DEF CvSound, WaitersQueued
      <3>3. /\ Append(cvqueue, t) \in Seq(Threads) /\ IsInjective(Append(cvqueue, t))
            /\ ToSet(Append(cvqueue, t)) = ToSet(cvqueue) \cup {t}
        BY ONLY <3>1, AppendDistinct, t \in Threads
      <3> QED
        BY ONLY <3>2, <3>3
    <2>4. /\ pc' = [pc EXCEPT ![t] = "sleep"] /\ UNCHANGED <<sent, signaled, waiting, owed>>
      BY <2>1
    <2>5. InFlight' = InFlight
      BY <2>1, <2>2, <2>3 DEF InFlight
    <2> QED
      BY <2>2, <2>3, <2>4, <2>5 DEF OwedExact, Steps, InWait
  <1>9. ASSUME NEW t \in Threads, wait_signaled(t) PROVE CvSound'
    <2> USE DEF CvSound, WaitersQueued
    <2>1. /\ pc[t] = "sleep" /\ t \in sent /\ pc' = [pc EXCEPT ![t] = "lock"]
          /\ signaled' = signaled \cup {t} /\ sent' = sent \ {t}
          /\ UNCHANGED <<cvqueue, waiting, owed>>
      BY <1>9 DEF wait_signaled, Goto
    <2>2. InFlight' = InFlight
      BY <2>1 DEF InFlight
    <2> QED
      BY <2>1, <2>2 DEF OwedExact, Steps, InWait
  <1>10. ASSUME NEW t \in Threads, wait_timeout(t) PROVE CvSound'
    BY <1>10, CvUntouched DEF wait_timeout, Steps, InWait, cv
  <1>11. ASSUME NEW t \in Threads, signal(t) \/ broadcast(t) PROVE CvSound'
    <2>1. Len(cvqueue) \in Nat /\ (cvqueue # << >> => Len(cvqueue) # 0)
      BY EmptySeq, LenProperties DEF CvSound, WaitersQueued
    <2>2. PICK n \in 0..Len(cvqueue) : Notify(t, n)
      BY <1>11, <2>1 DEF signal, broadcast
    <2> QED
      BY <1>11, <2>2, NotifyCv DEF signal, broadcast
  <1>12. ASSUME NEW t \in Threads, Raise(t) PROVE CvSound'
    <2>1. struck' = (struck \/ (t \in waiting /\ pc[t] # "sleep"))
      BY <1>12 DEF Raise
    <2>2. t \notin waiting \/ pc[t] = "sleep"
      BY <2>1, Zenon
    <2>3. UNCHANGED <<cvqueue, sent, signaled, waiting, owed>>
      BY <1>12, <2>2 DEF Raise, InEnsure
    <2>4. pc[t] # "wait_unlock"
      BY <2>2 DEF CvSound, WaitersQueued
    <2>5. (pc[t] = "sleep" /\ Goto(t, "lock")) \/ (t \notin waiting /\ Goto(t, "out"))
      <3>1. CASE pc[t] = "sleep"
        <4>1. pc[t] \in {"wait_unlock", "sleep"}
          BY <3>1
        <4>2. Goto(t, "lock")
          BY <1>12, <4>1, Zenon DEF Raise
        <4> QED
          BY <3>1, <4>2
      <3>2. CASE pc[t] # "sleep"
        <4>1. pc[t] \notin {"wait_unlock", "sleep"}
          BY <2>4, <3>2
        <4>2. Goto(t, "out")
          BY <1>12, <4>1, Zenon DEF Raise
        <4> QED
          BY <2>2, <3>2, <4>2, Zenon
      <3> QED
        BY <3>1, <3>2
    <2> QED
      BY <2>3, <2>4, <2>5, CvUntouched DEF Steps, InWait
  <1> QED
    BY <1>1, <1>2, <1>3, <1>4, <1>5, <1>6, <1>7, <1>8, <1>9, <1>10, <1>11, <1>12, RelockCv
    DEF Next, Step

\* Every step keeps CvInv, wherever exceptions strike.
LEMMA CvStep ==
    ASSUME CvInv, [Next]_vars
    PROVE  CvInv'
  BY CvSoundStep, StruckStays, Zenon DEF CvInv

-----------------------------------------------------------------------------
\* Mutual exclusion of Mutex#lock, try_lock and ConditionVariable#wait for any number of
\* threads, if no exception strikes a thread that waits in lock.
THEOREM MutualExclusion ==
    ASSUME RaiseAt \cap {"park", "relock"} = {}
    PROVE  Spec => []Exclusion
  <1>1. MutexInv => Exclusion
    BY DEF MutexInv
  <1> QED
    BY <1>1, InitMutex, MutexStep, PTL DEF Spec

\* The token of the mutex is never lost or doubled: the internal section has at most one
\* thread, and the token is in the channel whenever it has none.
THEOREM TokenKept ==
    ASSUME RaiseAt \cap {"park", "relock"} = {}
    PROVE  Spec => []TokenBalance
  <1>1. MutexInv => TokenBalance
    <2> SUFFICES ASSUME MutexInv PROVE TokenBalance
      OBVIOUS
    <2> DEFINE Section == {t \in Threads : pc[t] \in {"test", "take"}}
    <2>1. CASE Section = {}
      BY <2>1, FS_EmptySet DEF MutexInv, OneToken, InSection, TokenBalance
    <2>2. CASE Section # {}
      <3>1. PICK t \in Threads : InSection(t)
        BY <2>2 DEF InSection
      <3>2. Section = {t} /\ tokens = 0
        BY <3>1 DEF MutexInv, OneToken, InSection
      <3>3. Cardinality(Section) = 1
        BY <3>2, FS_Singleton
      <3> QED
        BY <3>2, <3>3 DEF TokenBalance
    <2> QED
      BY <2>1, <2>2
  <1> QED
    BY <1>1, InitMutex, MutexStep, PTL DEF Spec

\* No wakeup of the mutex is lost: a free mutex with a thread asleep in its queue has
\* another one on its way to take it, which will wake the sleeper when it unlocks.
THEOREM SleeperCovered ==
    ASSUME RaiseAt \cap {"park", "relock"} = {}
    PROVE  Spec => []NoLostUnlock
  <1>1. MutexInv /\ QueueInv => NoLostUnlock
    <2> SUFFICES ASSUME MutexInv, QueueInv, owner = Nobody, ToSet(queue) \cap Threads # {}
                 PROVE  \E t \in Threads : OnItsWay(t)
      BY DEF NoLostUnlock
    <2>1. queue # << >>
      BY DEF ToSet
    <2>2. PICK t \in Threads : Coming(t)
      BY <2>1 DEF QueueInv
    <2>3. OnItsWay(t)
      BY <2>2 DEF QueueInv, Coming, OnItsWay
    <2> QED
      BY <2>3
  <1>2. MutexInv /\ QueueInv /\ [Next]_vars => (MutexInv /\ QueueInv)'
    BY MutexStep, QueueStep
  <1> QED
    BY <1>1, <1>2, InitMutex, InitQueue, PTL DEF Spec

\* No signal of a condition variable is lost to a timeout or to an exception in wait's
\* receive_timeout, in any interleaving: each one that took a waiter off the queue is
\* under way to a thread in wait.  It holds up to the first exception that strikes
\* elsewhere in wait, which is where the code loses it (in the ensure clause).
THEOREM SignalsReach == Spec => []SignalsKept
  <1>1. CvInv => SignalsKept
    BY Zenon DEF CvInv, CvSound, OwedExact, SignalsKept
  <1>2. Init => CvInv
    BY InitCv, Zenon DEF CvInv
  <1> QED
    BY <1>1, <1>2, CvStep, PTL DEF Spec

-----------------------------------------------------------------------------
(* Queue and SizedQueue.  Their steps are calls of the mutex and the          *)
(* condition, steps inside such a call, and what push and pop do between two. *)

Jobs == {"none", "idle", "push", "pop", "shift", "leave", "fail", "again",
         "size", "sizeagain", "sized", "max", "notify"}

\* A consumer between @que.empty? and @que.shift holds the mutex.
JobsHeld ==
    /\ job \in [Threads -> Jobs]
    /\ \A t \in Threads : job[t] = "shift" => pc[t] = "out" /\ t \in holding /\ que # << >>

ValuesTyped == pushed \in Nat /\ que \in Seq(Nat) /\ popped \in Seq(Nat)

\* The values popped and those in @que are the numbers pushed, element by element.
ValuesInOrder ==
    /\ Len(popped) + Len(que) = pushed
    /\ \A i \in 1..Len(popped) : popped[i] = i
    /\ \A i \in 1..Len(que) : que[i] = Len(popped) + i

OrderInv == MutexInv /\ JobsHeld /\ ValuesTyped /\ ValuesInOrder

\* Array#<< of the next number.
LEMMA PushOrder ==
    ASSUME ValuesTyped, ValuesInOrder, que' = Append(que, pushed + 1), pushed' = pushed + 1,
           popped' = popped
    PROVE  ValuesTyped' /\ ValuesInOrder' /\ que' # << >>
  <1>1. Len(que) \in Nat /\ Len(popped) \in Nat /\ pushed + 1 \in Nat
    BY LenProperties DEF ValuesTyped
  <1>2. /\ Append(que, pushed + 1) \in Seq(Nat)
        /\ Len(Append(que, pushed + 1)) = Len(que) + 1
        /\ \A i \in 1..Len(que) : Append(que, pushed + 1)[i] = que[i]
        /\ Append(que, pushed + 1)[Len(que) + 1] = pushed + 1
    BY <1>1, AppendProperties DEF ValuesTyped
  <1>3. PICK q, n, p : q = que' /\ n = Len(que) /\ p = Len(popped)
    OBVIOUS
  <1>4. q \in Seq(Nat) /\ Len(q) = n + 1 /\ n \in Nat /\ p \in Nat /\ p + n = pushed
    BY <1>1, <1>2, <1>3 DEF ValuesInOrder
  <1>5. ASSUME NEW i \in 1..(n + 1) PROVE q[i] = p + i
    <2>1. CASE i = n + 1
      <3>1. q[i] = pushed + 1
        BY <1>2, <1>3, <2>1
      <3> QED
        BY <1>4, <2>1, <3>1
    <2>2. CASE i # n + 1
      <3>1. i \in 1..n
        BY <1>4, <2>2
      <3>2. q[i] = que[i] /\ que[i] = p + i
        BY <1>2, <1>3, <3>1 DEF ValuesInOrder
      <3> QED
        BY <3>2
    <2> QED
      BY <2>1, <2>2
  <1>6. p + (n + 1) = pushed + 1
    BY <1>1, <1>4
  <1>7. q # << >>
    BY <1>4, EmptySeq
  <1>8. Len(que') = n + 1 /\ \A i \in 1..Len(que') : que'[i] = Len(popped') + i
    BY <1>3, <1>4, <1>5
  <1>9. Len(popped') + Len(que') = pushed'
    BY <1>3, <1>6, <1>8
  <1>10. \A i \in 1..Len(popped') : popped'[i] = i
    BY DEF ValuesInOrder
  <1> QED
    BY <1>1, <1>3, <1>4, <1>7, <1>8, <1>9, <1>10 DEF ValuesTyped, ValuesInOrder

\* Array#shift of a queue that is not empty.
LEMMA ShiftOrder ==
    ASSUME ValuesTyped, ValuesInOrder, que # << >>,
           popped' = Append(popped, Head(que)), que' = Tail(que), pushed' = pushed
    PROVE  ValuesTyped' /\ ValuesInOrder'
  <1>1. Len(que) \in Nat /\ Len(popped) \in Nat /\ Len(que) # 0
    BY LenProperties, EmptySeq DEF ValuesTyped
  <1>2. PICK n, p, q, r : n = Len(que) /\ p = Len(popped) /\ q = que' /\ r = popped'
    OBVIOUS
  <1>3. n \in Nat /\ p \in Nat /\ n # 0 /\ p + n = pushed
    BY <1>1, <1>2 DEF ValuesInOrder
  <1>4. Head(que) = p + 1
    <2>1. Head(que) = que[1]
      BY HeadTailProperties DEF ValuesTyped
    <2>2. 1 \in 1..n
      BY <1>3
    <2> QED
      BY <1>2, <2>1, <2>2 DEF ValuesInOrder
  <1>5. q \in Seq(Nat) /\ Len(q) = n - 1 /\ \A i \in 1..(n - 1) : q[i] = que[i + 1]
    <2>1. /\ Tail(que) \in Seq(Nat) /\ Len(Tail(que)) = Len(que) - 1
          /\ \A i \in 1..Len(Tail(que)) : Tail(que)[i] = que[i + 1]
      BY HeadTailProperties DEF ValuesTyped
    <2> QED
      BY <1>2, <2>1
  <1>6. /\ r \in Seq(Nat) /\ Len(r) = p + 1
        /\ \A i \in 1..p : r[i] = popped[i]
        /\ r[p + 1] = p + 1
    <2>1. p + 1 \in Nat
      BY <1>3
    <2>2. /\ Append(popped, p + 1) \in Seq(Nat)
          /\ Len(Append(popped, p + 1)) = Len(popped) + 1
          /\ \A i \in 1..Len(popped) : Append(popped, p + 1)[i] = popped[i]
          /\ Append(popped, p + 1)[Len(popped) + 1] = p + 1
      BY <2>1, AppendProperties DEF ValuesTyped
    <2>3. r = Append(popped, p + 1)
      BY <1>2, <1>4
    <2> QED
      BY <1>2, <2>2, <2>3
  <1>7. \A i \in 1..p : popped[i] = i
    BY <1>2 DEF ValuesInOrder
  <1>8. \A i \in 1..(p + 1) : r[i] = i
    <2>1. \A i \in 1..(p + 1) : i \in 1..p \/ i = p + 1
      BY <1>3
    <2> QED
      BY <1>6, <1>7, <2>1
  <1>9. \A i \in 1..(n - 1) : q[i] = (p + 1) + i
    <2> SUFFICES ASSUME NEW i \in 1..(n - 1) PROVE q[i] = (p + 1) + i
      OBVIOUS
    <2>1. i + 1 \in 1..n /\ p + (i + 1) = (p + 1) + i
      BY <1>3
    <2>2. que[i + 1] = p + (i + 1)
      BY <1>2, <2>1 DEF ValuesInOrder
    <2> QED
      BY <1>5, <2>1, <2>2
  <1>10. (p + 1) + (n - 1) = pushed
    BY <1>3
  <1> QED
    BY <1>2, <1>5, <1>6, <1>8, <1>9, <1>10 DEF ValuesTyped, ValuesInOrder

\* What stays when a step leaves the values alone and t, which is not about to shift,
\* gets another job.
LEMMA JobChanged ==
    ASSUME JobsHeld, ValuesTyped, ValuesInOrder, UNCHANGED <<que, pushed, popped>>,
           NEW t \in Threads, NEW j \in Jobs \ {"shift"}, DoJob(t, j),
           \A u \in Threads \ {t} : pc'[u] = pc[u], holding \ {t} \subseteq holding'
    PROVE  JobsHeld' /\ ValuesTyped' /\ ValuesInOrder'
  BY DEF JobsHeld, ValuesTyped, ValuesInOrder, DoJob

\* The calls of @mutex and @resource, and of @size_mutex and @sem.
LEMMA CallsOrder ==
    ASSUME OrderInv, NEW t \in Threads, NEW j \in Jobs \ {"shift"},
           NEW op \in {"lock", "unlock", "wait", "signal", "broadcast"},
           pc[t] = "out", Calls(t, op, j)
    PROVE  OrderInv'
  <1>1. Goto(t, op) /\ DoJob(t, j) /\ UNCHANGED <<holding, mutex, raises, que, pushed, popped>>
    BY DEF Calls, syncVars
  <1>2. MutexInv'
    BY <1>1, MutexCall DEF OrderInv
  <1>3. \A u \in Threads \ {t} : pc'[u] = pc[u]
    BY <1>1 DEF Goto, OrderInv, MutexInv, Types
  <1> QED
    BY <1>1, <1>2, <1>3, JobChanged DEF OrderInv

LEMMA OtherOrder ==
    ASSUME OrderInv, NEW t \in Threads, NEW j \in Jobs \ {"shift"}, DoJob(t, j),
           UNCHANGED <<pc, syncVars, que, pushed, popped>>
    PROVE  OrderInv'
  <1>1. UNCHANGED <<pc, holding, mutex, raises>>
    BY DEF syncVars
  <1>2. MutexInv'
    BY <1>1 DEF OrderInv, MutexInv, Types, OneToken, InSection, OwnerStands, Exclusion, mutex
  <1> QED
    BY <1>1, <1>2, JobChanged DEF OrderInv

\* The steps inside a call of @mutex or @resource.
LEMMA StepOrder ==
    ASSUME OrderInv, NEW t \in Threads, Step(t), UNCHANGED <<que, pushed, popped, job>>
    PROVE  OrderInv'
  <1>1. MutexInv'
    BY MutexWork DEF OrderInv
  <1>2. pc[t] # "out" /\ holding \ {t} \subseteq holding' /\ \A u \in Threads \ {t} : pc'[u] = pc[u]
    BY DEF Step, lock_receive, lock_test, lock_park, lock_take, unlock, wait, wait_unlock,
       wait_signaled, wait_relock, signal, broadcast, Notify, Goto, OrderInv, MutexInv, Types
  <1>3. JobsHeld'
    BY <1>2 DEF OrderInv, JobsHeld
  <1> QED
    BY <1>1, <1>3 DEF OrderInv, ValuesTyped, ValuesInOrder

\* Every step of a SizedQueue keeps the order of its values.
LEMMA OrderStep ==
    ASSUME RaiseAt \cap {"park", "relock"} = {}, OrderInv, [SizedNext]_sizedVars
    PROVE  OrderInv'
  <1>1. CASE UNCHANGED sizedVars
    BY <1>1 DEF sizedVars, queueVars, vars, OrderInv, MutexInv, Types, OneToken, InSection, OwnerStands,
       Exclusion, mutex, JobsHeld, ValuesTyped, ValuesInOrder
  <1>2. ASSUME NEW t \in Threads, size_enter(t) \/ size_leave(t) \/ notify(t) \/ set_max(t)
        PROVE  OrderInv'
    <2>1. PICK j \in Jobs \ {"shift"} : DoJob(t, j) /\ UNCHANGED <<pc, syncVars, que, pushed, popped>>
      BY <1>2 DEF size_enter, size_leave, notify, set_max, SizeCalls, Jobs
    <2> QED
      BY <2>1, OtherOrder
  <1>3. ASSUME NEW t \in Threads, pop_enter(t) \/ push_test(t) \/ pop_leave(t)
        PROVE  OrderInv'
    <2>1. \/ \E j \in Jobs \ {"shift"} : DoJob(t, j) /\ UNCHANGED <<pc, syncVars, que, pushed, popped>>
          \/ \E j \in Jobs \ {"shift"}, op \in {"lock", "unlock", "wait", "signal", "broadcast"} :
               pc[t] = "out" /\ Calls(t, op, j)
      BY <1>3 DEF pop_enter, push_test, pop_leave, SizeCalls, QueueCalls, SizeAt, At, Jobs
    <2> QED
      BY <2>1, OtherOrder, CallsOrder
  <1>4. ASSUME NEW t \in Threads, Step(t), UNCHANGED <<que, pushed, popped, job>>
        PROVE  OrderInv'
    BY <1>4, StepOrder
  <1>5. CASE UNCHANGED queueVars
    BY <1>5 DEF queueVars, vars, OrderInv, MutexInv, Types, OneToken, InSection, OwnerStands,
       Exclusion, mutex, JobsHeld, ValuesTyped, ValuesInOrder
  <1>6. ASSUME NEW t \in Threads, push(t)
        PROVE  OrderInv'
    <2>1. /\ pc[t] = "out" /\ job[t] = "push" /\ que' = Append(que, pushed + 1) /\ pushed' = pushed + 1
          /\ Goto(t, "signal") /\ DoJob(t, "leave") /\ popped' = popped
          /\ UNCHANGED <<holding, mutex, raises>>
      BY <1>6 DEF push, At, syncVars
    <2>2. MutexInv'
      BY <2>1, MutexCall DEF OrderInv
    <2>3. ValuesTyped' /\ ValuesInOrder' /\ que' # << >>
      BY <2>1, PushOrder DEF OrderInv
    <2>4. JobsHeld'
      <3>1. \A u \in Threads \ {t} : pc'[u] = pc[u]
        BY <2>1 DEF Goto, OrderInv, MutexInv, Types
      <3> QED
        BY <2>1, <2>3, <3>1 DEF OrderInv, JobsHeld, DoJob, Jobs
    <2> QED
      BY <2>2, <2>3, <2>4 DEF OrderInv
  <1>7. ASSUME NEW t \in Threads, pop_test(t)
        PROVE  OrderInv'
    <2>1. CASE Calls(t, "wait", "again")
      BY <1>7, <2>1, CallsOrder DEF pop_test, At, Jobs
    <2>2. CASE /\ raises < MaxRaises /\ raises' = raises + 1 /\ DoJob(t, "fail")
               /\ UNCHANGED <<pc, holding, mutex, cv, que, pushed, popped>>
      <3>1. MutexInv'
        BY <2>2, SyncAssumption DEF OrderInv, MutexInv, Types, OneToken, InSection, OwnerStands,
           Exclusion, mutex
      <3> QED
        BY <2>2, <3>1, JobChanged DEF OrderInv, Jobs
    <2>3. CASE que # << >> /\ DoJob(t, "shift") /\ UNCHANGED <<pc, syncVars, que, pushed, popped>>
      <3>1. UNCHANGED <<pc, holding, mutex, raises>>
        BY <2>3 DEF syncVars
      <3>2. MutexInv'
        BY <3>1 DEF OrderInv, MutexInv, Types, OneToken, InSection, OwnerStands, Exclusion, mutex
      <3>3. pc[t] = "out" /\ t \in holding
        BY <1>7 DEF pop_test, At
      <3>4. JobsHeld'
        BY <2>3, <3>1, <3>3 DEF OrderInv, JobsHeld, DoJob, Jobs
      <3> QED
        BY <2>3, <3>2, <3>4 DEF OrderInv, ValuesTyped, ValuesInOrder
    <2> QED
      BY <1>7, <2>1, <2>2, <2>3 DEF pop_test
  <1>8. ASSUME NEW t \in Threads, pop_shift(t)
        PROVE  OrderInv'
    <2>1. pc[t] = "out" /\ job[t] = "shift" /\ t \in holding /\ que # << >>
      BY <1>8 DEF pop_shift, At, OrderInv, JobsHeld
    <2>2. /\ popped' = Append(popped, Head(que)) /\ que' = Tail(que) /\ pushed' = pushed
          /\ Goto(t, "signal") /\ DoJob(t, "leave") /\ UNCHANGED <<holding, mutex, raises>>
      BY <1>8, <2>1 DEF pop_shift, syncVars
    <2>3. MutexInv'
      BY <2>1, <2>2, MutexCall DEF OrderInv
    <2>4. ValuesTyped' /\ ValuesInOrder'
      BY <2>1, <2>2, ShiftOrder DEF OrderInv
    <2>5. JobsHeld'
      <3>1. \A u \in Threads \ {t} : job[u] # "shift"
        BY <2>1 DEF OrderInv, JobsHeld, MutexInv, Exclusion
      <3> QED
        BY <2>2, <3>1 DEF OrderInv, JobsHeld, DoJob, Jobs
    <2> QED
      BY <2>3, <2>4, <2>5 DEF OrderInv
  <1>9. ASSUME NEW t \in Threads, Interrupt(t)
        PROVE  OrderInv'
    <2>1. PICK j \in {"leave", "sized", "fail", "idle"} : Raise(t) /\ DoJob(t, j) /\ UNCHANGED <<que, pushed, popped>>
      BY <1>9 DEF Interrupt
    <2>2. MutexInv'
      BY <2>1, MutexRaise DEF OrderInv
    <2>3. holding \subseteq holding'
      BY <2>1 DEF Raise
    <2>4. \A u \in Threads \ {t} : pc'[u] = pc[u]
      BY <2>1 DEF Raise, Goto, OrderInv, MutexInv, Types
    <2> QED
      BY <2>1, <2>2, <2>3, <2>4, JobChanged DEF OrderInv, Jobs
  <1>10. ASSUME NEW t \in Threads, SizeInterrupt(t)
         PROVE  OrderInv'
    <2>1. PICK j \in {"sized", "idle"} : DoJob(t, j) /\ UNCHANGED <<pc, holding, mutex, que, pushed, popped>>
      BY <1>10 DEF SizeInterrupt
    <2>2. raises < MaxRaises /\ raises' = raises + 1
      BY <1>10 DEF SizeInterrupt, Size!Raise
    <2>3. MutexInv'
      BY <2>1, <2>2, SyncAssumption DEF OrderInv, MutexInv, Types, OneToken, InSection, OwnerStands,
         Exclusion, mutex
    <2> QED
      BY <2>1, <2>3, JobChanged DEF OrderInv, Jobs
  <1> QED
    BY <1>1, <1>2, <1>3, <1>4, <1>5, <1>6, <1>7, <1>8, <1>9, <1>10 DEF SizedNext, SizedWork, QueueCalls

LEMMA InitOrder == SizedInit => OrderInv
  <1> SUFFICES ASSUME SizedInit PROVE OrderInv
    OBVIOUS
  <1>1. /\ Init /\ que = << >> /\ pushed = 0 /\ popped = << >>
        /\ \E crew \in Crews : job = [t \in Threads |-> IF t \in crew THEN "idle" ELSE "none"]
    BY DEF SizedInit, QueueInit
  <1>2. MutexInv
    BY <1>1, InitMutex
  <1>3. JobsHeld
    BY <1>1 DEF JobsHeld, Jobs
  <1>4. << >> \in Seq(Nat) /\ Len(<< >>) = 0
    OBVIOUS
  <1>5. ValuesTyped /\ ValuesInOrder
    BY <1>1, <1>4 DEF ValuesTyped, ValuesInOrder
  <1> QED
    BY <1>2, <1>3, <1>5 DEF OrderInv

\* A SizedQueue is a FIFO for any number of producers, consumers, values and interrupted
\* calls: every value pushed is popped once, in order, and no pop gets nil, if no
\* exception strikes the wait of @mutex.lock.
THEOREM QueueIsFifo ==
    ASSUME RaiseAt \cap {"park", "relock"} = {}
    PROVE  SizedSpec => []PoppedInOrder
  <1>1. OrderInv => PoppedInOrder
    <2> SUFFICES ASSUME OrderInv PROVE popped \o que = [i \in 1..pushed |-> i]
      BY DEF PoppedInOrder
    <2>1. que \in Seq(Nat) /\ popped \in Seq(Nat) /\ pushed \in Nat
      BY DEF OrderInv, ValuesTyped
    <2>2. PICK n, p, r : n = Len(que) /\ p = Len(popped) /\ r = popped \o que
      OBVIOUS
    <2>3. n \in Nat /\ p \in Nat /\ p + n = pushed
      BY <2>1, <2>2, LenProperties DEF OrderInv, ValuesInOrder
    <2>4. /\ r \in Seq(Nat) /\ Len(r) = p + n
          /\ \A i \in 1..(p + n) : r[i] = IF i <= p THEN popped[i] ELSE que[i - p]
      BY <2>1, <2>2, ConcatProperties
    <2>5. /\ \A i \in 1..p : popped[i] = i
          /\ \A i \in 1..n : que[i] = p + i
      BY <2>2 DEF OrderInv, ValuesInOrder
    <2>6. ASSUME NEW i \in 1..(p + n) PROVE r[i] = i
      <3>1. CASE i <= p
        <4>1. i \in 1..p
          BY <2>3, <3>1
        <4> QED
          BY <2>4, <2>5, <3>1, <4>1
      <3>2. CASE ~(i <= p)
        <4>1. i - p \in 1..n /\ p + (i - p) = i
          BY <2>3, <3>2
        <4> QED
          BY <2>4, <2>5, <3>2, <4>1
      <3> QED
        BY <3>1, <3>2
    <2>7. r = [i \in 1..(p + n) |-> r[i]]
      BY <2>4, LenProperties
    <2>8. r = [i \in 1..(p + n) |-> i]
      BY <2>6, <2>7
    <2> QED
      BY <2>2, <2>3, <2>8
  <1>2. OrderInv /\ [SizedNext]_sizedVars => OrderInv'
    BY OrderStep
  <1> QED
    BY <1>1, <1>2, InitOrder, PTL DEF SizedSpec

-----------------------------------------------------------------------------
(* The bound of SizedQueue.  The thread inside push owns @size_mutex from the *)
(* test of the size to the append, which keeps other producers and max= away; *)
(* @mutex alone would not.                                                    *)

SizeInSection(t) == spc[t] \in {"test", "take"}

\* MutexInv, of @size_mutex.
SizeMutexInv ==
    /\ spc \in [Threads -> Steps] /\ sholding \subseteq Threads /\ sowner \in Threads \cup {Nobody}
    /\ stokens = IF \E t \in Threads : SizeInSection(t) THEN 0 ELSE 1
    /\ \A t, u \in Threads : SizeInSection(t) /\ SizeInSection(u) => t = u
    /\ \A t \in Threads : /\ spc[t] = "take" => sowner = Nobody
                          /\ spc[t] = "wait_relock" => sowner = t
    /\ Size!Exclusion

\* A producer that has found room holds @size_mutex, and there is room until it has pushed.
RoomHeld ==
    /\ max \in Nat
    /\ \A t \in Threads : job[t] = "push" => spc[t] = "out" /\ t \in sholding /\ Len(que) < max

BoundInv == OrderInv /\ SizeMutexInv /\ RoomHeld

\* The steps inside a call of @size_mutex or @sem.
LEMMA SizeMutexWork ==
    ASSUME SizeMutexInv, NEW t \in Threads, Size!Step(t)
    PROVE  SizeMutexInv'
  <1> USE SyncAssumption
      DEF SizeMutexInv, Steps, SizeInSection, Size!Exclusion, Size!Goto, Size!mutex, Size!cv
  <1>1. CASE Size!lock_receive(t)
    BY <1>1 DEF Size!lock_receive
  <1>2. CASE Size!lock_test(t)
    BY <1>2 DEF Size!lock_test
  <1>3. CASE Size!lock_park(t)
    BY <1>3 DEF Size!lock_park
  <1>4. CASE Size!lock_take(t)
    BY <1>4 DEF Size!lock_take
  <1>5. CASE Size!unlock(t) \/ Size!wait_unlock(t)
    BY <1>5 DEF Size!unlock, Size!wait_unlock, Size!Release
  <1>6. CASE Size!wait(t) \/ Size!wait_signaled(t)
    BY <1>6 DEF Size!wait, Size!wait_signaled
  <1>7. CASE Size!wait_relock(t)
    BY <1>7 DEF Size!wait_relock
  <1>8. CASE Size!signal(t) \/ Size!broadcast(t)
    BY <1>8 DEF Size!signal, Size!broadcast, Size!Notify
  <1> QED
    BY <1>1, <1>2, <1>3, <1>4, <1>5, <1>6, <1>7, <1>8 DEF Size!Step

\* An exception in a call of @size_mutex or @sem, as in MutexRaise.
LEMMA SizeMutexRaise ==
    ASSUME SizeRaiseAt \cap {"park", "relock"} = {}, SizeMutexInv, NEW t \in Threads, Size!Raise(t)
    PROVE  /\ SizeMutexInv' /\ spc[t] # "out" /\ sholding \subseteq sholding'
           /\ \A u \in Threads \ {t} : spc'[u] = spc[u]
  <1>1. /\ spc[t] \in Receives \ {"park", "relock"}
        /\ stokens' = stokens /\ sowner' = sowner
    <2>1. spc[t] \in SizeRaiseAt /\ spc[t] \in Steps
      BY DEF Size!Raise, SizeMutexInv
    <2>2. spc[t] \in Receives \ {"park", "relock"}
      BY <2>1, SizeAssumption DEF Receives, Steps
    <2> QED
      BY <2>2 DEF Size!Raise
  <1>2. PICK to \in {"lock", "out"} : spc' = [spc EXCEPT ![t] = to]
    BY DEF Size!Raise, Size!Goto
  <1>3. sholding' = sholding \/ (spc[t] = "wait_relock" /\ sholding' = sholding \cup {t})
    BY DEF Size!Raise
  <1> QED
    BY <1>1, <1>2, <1>3, SyncAssumption
    DEF SizeMutexInv, Steps, SizeInSection, Size!Exclusion, Receives

\* A call of @size_mutex or @sem.
LEMMA SizeMutexCall ==
    ASSUME SizeMutexInv, NEW t \in Threads, spc[t] = "out",
           NEW op \in {"lock", "unlock", "wait", "broadcast"}, Size!Goto(t, op),
           UNCHANGED sizeVars
    PROVE  SizeMutexInv'
  BY DEF SizeMutexInv, Steps, SizeInSection, Size!Exclusion, Size!Goto, sizeVars

LEMMA SizeMutexSame ==
    ASSUME SizeMutexInv, UNCHANGED <<spc, sizeVars>>
    PROVE  SizeMutexInv'
  BY DEF SizeMutexInv, SizeInSection, Size!Exclusion, sizeVars

\* A step that calls @size_mutex or @sem, and gives its thread a job other than "push".
LEMMA SizeCallsBound ==
    ASSUME BoundInv, NEW t \in Threads, NEW j \in Jobs \ {"push"}, spc[t] = "out",
           NEW op \in {"lock", "unlock", "wait", "broadcast"}, SizeCalls(t, op, j)
    PROVE  SizeMutexInv' /\ RoomHeld'
  <1>1. Size!Goto(t, op) /\ DoJob(t, j) /\ UNCHANGED <<que, max, sizeVars>>
    BY DEF SizeCalls
  <1>2. SizeMutexInv'
    BY <1>1, SizeMutexCall DEF BoundInv
  <1>3. RoomHeld'
    BY <1>1 DEF BoundInv, OrderInv, JobsHeld, SizeMutexInv, RoomHeld, Size!Goto, DoJob, sizeVars
  <1> QED
    BY <1>2, <1>3

\* A step that leaves @size_mutex and @max alone, adds nothing and lets nobody begin to push.
LEMMA QueueOnlyBound ==
    ASSUME BoundInv, UNCHANGED <<max, spc, sizeVars>>,
           Len(que') <= Len(que), Len(que') \in Nat,
           \A t \in Threads : job'[t] = "push" => job[t] = "push"
    PROVE  SizeMutexInv' /\ RoomHeld'
  <1>1. SizeMutexInv'
    BY SizeMutexSame DEF BoundInv
  <1>2. PICK n, m : n = Len(que) /\ m = Len(que')
    OBVIOUS
  <1>3. n \in Nat
    BY <1>2, LenProperties DEF BoundInv, OrderInv, ValuesTyped
  <1>4. UNCHANGED <<max, spc, sholding>>
    BY DEF sizeVars
  <1>5. m \in Nat /\ m <= n /\ max \in Nat
    BY <1>2 DEF BoundInv, RoomHeld
  <1>6. ASSUME NEW t \in Threads, job'[t] = "push"
        PROVE  spc'[t] = "out" /\ t \in sholding' /\ m < max'
    <2>1. spc[t] = "out" /\ t \in sholding /\ n < max
      BY <1>2, <1>6 DEF BoundInv, RoomHeld
    <2> QED
      BY <1>3, <1>4, <1>5, <2>1
  <1>7. RoomHeld'
    BY <1>2, <1>4, <1>5, <1>6 DEF RoomHeld
  <1> QED
    BY <1>1, <1>7

\* A thread that pushes finds the room that it has seen: it is the only one that does.
LEMMA OnlyPusher ==
    ASSUME BoundInv, NEW t \in sholding
    PROVE  \A u \in Threads \ {t} : job[u] # "push"
  BY DEF BoundInv, SizeMutexInv, Size!Exclusion, RoomHeld

\* Every step keeps the bound.
LEMMA BoundStep ==
    ASSUME (RaiseAt \cup SizeRaiseAt) \cap {"park", "relock"} = {}, BoundInv, [SizedNext]_sizedVars
    PROVE  BoundInv' /\ (Len(que') > Len(que) => Len(que') <= max)
  <1>1. OrderInv'
    BY OrderStep DEF BoundInv
  <1>2. Len(que) \in Nat /\ Len(que') \in Nat
    BY <1>1, LenProperties DEF BoundInv, OrderInv, ValuesTyped
  <1>3. max \in Nat /\ job \in [Threads -> Jobs]
    BY DEF BoundInv, RoomHeld, OrderInv, JobsHeld
  <1>4. ASSUME NEW t \in Threads, push(t), UNCHANGED <<max, spc, sizeVars>>
        PROVE  SizeMutexInv' /\ RoomHeld' /\ Len(que') <= max
    <2>1. job[t] = "push" /\ que' = Append(que, pushed + 1) /\ DoJob(t, "leave")
      BY <1>4 DEF push, At
    <2>2. SizeMutexInv'
      BY <1>4, SizeMutexSame DEF BoundInv
    <2>3. t \in sholding /\ Len(que) < max
      BY <2>1 DEF BoundInv, RoomHeld
    <2>4. \A u \in Threads : job'[u] # "push"
      BY <1>3, <2>1, <2>3, OnlyPusher DEF DoJob
    <2>5. RoomHeld'
      BY <1>3, <1>4, <2>4 DEF RoomHeld
    <2>6. Len(que') = Len(que) + 1
      <3>1. pushed + 1 \in Nat /\ que \in Seq(Nat)
        BY DEF BoundInv, OrderInv, ValuesTyped
      <3> QED
        BY <2>1, <3>1, AppendProperties
    <2>7. Len(que') <= max
      BY <1>2, <1>3, <2>3, <2>6
    <2> QED
      BY <2>2, <2>5, <2>7
  <1>5. ASSUME NEW t \in Threads, pop_shift(t), UNCHANGED <<max, spc, sizeVars>>
        PROVE  SizeMutexInv' /\ RoomHeld' /\ Len(que') <= Len(que)
    <2>1. que # << >> /\ que' = Tail(que) /\ DoJob(t, "leave")
      BY <1>5 DEF pop_shift, At, BoundInv, OrderInv, JobsHeld
    <2>2. Len(que') = Len(que) - 1
      BY <2>1, HeadTailProperties DEF BoundInv, OrderInv, ValuesTyped
    <2>3. Len(que') <= Len(que)
      BY <1>2, <2>2
    <2>4. \A u \in Threads : job'[u] = "push" => job[u] = "push"
      BY <1>3, <2>1 DEF DoJob
    <2> QED
      BY <1>2, <1>5, <2>3, <2>4, QueueOnlyBound
  <1>6. ASSUME NEW t \in Threads, NEW j \in Jobs \ {"push"}, DoJob(t, j), que' = que,
               UNCHANGED <<max, spc, sizeVars>>
        PROVE  SizeMutexInv' /\ RoomHeld'
    <2>1. \A u \in Threads : job'[u] = "push" => job[u] = "push"
      BY <1>3, <1>6 DEF DoJob
    <2>2. Len(que') <= Len(que)
      BY <1>2, <1>6
    <2> QED
      BY <1>2, <1>6, <2>1, <2>2, QueueOnlyBound
  <1>7. ASSUME job' = job, que' = que, UNCHANGED <<max, spc, sizeVars>>
        PROVE  SizeMutexInv' /\ RoomHeld'
    BY <1>7, SizeMutexSame DEF BoundInv, RoomHeld, sizeVars
  <1>8. ASSUME NEW t \in Threads, push_test(t)
        PROVE  SizeMutexInv' /\ RoomHeld' /\ que' = que
    <2>1. spc[t] = "out" /\ t \in sholding
      BY <1>8 DEF push_test, SizeAt
    <2>2. CASE SizeCalls(t, "wait", "sizeagain")
      BY <2>1, <2>2, SizeCallsBound DEF SizeCalls, Jobs
    <2>3. CASE Len(que) < max /\ QueueCalls(Calls(t, "lock", "push"))
      <3>1. DoJob(t, "push") /\ que' = que /\ UNCHANGED <<max, spc, sizeVars>>
        BY <2>3 DEF QueueCalls, Calls
      <3>2. SizeMutexInv'
        BY <3>1, SizeMutexSame DEF BoundInv
      <3>3. \A u \in Threads \ {t} : job'[u] # "push"
        BY <1>3, <2>1, <3>1, OnlyPusher DEF DoJob
      <3>4. RoomHeld'
        BY <1>3, <2>1, <2>3, <3>1, <3>3 DEF RoomHeld, sizeVars
      <3> QED
        BY <3>1, <3>2, <3>4
    <2> QED
      BY <1>8, <2>2, <2>3 DEF push_test
  <1>9. ASSUME NEW t \in Threads, set_max(t)
        PROVE  SizeMutexInv' /\ RoomHeld' /\ que' = que
    <2>1. /\ spc[t] = "out" /\ t \in sholding /\ max' = NewMax /\ DoJob(t, "sized")
          /\ UNCHANGED <<que, spc, sizeVars>>
      BY <1>9 DEF set_max, SizeAt
    <2>2. SizeMutexInv'
      BY <2>1, SizeMutexSame DEF BoundInv
    <2>3. \A u \in Threads : job'[u] # "push"
      BY <1>3, <2>1, OnlyPusher DEF DoJob
    <2>4. RoomHeld'
      BY <2>1, <2>3, SizeAssumption DEF RoomHeld
    <2> QED
      BY <2>1, <2>2, <2>4
  <1>10. ASSUME NEW t \in Threads, Size!Step(t), UNCHANGED <<queueVars, max>>
         PROVE  SizeMutexInv' /\ RoomHeld' /\ que' = que
    <2>1. SizeMutexInv'
      BY <1>10, SizeMutexWork DEF BoundInv
    <2>2. /\ spc[t] # "out" /\ sholding \ {t} \subseteq sholding'
          /\ \A u \in Threads \ {t} : spc'[u] = spc[u]
      BY <1>10 DEF Size!Step, Size!lock_receive, Size!lock_test, Size!lock_park, Size!lock_take,
         Size!unlock, Size!wait, Size!wait_unlock, Size!wait_signaled, Size!wait_relock,
         Size!signal, Size!broadcast, Size!Notify, Size!Goto, BoundInv, SizeMutexInv
    <2>3. UNCHANGED <<que, job, max>>
      BY <1>10 DEF queueVars
    <2>4. RoomHeld'
      BY <2>2, <2>3 DEF BoundInv, RoomHeld
    <2> QED
      BY <2>1, <2>3, <2>4
  <1>11. ASSUME NEW t \in Threads, size_enter(t) \/ size_leave(t)
         PROVE  SizeMutexInv' /\ RoomHeld' /\ que' = que
    <2>1. PICK j \in Jobs \ {"push"}, op \in {"lock", "unlock", "wait", "broadcast"} :
            spc[t] = "out" /\ SizeCalls(t, op, j)
      BY <1>11 DEF size_enter, size_leave, SizeAt, Jobs
    <2> QED
      BY <2>1, SizeCallsBound DEF SizeCalls
  <1>12. ASSUME NEW t \in Threads, pop_enter(t) \/ pop_leave(t) \/ notify(t)
         PROVE  SizeMutexInv' /\ RoomHeld' /\ que' = que
    <2>1. \/ \E j \in Jobs \ {"push"}, op \in {"lock", "unlock", "wait", "broadcast"} :
               spc[t] = "out" /\ SizeCalls(t, op, j)
          \/ \E j \in Jobs \ {"push"} : DoJob(t, j) /\ que' = que /\ UNCHANGED <<max, spc, sizeVars>>
      BY <1>12 DEF pop_enter, pop_leave, notify, SizeAt, QueueCalls, Calls, Jobs
    <2>2. que' = que
      BY <2>1 DEF SizeCalls
    <2> QED
      BY <1>6, <2>1, <2>2, SizeCallsBound
  <1>13. ASSUME NEW t \in Threads, QueueCalls(pop_test(t)) \/ QueueCalls(Interrupt(t))
         PROVE  SizeMutexInv' /\ RoomHeld' /\ que' = que
    <2>1. PICK j \in Jobs \ {"push"} : DoJob(t, j) /\ que' = que /\ UNCHANGED <<max, spc, sizeVars>>
      BY <1>13 DEF pop_test, Interrupt, QueueCalls, Calls, Jobs
    <2> QED
      BY <1>6, <2>1
  <1>14. ASSUME NEW t \in Threads, QueueCalls(Step(t) /\ UNCHANGED <<que, pushed, popped, job>>)
         PROVE  SizeMutexInv' /\ RoomHeld' /\ que' = que
    <2>1. job' = job /\ que' = que /\ UNCHANGED <<max, spc, sizeVars>>
      BY <1>14 DEF QueueCalls
    <2> QED
      BY <1>7, <2>1
  <1>15. ASSUME NEW t \in Threads, SizeInterrupt(t)
         PROVE  SizeMutexInv' /\ RoomHeld' /\ que' = que
    <2>1. PICK j \in {"sized", "idle"} : Size!Raise(t) /\ DoJob(t, j) /\ UNCHANGED <<que, max>>
      BY <1>15 DEF SizeInterrupt
    <2>2. /\ SizeMutexInv' /\ sholding \subseteq sholding'
          /\ \A u \in Threads \ {t} : spc'[u] = spc[u]
      BY <2>1, SizeMutexRaise DEF BoundInv
    <2>3. RoomHeld'
      BY <1>3, <2>1, <2>2 DEF BoundInv, RoomHeld, DoJob
    <2> QED
      BY <2>1, <2>2, <2>3
  <1>16. CASE UNCHANGED sizedVars
    <2>1. job' = job /\ que' = que /\ UNCHANGED <<max, spc, sizeVars>>
      BY <1>16 DEF sizedVars, queueVars
    <2> QED
      BY <1>1, <1>2, <1>7, <2>1 DEF BoundInv
  <1>17. CASE SizedNext
    <2>1. PICK t \in Threads : size_enter(t) \/ pop_enter(t) \/ SizedWork(t) \/ QueueCalls(Interrupt(t)) \/ SizeInterrupt(t)
      BY <1>17 DEF SizedNext
    <2>2. SizeMutexInv' /\ RoomHeld' /\ (que' = que \/ Len(que') <= max \/ Len(que') <= Len(que))
      <3>1. CASE QueueCalls(push(t))
        BY <1>4, <3>1 DEF QueueCalls
      <3>2. CASE QueueCalls(pop_shift(t))
        BY <1>5, <3>2 DEF QueueCalls
      <3> QED
        BY <1>8, <1>9, <1>10, <1>11, <1>12, <1>13, <1>14, <1>15, <2>1, <3>1, <3>2 DEF SizedWork
    <2> QED
      BY <1>1, <1>2, <2>2 DEF BoundInv
  <1> QED
    BY <1>16, <1>17

\* No push makes a SizedQueue longer than its bound, for any number of producers,
\* consumers and values, whenever max= is called: the size is tested without @mutex, and
\* what was tested still holds at the append.  No exception may strike the wait of a
\* Mutex#lock.
THEOREM NeverOverfull ==
    ASSUME (RaiseAt \cup SizeRaiseAt) \cap {"park", "relock"} = {}
    PROVE  SizedSpec => Bounded
  <1>1. SizedInit => BoundInv
    <2> SUFFICES ASSUME SizedInit PROVE BoundInv
      OBVIOUS
    <2>1. OrderInv
      BY InitOrder
    <2>2. SizeMutexInv
      BY SyncAssumption DEF SizedInit, Size!Init, SizeMutexInv, Steps, SizeInSection, Size!Exclusion
    <2>3. RoomHeld
      BY SizeAssumption DEF SizedInit, QueueInit, RoomHeld
    <2> QED
      BY <2>1, <2>2, <2>3 DEF BoundInv
  <1>2. BoundInv /\ [SizedNext]_sizedVars
          => BoundInv' /\ [Len(que') > Len(que) => Len(que') <= max]_<<que>>
    BY BoundStep
  <1> QED
    BY <1>1, <1>2, PTL DEF SizedSpec, Bounded
=============================================================================
