------------------------ MODULE SignalDeliveryProofs ------------------------
(***************************************************************************)
(* Theorems about SignalDelivery, for every number of other threads, of    *)
(* signals and of nested calls of deliver_signals().                       *)
(***************************************************************************)
EXTENDS SignalDelivery, FiniteSetTheorems, TLAPS

\* The main thread looks at the list: an iterator may stand behind its end.
Looking == main \in {"deliver", "clear"}

\* lock_ is held in deliver_signals(), and a thread that is between the test of
\* waiter_ and the run of the Waiter keeps deliver_signals() out.
Placed ==
    /\ Looking => Locked
    /\ Locked => waking = NoThread

\* The iterator of a call whose handler runs is at a signal of the list (or
\* destroyed); that of a call which tests for the end may be one behind it, but
\* is never a destroyed one.
Iterators ==
    \A d \in 1..Len(frames) :
        /\ frames[d] <= Len(pending) + 1
        /\ d < Len(frames) \/ ~Looking => frames[d] <= Len(pending)
        /\ d = Len(frames) /\ Looking => frames[d] # 0

\* A signal is in one place: at one position of the list, or with one thread.
Numbered ==
    /\ \A i \in 1..Len(pending) : pending[i] <= sent
    /\ \A u \in Others : stuck[u] <= sent
    /\ \A i \in 1..Len(handled) : handled[i] <= sent
    /\ \A i, j \in 1..Len(pending) : i # j => pending[i] # pending[j]
    /\ \A u, v \in Others : u # v /\ stuck[u] # 0 => stuck[u] # stuck[v]
    /\ \A u \in Others : \A i \in 1..Len(pending) : stuck[u] # pending[i]
    /\ \A u \in Others : \A i \in 1..Len(handled) : stuck[u] # handled[i]

\* No handler has entered deliver_signals() again.  A behaviour that leaves Clean
\* never comes back to it: the inner call destroys the iterators around it.
Clean == Len(frames) <= 1 /\ \A d \in 1..Len(frames) : frames[d] # 0

\* The i-th signal of the list has had its handler called.
Passed(i) ==
    \E d \in 1..Len(frames) : i < frames[d] \/ (i = frames[d] /\ ~Looking)

\* What makes HandledOnce inductive: the handled signals that are still on the
\* list are the ones before the iterator.
Fresh ==
    Clean => /\ \A i, j \in 1..Len(handled) : i # j => handled[i] # handled[j]
             /\ \A i \in 1..Len(pending), j \in 1..Len(handled) :
                    pending[i] = handled[j] => Passed(i)

ListInv == Placed /\ Iterators /\ Numbered /\ Fresh
SignalInv == TypeOK /\ ListInv /\ FlagCoversPending

-----------------------------------------------------------------------------
(* Lemmas *)

LEMMA Bools ==
  ASSUME NEW a, NEW b, NEW c
  PROVE  {a, b, c} \subseteq BOOLEAN <=> a \in BOOLEAN /\ b \in BOOLEAN /\ c \in BOOLEAN
BY Zenon

\* Appending to a sequence.
LEMMA AppendIs ==
  ASSUME NEW S, NEW s \in Seq(S), NEW e \in S
  PROVE  /\ Append(s, e) \in Seq(S)
         /\ Len(s) \in Nat
         /\ Len(Append(s, e)) = Len(s) + 1
         /\ \A i \in 1..Len(s) : Append(s, e)[i] = s[i]
         /\ Append(s, e)[Len(s) + 1] = e
OBVIOUS

LEMMA ElementsOf ==
  ASSUME NEW S, NEW s \in Seq(S)
  PROVE  Len(s) \in Nat /\ \A i \in 1..Len(s) : s[i] \in S
OBVIOUS

\* The types of the numbers the arguments below compare.
LEMMA NumberTypes ==
  ASSUME TypeOK
  PROVE  /\ Len(pending) \in Nat /\ \A i \in 1..Len(pending) : pending[i] \in Nat /\ pending[i] > 0
         /\ Len(handled) \in Nat /\ \A i \in 1..Len(handled) : handled[i] \in Nat /\ handled[i] > 0
         /\ Len(frames) \in Nat /\ \A d \in 1..Len(frames) : frames[d] \in Nat
         /\ \A u \in Others : stuck[u] \in Nat
         /\ sent \in Nat /\ MaxSignals \in Nat /\ sent <= MaxSignals
<1>1. pending \in Seq(1..MaxSignals) /\ handled \in Seq(1..MaxSignals) /\ frames \in Seq(0..MaxSignals + 1)
  BY DEF TypeOK
<1>2. Len(pending) \in Nat /\ \A i \in 1..Len(pending) : pending[i] \in 1..MaxSignals
  BY <1>1, ElementsOf
<1>3. Len(handled) \in Nat /\ \A i \in 1..Len(handled) : handled[i] \in 1..MaxSignals
  BY <1>1, ElementsOf
<1>4. Len(frames) \in Nat /\ \A d \in 1..Len(frames) : frames[d] \in 0..MaxSignals + 1
  BY <1>1, ElementsOf
<1>5. /\ \A u \in Others : stuck[u] \in Nat
      /\ sent \in Nat /\ MaxSignals \in Nat /\ sent <= MaxSignals
  BY BoundsAssumption DEF TypeOK
<1> QED
  BY <1>2, <1>3, <1>4, <1>5

\* The list is never longer than the number of signals sent: its elements differ.
LEMMA ListFits ==
  ASSUME TypeOK, Numbered
  PROVE  Len(pending) <= sent
<1>1. Len(pending) \in Nat /\ sent \in Nat
  BY NumberTypes
<1> DEFINE f == [i \in 1..Len(pending) |-> pending[i]]
<1>2. \A i \in 1..Len(pending) : pending[i] \in 1..sent
  <2>1. \A i \in 1..Len(pending) : pending[i] \in Nat /\ pending[i] > 0 /\ pending[i] <= sent
    BY NumberTypes DEF Numbered
  <2> QED
    BY <1>1, <2>1
<1>3. f \in Injection(1..Len(pending), 1..sent)
  BY <1>2 DEF Injection, IsInjective, Numbered
<1>4. /\ IsFiniteSet(1..Len(pending)) /\ Cardinality(1..Len(pending)) = Len(pending)
      /\ IsFiniteSet(1..sent) /\ Cardinality(1..sent) = sent
  <2>1. \A n \in Nat : IsFiniteSet(1..n) /\ Cardinality(1..n) = n
    <3> SUFFICES ASSUME NEW n \in Nat
                 PROVE  IsFiniteSet(1..n) /\ Cardinality(1..n) = n
      OBVIOUS
    <3>1. IsFiniteSet(1..n) /\ Cardinality(1..n) = IF 1 > n THEN 0 ELSE n - 1 + 1
      BY FS_Interval
    <3> QED
      BY <3>1
  <2> QED
    BY <1>1, <2>1
<1>5. Cardinality(1..Len(pending)) <= Cardinality(1..sent)
  BY <1>3, <1>4, FS_Injection
<1> QED
  BY <1>4, <1>5

-----------------------------------------------------------------------------
(* Steps that leave the list and the calls of deliver_signals() alone *)

LEMMA QuietStep ==
  ASSUME ListInv, TypeOK,
         UNCHANGED <<pending, frames, stuck, sent, handled>>,
         Looking' = Looking,
         waking' = waking \/ waking' = NoThread
  PROVE  ListInv'
<1>1. pending' = pending /\ frames' = frames /\ stuck' = stuck /\ sent' = sent /\ handled' = handled
  OBVIOUS
<1>2. Looking' = Looking
  OBVIOUS
<1>3. Placed'
  BY <1>1, <1>2 DEF ListInv, Placed, Locked, Depth
<1>4. Iterators'
  BY <1>1, <1>2 DEF ListInv, Iterators
<1>5. Numbered'
  BY <1>1 DEF ListInv, Numbered
<1>6. Fresh'
  BY <1>1, <1>2 DEF ListInv, Fresh, Clean, Passed
<1> QED
  BY <1>3, <1>4, <1>5, <1>6 DEF ListInv

\* A signal that is nowhere yet goes to the end of the list.
LEMMA QueueStep ==
  ASSUME ListInv, TypeOK, NEW sig \in 1..MaxSignals,
         pending' = Append(pending, sig),
         UNCHANGED <<frames, handled>>,
         Looking' = Looking,
         Locked => waking' = NoThread,
         sig <= sent', sent' \in Nat, sent <= sent',
         \A i \in 1..Len(pending) : pending[i] # sig,
         \A i \in 1..Len(handled) : handled[i] # sig,
         stuck' \in [Others -> 0..MaxSignals],
         \A u \in Others : stuck'[u] # sig /\ stuck'[u] \in {0, stuck[u]}
  PROVE  ListInv'
<1>1. frames' = frames /\ handled' = handled
  OBVIOUS
<1>2. /\ Len(pending) \in Nat
      /\ Len(pending') = Len(pending) + 1
      /\ \A i \in 1..Len(pending) : pending'[i] = pending[i]
      /\ pending'[Len(pending) + 1] = sig
  BY AppendIs DEF TypeOK
<1>3. /\ \A i \in 1..Len(pending) : pending[i] \in Nat /\ pending[i] > 0
      /\ \A i \in 1..Len(handled) : handled[i] \in Nat /\ handled[i] > 0
      /\ \A d \in 1..Len(frames) : frames[d] \in Nat
      /\ Len(frames) \in Nat /\ Len(handled) \in Nat
      /\ \A u \in Others : stuck[u] \in Nat
  BY NumberTypes
<1>4. sent \in Nat /\ sent' \in Nat /\ sig \in Nat
  BY NumberTypes
<1>a. \A i \in 1..Len(pending') : i \in 1..Len(pending) \/ (i = Len(pending) + 1 /\ pending'[i] = sig)
  BY <1>2
<1>5. Placed'
  BY <1>1 DEF ListInv, Placed, Locked, Depth
<1>6. Iterators'
  <2>1. Iterators
    BY DEF ListInv
  <2>2. ASSUME NEW d \in 1..Len(frames)
        PROVE  /\ frames[d] <= Len(pending') + 1
               /\ d < Len(frames) \/ ~Looking => frames[d] <= Len(pending')
               /\ d = Len(frames) /\ Looking => frames[d] # 0
    BY <2>1, <1>2, <1>3, <1>4 DEF Iterators
  <2> QED
    BY <1>1, <2>2 DEF Iterators
<1>7. Numbered'
  <2>0. Numbered
    BY DEF ListInv
  <2>b. \A u \in Others : stuck'[u] = 0 \/ stuck'[u] = stuck[u]
    OBVIOUS
  <2>1. \A i \in 1..Len(pending') : pending'[i] <= sent'
    BY <1>a, <1>2, <1>3, <1>4, <2>0 DEF Numbered
  <2>2. \A u \in Others : stuck'[u] <= sent'
    <3>1. \A u \in Others : stuck[u] <= sent
      BY <2>0 DEF Numbered
    <3> QED
      BY <1>3, <1>4, <2>b, <3>1
  <2>3. \A i \in 1..Len(handled') : handled'[i] <= sent'
    BY <1>1, <1>3, <1>4, <2>0 DEF Numbered
  <2>4. \A i, j \in 1..Len(pending') : i # j => pending'[i] # pending'[j]
    BY <1>a, <1>2, <2>0 DEF Numbered
  <2>5. \A u, v \in Others : u # v /\ stuck'[u] # 0 => stuck'[u] # stuck'[v]
    BY <2>0, <2>b DEF Numbered
  <2>6. \A u \in Others : \A i \in 1..Len(pending') : stuck'[u] # pending'[i]
    <3>1. \A i \in 1..Len(pending) : pending[i] # 0
      BY <1>3, <1>4
    <3> QED
      BY <1>a, <1>2, <2>0, <2>b, <3>1 DEF Numbered
  <2>7. \A u \in Others : \A i \in 1..Len(handled') : stuck'[u] # handled'[i]
    <3>1. \A i \in 1..Len(handled) : handled[i] # 0
      BY <1>3, <1>4
    <3> QED
      BY <1>1, <2>0, <2>b, <3>1 DEF Numbered
  <2> QED
    BY <2>1, <2>2, <2>3, <2>4, <2>5, <2>6, <2>7 DEF Numbered
<1>8. Fresh'
  <2> SUFFICES ASSUME Clean'
               PROVE  /\ \A i, j \in 1..Len(handled') : i # j => handled'[i] # handled'[j]
                      /\ \A i \in 1..Len(pending'), j \in 1..Len(handled') :
                             pending'[i] = handled'[j] => Passed(i)'
    BY DEF Fresh
  <2>1. Clean
    BY <1>1 DEF Clean
  <2>2. /\ \A i, j \in 1..Len(handled) : i # j => handled[i] # handled[j]
        /\ \A i \in 1..Len(pending), j \in 1..Len(handled) :
               pending[i] = handled[j] => Passed(i)
    BY <2>1 DEF ListInv, Fresh
  <2>3. ASSUME NEW i \in 1..Len(pending'), NEW j \in 1..Len(handled'), pending'[i] = handled'[j]
        PROVE  Passed(i)'
    <3>1. i \in 1..Len(pending) /\ pending[i] = handled[j]
      BY <1>a, <1>1, <1>2, <2>3
    <3>2. Passed(i)
      BY <1>1, <2>2, <3>1
    <3> QED
      BY <1>1, <3>2 DEF Passed
  <2> QED
    BY <1>1, <2>2, <2>3
<1> QED
  BY <1>5, <1>6, <1>7, <1>8 DEF ListInv

-----------------------------------------------------------------------------
(* The steps of deliver_signals() *)

LEMMA EnterStep ==
  ASSUME ListInv, TypeOK, deliver_signals
  PROVE  ListInv'
<1>1. /\ main = "process" /\ main' = "deliver" /\ waking = NoThread /\ waking' = waking
      /\ pending' = pending /\ handled' = handled /\ stuck' = stuck /\ sent' = sent
      /\ frames' = Append(frames, 1)
  BY DEF deliver_signals, otherVars
<1>2. ~Looking /\ Looking'
  BY <1>1 DEF Looking
<1>3. /\ Len(frames) \in Nat
      /\ Len(frames') = Len(frames) + 1
      /\ \A d \in 1..Len(frames) : frames'[d] = frames[d]
      /\ frames'[Len(frames) + 1] = 1
  <2>1. frames \in Seq(0..MaxSignals + 1) /\ 1 \in 0..MaxSignals + 1
    BY BoundsAssumption DEF TypeOK
  <2> QED
    BY <1>1, <2>1, AppendIs
<1>4. Len(pending) \in Nat /\ \A d \in 1..Len(frames) : frames[d] \in Nat
  BY NumberTypes
<1>5. Placed'
  BY <1>1, <1>3 DEF Placed, Locked, Depth
<1>6. Iterators'
  <2> SUFFICES ASSUME NEW d \in 1..Len(frames')
               PROVE  /\ frames'[d] <= Len(pending) + 1
                      /\ d < Len(frames') => frames'[d] <= Len(pending)
                      /\ d = Len(frames') => frames'[d] # 0
    BY <1>1, <1>2 DEF Iterators
  <2>1. CASE d \in 1..Len(frames)
    <3>1. frames[d] <= Len(pending)
      BY <1>2, <2>1 DEF ListInv, Iterators
    <3> QED
      BY <1>3, <1>4, <2>1, <3>1
  <2>2. CASE d = Len(frames) + 1
    BY <1>3, <1>4, <2>2
  <2> QED
    BY <1>3, <2>1, <2>2
<1>7. Numbered'
  BY <1>1 DEF ListInv, Numbered
<1>8. Fresh'
  <2> SUFFICES ASSUME Clean'
               PROVE  /\ \A i, j \in 1..Len(handled) : i # j => handled[i] # handled[j]
                      /\ \A i \in 1..Len(pending), j \in 1..Len(handled) :
                             pending[i] # handled[j]
    BY <1>1 DEF Fresh
  <2>1. Len(frames) = 0
    BY <1>3 DEF Clean
  <2>2. 1..Len(frames) = {}
    BY <2>1
  <2>3. Clean /\ \A i \in 1..Len(pending) : ~Passed(i)
    BY <2>1, <2>2 DEF Clean, Passed
  <2> QED
    BY <2>3 DEF ListInv, Fresh
<1> QED
  BY <1>5, <1>6, <1>7, <1>8 DEF ListInv

\* The handler of the signal at the iterator is called.
LEMMA CallStep ==
  ASSUME ListInv, TypeOK, main = "deliver", frames[Depth] <= Len(pending),
         handled' = Append(handled, pending[frames[Depth]]), main' = "ruby",
         UNCHANGED <<gil, installed, used, flag, pending, frames, otherVars, sent>>
  PROVE  ListInv' /\ handled' \in Seq(1..MaxSignals)
<1>1. /\ pending' = pending /\ frames' = frames /\ stuck' = stuck /\ sent' = sent
      /\ waking' = waking
  BY DEF otherVars
<1>2. Looking /\ ~Looking'
  BY DEF Looking
<1>3. /\ Len(frames) \in Nat /\ Len(pending) \in Nat
      /\ \A d \in 1..Len(frames) : frames[d] \in Nat
  BY NumberTypes
<1>p. Len(frames) > 0 /\ Len(frames) \in Nat
  BY <1>2, <1>3 DEF ListInv, Placed, Locked, Depth
<1>4. Len(frames) \in 1..Len(frames)
  BY <1>p
<1> DEFINE k == frames[Len(frames)]
<1>5. k \in 1..Len(pending)
  <2>1. k \in Nat /\ k # 0 /\ k <= Len(pending)
    BY <1>2, <1>3, <1>4 DEF ListInv, Iterators, Depth
  <2> QED
    BY <1>3, <2>1
<1>6. handled \in Seq(1..MaxSignals) /\ pending[k] \in 1..MaxSignals
  BY <1>5, ElementsOf DEF TypeOK
<1>7. handled' = Append(handled, pending[k])
  BY DEF Depth
<1> HIDE DEF k
<1>8. /\ Len(handled) \in Nat
      /\ Len(handled') = Len(handled) + 1
      /\ handled' \in Seq(1..MaxSignals)
      /\ \A i \in 1..Len(handled) : handled'[i] = handled[i]
      /\ handled'[Len(handled) + 1] = pending[k]
  BY <1>6, <1>7, AppendIs
<1>9. \A i \in 1..Len(handled') : i \in 1..Len(handled) \/ (i = Len(handled) + 1 /\ handled'[i] = pending[k])
  BY <1>8
<1>10. Placed'
  BY <1>1, <1>2 DEF ListInv, Placed, Locked, Depth
<1>11. Iterators'
  <2> SUFFICES ASSUME NEW d \in 1..Len(frames)
               PROVE  frames[d] <= Len(pending) + 1 /\ frames[d] <= Len(pending)
    BY <1>1, <1>2 DEF Iterators
  <2>1. CASE d < Len(frames)
    BY <2>1, <1>3 DEF ListInv, Iterators
  <2>2. CASE d = Len(frames)
    BY <2>2, <1>3, <1>5 DEF k
  <2> QED
    BY <1>3, <2>1, <2>2
<1>12. Numbered'
  <2>1. Numbered
    BY DEF ListInv
  <2>2. \A i \in 1..Len(handled') : handled'[i] <= sent'
    BY <1>1, <1>5, <1>8, <1>9, <2>1 DEF Numbered
  <2>3. \A u \in Others : \A i \in 1..Len(handled') : stuck'[u] # handled'[i]
    BY <1>1, <1>5, <1>8, <1>9, <2>1 DEF Numbered
  <2> QED
    BY <1>1, <2>1, <2>2, <2>3 DEF Numbered
<1>13. Fresh'
  <2> SUFFICES ASSUME Clean'
               PROVE  /\ \A i, j \in 1..Len(handled') : i # j => handled'[i] # handled'[j]
                      /\ \A i \in 1..Len(pending), j \in 1..Len(handled') :
                             pending[i] = handled'[j] => Passed(i)'
    BY <1>1 DEF Fresh
  <2>1. Clean
    BY <1>1 DEF Clean
  <2>2. /\ \A i, j \in 1..Len(handled) : i # j => handled[i] # handled[j]
        /\ \A i \in 1..Len(pending), j \in 1..Len(handled) :
               pending[i] = handled[j] => Passed(i)
    BY <2>1 DEF ListInv, Fresh
  <2>3. Len(frames) = 1
    <3>1. Len(frames) <= 1
      BY <2>1 DEF Clean
    <3> QED
      BY <1>p, <3>1, \A n \in Nat : n > 0 /\ n <= 1 => n = 1, Zenon
  <2>4. \A i \in 1..Len(pending) : Passed(i) => i < k
    BY <1>2, <2>3 DEF Passed, k
  <2>5. \A j \in 1..Len(handled) : handled[j] # pending[k]
    BY <1>5, <2>2, <2>4, <1>3
  <2>6. \A i, j \in 1..Len(handled') : i # j => handled'[i] # handled'[j]
    BY <1>8, <1>9, <2>2, <2>5
  <2>7. \A i \in 1..Len(pending) : i < k \/ i = k => Passed(i)'
    <3> SUFFICES ASSUME NEW i \in 1..Len(pending), i < k \/ i = k
                 PROVE  \E d \in 1..Len(frames') : i < frames'[d] \/ (i = frames'[d] /\ ~Looking')
      BY DEF Passed
    <3>1. Len(frames) \in 1..Len(frames') /\ frames'[Len(frames)] = k
      BY <1>1, <1>4 DEF k
    <3> QED
      BY <1>2, <3>1
  <2>8. ASSUME NEW i \in 1..Len(pending), NEW j \in 1..Len(handled'), pending[i] = handled'[j]
        PROVE  Passed(i)'
    <3>1. CASE j \in 1..Len(handled)
      BY <1>8, <2>2, <2>4, <2>7, <2>8, <3>1
    <3>2. CASE j = Len(handled) + 1
      <4>1. i = k
        BY <1>5, <1>8, <2>8, <3>2 DEF ListInv, Numbered
      <4> QED
        BY <2>7, <4>1
    <3> QED
      BY <1>9, <3>1, <3>2
  <2> QED
    BY <2>6, <2>8
<1> QED
  BY <1>8, <1>10, <1>11, <1>12, <1>13 DEF ListInv

\* The handler returns to an iterator that is still there.
LEMMA ReturnStep ==
  ASSUME ListInv, TypeOK, main = "ruby", Locked, frames[Depth] # 0, main' = "deliver",
         frames' = [frames EXCEPT ![Depth] = @ + 1],
         UNCHANGED <<gil, installed, used, flag, pending, otherVars, sent, handled>>
  PROVE  ListInv' /\ frames' \in Seq(0..MaxSignals + 1)
<1>1. /\ pending' = pending /\ handled' = handled /\ stuck' = stuck /\ sent' = sent
      /\ waking' = waking
  BY DEF otherVars
<1>2. ~Looking /\ Looking'
  BY DEF Looking
<1>3. /\ Len(frames) \in Nat /\ Len(pending) \in Nat /\ MaxSignals \in Nat
      /\ \A d \in 1..Len(frames) : frames[d] \in Nat
  BY NumberTypes
<1>4. Len(frames) \in 1..Len(frames)
  BY <1>3 DEF Locked, Depth
<1> DEFINE k == frames[Len(frames)]
<1>5. k \in Nat /\ k # 0 /\ k <= Len(pending)
  BY <1>2, <1>3, <1>4 DEF ListInv, Iterators, Depth
<1>6. k + 1 \in 0..MaxSignals + 1
  <2>1. Len(pending) <= MaxSignals
    BY ListFits, NumberTypes DEF ListInv
  <2> QED
    BY <1>3, <1>5, <2>1
<1>n. PICK n \in Nat : n = Len(frames) /\ n \in 1..n
  BY <1>3, <1>4
<1>7. /\ frames' \in Seq(0..MaxSignals + 1)
      /\ Len(frames') = n
      /\ \A d \in 1..n : frames'[d] = IF d = n THEN k + 1 ELSE frames[d]
  <2>1. /\ frames' \in Seq(0..MaxSignals + 1)
        /\ Len(frames') = Len(frames)
        /\ \A d \in 1..Len(frames) : frames'[d] = IF d = Len(frames) THEN k + 1 ELSE frames[d]
    BY <1>4, <1>6 DEF TypeOK, Depth
  <2> QED
    BY <1>n, <2>1
<1>k. frames[n] = k /\ frames'[n] = k + 1
  BY <1>n, <1>7
<1> HIDE DEF k
<1>8. Placed'
  BY <1>1, <1>7 DEF ListInv, Placed, Locked, Depth
<1>9. Iterators'
  <2> SUFFICES ASSUME NEW d \in 1..n
               PROVE  /\ frames'[d] <= Len(pending) + 1
                      /\ d < n => frames'[d] <= Len(pending)
                      /\ d = n => frames'[d] # 0
    BY <1>1, <1>2, <1>7 DEF Iterators
  <2>1. CASE d = n
    <3>1. frames'[d] = k + 1
      BY <1>k, <2>1
    <3> QED
      BY <1>3, <1>5, <2>1, <3>1
  <2>2. CASE d # n
    <3>1. frames[d] <= Len(pending) /\ frames[d] \in Nat
      BY <1>n, <1>2, <1>3 DEF ListInv, Iterators
    <3>2. frames'[d] = frames[d]
      BY <1>7, <2>2
    <3> QED
      BY <1>3, <2>2, <3>1, <3>2
  <2> QED
    BY <2>1, <2>2
<1>10. Numbered'
  BY <1>1 DEF ListInv, Numbered
<1>11. Fresh'
  <2> SUFFICES ASSUME Clean'
               PROVE  /\ \A i, j \in 1..Len(handled) : i # j => handled[i] # handled[j]
                      /\ \A i \in 1..Len(pending), j \in 1..Len(handled) :
                             pending[i] = handled[j] => Passed(i)'
    BY <1>1 DEF Fresh
  <2>1. n = 1 /\ \A d \in 1..n : d = n
    BY <1>n, <1>7 DEF Clean
  <2>2. Clean
    BY <1>n, <1>k, <1>5, <2>1 DEF Clean
  <2>3. \A i \in 1..Len(pending) : Passed(i) => i < k \/ i = k
    <3>1. \A d \in 1..Len(frames) : frames[d] = k
      BY <1>n, <1>k, <2>1
    <3> QED
      BY <3>1 DEF Passed
  <2>4. \A i \in 1..Len(pending) : i < k \/ i = k => i < frames'[n]
    BY <1>5, <1>k
  <2>5. \A i \in 1..Len(pending) : i < frames'[n] => Passed(i)'
    <3> SUFFICES ASSUME NEW i \in 1..Len(pending), i < frames'[n]
                 PROVE  \E d \in 1..Len(frames') : i < frames'[d] \/ (i = frames'[d] /\ ~Looking')
      BY DEF Passed
    <3>1. n \in 1..Len(frames')
      BY <1>n, <1>7
    <3> QED
      BY <3>1
  <2> QED
    BY <2>2, <2>3, <2>4, <2>5 DEF ListInv, Fresh
<1> QED
  BY <1>7, <1>8, <1>9, <1>10, <1>11 DEF ListInv

LEMMA ClearStep ==
  ASSUME ListInv, TypeOK, clear_pending
  PROVE  ListInv' /\ frames' \in Seq(0..MaxSignals + 1)
<1>1. /\ main = "clear" /\ main' = "ruby" /\ waking' = waking
      /\ pending' = << >> /\ handled' = handled /\ stuck' = stuck /\ sent' = sent
      /\ frames' = [d \in 1..Len(frames) - 1 |-> 0]
  BY DEF clear_pending, otherVars, Depth
<1>2. Looking /\ ~Looking'
  BY <1>1 DEF Looking
<1>3. Len(frames) \in Nat /\ MaxSignals \in Nat
  BY NumberTypes
<1>4. Len(frames) > 0
  BY <1>2 DEF ListInv, Placed, Locked, Depth
<1>5. PICK n \in Nat : n = Len(frames) - 1
  BY <1>3, <1>4
<1>6. /\ frames' \in Seq(0..MaxSignals + 1)
      /\ Len(frames') = n
      /\ \A d \in 1..n : frames'[d] = 0
  <2>1. frames' = [d \in 1..n |-> 0]
    BY <1>1, <1>5
  <2>2. 0 \in 0..MaxSignals + 1
    BY <1>3
  <2> QED
    BY <2>1, <2>2
<1>7. Len(pending') = 0 /\ 1..Len(pending') = {}
  BY <1>1
<1>8. Placed'
  BY <1>1, <1>2, <1>4 DEF ListInv, Placed, Locked, Depth
<1>9. Iterators'
  BY <1>2, <1>6, <1>7 DEF Iterators
<1>10. Numbered'
  BY <1>1, <1>7 DEF ListInv, Numbered
<1>11. Fresh'
  <2> SUFFICES ASSUME Clean'
               PROVE  \A i, j \in 1..Len(handled) : i # j => handled[i] # handled[j]
    BY <1>1, <1>7 DEF Fresh
  <2>1. n = 0
    BY <1>6 DEF Clean
  <2>2. Len(frames) = 1 /\ \A d \in 1..Len(frames) : d = Len(frames)
    <3>1. Len(frames) = 1
      BY <1>3, <1>5, <2>1
    <3> QED
      BY <3>1
  <2>3. \A d \in 1..Len(frames) : frames[d] # 0
    BY <1>2, <2>2 DEF ListInv, Iterators
  <2>4. Clean
    BY <2>2, <2>3 DEF Clean
  <2> QED
    BY <2>4 DEF ListInv, Fresh
<1> QED
  BY <1>6, <1>8, <1>9, <1>10, <1>11 DEF ListInv

-----------------------------------------------------------------------------
(* Every step keeps the list, the iterators and the numbers right *)

\* The steps of the main thread outside of deliver_signals().
OutsideStep ==
    \/ process_async \/ Unlock \/ Lock \/ receive \/ install_waiter \/ wait
    \/ spurious_wakeup \/ wait_returns

LEMMA SignalOnMain ==
  ASSUME SignalInv, signal_on_main
  PROVE  ListInv'
<1>1. /\ sent < MaxSignals /\ waking = NoThread
      /\ sent' = sent + 1 /\ pending' = Append(pending, sent + 1)
      /\ frames' = frames /\ stuck' = stuck /\ waking' = waking /\ handled' = handled
      /\ main' = main \/ (main = "asleep" /\ main' = "woken")
  BY DEF signal_on_main, handle_signal, otherVars
<1>2. Looking' = Looking
  BY <1>1 DEF Looking
<1>3. TypeOK /\ ListInv
  BY DEF SignalInv
<1>4. sent \in Nat /\ MaxSignals \in Nat
  BY <1>3, NumberTypes
<1>5. sent + 1 \in 1..MaxSignals /\ sent' \in Nat /\ sent + 1 <= sent' /\ sent <= sent'
  BY <1>1, <1>4
<1>6. /\ \A i \in 1..Len(pending) : pending[i] # sent + 1
      /\ \A i \in 1..Len(handled) : handled[i] # sent + 1
      /\ \A u \in Others : stuck[u] # sent + 1
  BY <1>3, <1>4, NumberTypes DEF ListInv, Numbered
<1>7. stuck' \in [Others -> 0..MaxSignals]
  BY <1>1, <1>3 DEF TypeOK
<1>8. \A u \in Others : stuck'[u] # sent + 1 /\ stuck'[u] \in {0, stuck[u]}
  BY <1>1, <1>6
<1>9. UNCHANGED <<frames, handled>> /\ (Locked => waking' = NoThread)
  BY <1>1
<1> QED
  BY <1>1, <1>2, <1>3, <1>5, <1>6, <1>7, <1>8, <1>9, QueueStep

LEMMA SignalOnOther ==
  ASSUME SignalInv, NEW u \in Others, signal_on_other(u)
  PROVE  ListInv' /\ TypeOK'
<1>1. /\ sent < MaxSignals /\ sent' = sent + 1 /\ stuck[u] = 0
      /\ gil' = gil /\ main' = main /\ installed' = installed /\ used' = used
      /\ frames' = frames /\ handled' = handled
  BY DEF signal_on_other
<1>2. Looking' = Looking
  BY <1>1 DEF Looking
<1>3. TypeOK /\ ListInv
  BY DEF SignalInv
<1>4. sent \in Nat /\ MaxSignals \in Nat
  BY <1>3, NumberTypes
<1>5. /\ sent + 1 \in 1..MaxSignals /\ sent' \in Nat /\ sent + 1 <= sent' /\ sent <= sent'
      /\ sent' \in 0..MaxSignals
  BY <1>1, <1>4
<1>6. /\ \A i \in 1..Len(pending) : pending[i] # sent + 1
      /\ \A i \in 1..Len(handled) : handled[i] # sent + 1
      /\ \A v \in Others : stuck[v] # sent + 1
  BY <1>3, <1>4, NumberTypes DEF ListInv, Numbered
<1>7. CASE LockFree /\ queue_signal(u, sent + 1) /\ UNCHANGED stuck
  <2>1. /\ ~Locked /\ stuck' = stuck /\ pending' = Append(pending, sent + 1) /\ flag' = TRUE
        /\ waking' \in {u, NoThread}
    BY <1>7 DEF LockFree, queue_signal
  <2>2. stuck' \in [Others -> 0..MaxSignals]
    BY <2>1, <1>3 DEF TypeOK
  <2>3. \A v \in Others : stuck'[v] # sent + 1 /\ stuck'[v] \in {0, stuck[v]}
    BY <2>1, <1>6
  <2>4. UNCHANGED <<frames, handled>> /\ (Locked => waking' = NoThread)
    BY <1>1, <2>1
  <2>5. ListInv'
    BY <1>2, <1>3, <1>5, <1>6, <2>1, <2>2, <2>3, <2>4, QueueStep
  <2>6. pending' \in Seq(1..MaxSignals)
    BY <1>3, <1>5, <2>1, AppendIs DEF TypeOK
  <2>7. {installed', used', flag'} \subseteq BOOLEAN
    BY <1>1, <1>3, <2>1, Bools, Zenon DEF TypeOK
  <2> QED
    BY <1>1, <1>3, <1>5, <2>1, <2>2, <2>5, <2>6, <2>7 DEF TypeOK
<1>8. CASE /\ ~LockFree
           /\ stuck' = [stuck EXCEPT ![u] = sent + 1]
           /\ UNCHANGED <<pending, flag, waking>>
  <2>1. pending' = pending /\ flag' = flag /\ waking' = waking
    BY <1>8
  <2>2. /\ stuck' \in [Others -> 0..MaxSignals]
        /\ stuck'[u] = sent + 1
        /\ \A v \in Others : v # u => stuck'[v] = stuck[v]
    BY <1>3, <1>5, <1>8 DEF TypeOK
  <2>3. Placed' /\ Iterators'
    BY <1>1, <1>2, <1>3, <2>1 DEF ListInv, Placed, Locked, Depth, Iterators
  <2>4. Numbered'
    <3>1. Numbered
      BY <1>3 DEF ListInv
    <3>2. \A i \in 1..Len(pending') : pending'[i] <= sent'
      BY <1>1, <1>3, <1>4, <2>1, <3>1, NumberTypes DEF Numbered
    <3>3. \A v \in Others : stuck'[v] <= sent'
      <4>1. \A v \in Others : stuck[v] <= sent /\ stuck[v] \in Nat
        BY <1>3, <3>1, NumberTypes DEF Numbered
      <4> QED
        BY <1>1, <1>4, <2>2, <4>1
    <3>4. \A i \in 1..Len(handled') : handled'[i] <= sent'
      BY <1>1, <1>3, <1>4, <3>1, NumberTypes DEF Numbered
    <3>5. \A i, j \in 1..Len(pending') : i # j => pending'[i] # pending'[j]
      BY <2>1, <3>1 DEF Numbered
    <3>6. \A v, w \in Others : v # w /\ stuck'[v] # 0 => stuck'[v] # stuck'[w]
      BY <1>6, <2>2, <3>1 DEF Numbered
    <3>7. \A v \in Others : \A i \in 1..Len(pending') : stuck'[v] # pending'[i]
      BY <1>6, <2>1, <2>2, <3>1 DEF Numbered
    <3>8. \A v \in Others : \A i \in 1..Len(handled') : stuck'[v] # handled'[i]
      BY <1>1, <1>6, <2>2, <3>1 DEF Numbered
    <3> QED
      BY <3>2, <3>3, <3>4, <3>5, <3>6, <3>7, <3>8 DEF Numbered
  <2>5. Fresh'
    BY <1>1, <1>2, <1>3, <2>1 DEF ListInv, Fresh, Clean, Passed
  <2>6. {installed', used', flag'} \subseteq BOOLEAN
    BY <1>1, <1>3, <2>1 DEF TypeOK
  <2>7. TypeOK'
    BY <1>1, <1>3, <1>5, <2>1, <2>2, <2>6 DEF TypeOK
  <2> QED
    BY <2>3, <2>4, <2>5, <2>7 DEF ListInv
<1> QED
  BY <1>7, <1>8 DEF signal_on_other

LEMMA GetLock ==
  ASSUME SignalInv, NEW u \in Others, get_lock(u)
  PROVE  ListInv' /\ TypeOK'
<1>1. /\ stuck[u] # 0 /\ ~Locked
      /\ pending' = Append(pending, stuck[u]) /\ flag' = TRUE /\ waking' \in {u, NoThread}
      /\ stuck' = [stuck EXCEPT ![u] = 0]
      /\ gil' = gil /\ main' = main /\ installed' = installed /\ used' = used
      /\ frames' = frames /\ handled' = handled /\ sent' = sent
  BY DEF get_lock, LockFree, queue_signal
<1>2. Looking' = Looking
  BY <1>1 DEF Looking
<1>3. TypeOK /\ ListInv
  BY DEF SignalInv
<1>4. sent \in Nat /\ MaxSignals \in Nat /\ stuck[u] \in Nat
  BY <1>3, NumberTypes
<1>5. stuck[u] \in 1..MaxSignals /\ stuck[u] <= sent' /\ sent' \in Nat /\ sent <= sent'
  <2>1. stuck[u] \in 0..MaxSignals /\ stuck[u] <= sent
    BY <1>3 DEF TypeOK, ListInv, Numbered
  <2> QED
    BY <1>1, <1>4, <2>1
<1>6. /\ \A i \in 1..Len(pending) : pending[i] # stuck[u]
      /\ \A i \in 1..Len(handled) : handled[i] # stuck[u]
      /\ \A v \in Others : v # u => stuck[v] # stuck[u]
  BY <1>1, <1>3 DEF ListInv, Numbered
<1>7. /\ stuck' \in [Others -> 0..MaxSignals]
      /\ \A v \in Others : stuck'[v] = IF v = u THEN 0 ELSE stuck[v]
  BY <1>1, <1>3, <1>4 DEF TypeOK
<1>8. \A v \in Others : stuck'[v] # stuck[u] /\ stuck'[v] \in {0, stuck[v]}
  BY <1>1, <1>6, <1>7
<1>9. UNCHANGED <<frames, handled>> /\ (Locked => waking' = NoThread)
  BY <1>1
<1>10. PICK sig \in 1..MaxSignals : sig = stuck[u]
  BY <1>5
<1>11. ListInv'
  <2>1. /\ pending' = Append(pending, sig) /\ sig <= sent'
        /\ \A i \in 1..Len(pending) : pending[i] # sig
        /\ \A i \in 1..Len(handled) : handled[i] # sig
        /\ \A v \in Others : stuck'[v] # sig /\ stuck'[v] \in {0, stuck[v]}
    BY <1>1, <1>5, <1>6, <1>8, <1>10
  <2> QED
    BY <1>2, <1>3, <1>5, <1>7, <1>9, <2>1, QueueStep
<1>12. pending' \in Seq(1..MaxSignals)
  BY <1>1, <1>3, <1>5, AppendIs DEF TypeOK
<1>13. {installed', used', flag'} \subseteq BOOLEAN
  BY <1>1, <1>3, Bools, Zenon DEF TypeOK
<1> QED
  BY <1>1, <1>3, <1>7, <1>11, <1>12, <1>13 DEF TypeOK

LEMMA RunWaiter ==
  ASSUME SignalInv, NEW u \in Others, run_waiter(u)
  PROVE  ListInv' /\ TypeOK'
<1>1. /\ waking = u /\ waking' = NoThread /\ installed' = FALSE /\ used' = (used \/ InReceive)
      /\ main' \in {"dangling", "woken", main}
      /\ gil' = gil /\ flag' = flag /\ pending' = pending /\ frames' = frames /\ stuck' = stuck
      /\ sent' = sent /\ handled' = handled
  BY DEF run_waiter
<1>2. TypeOK /\ ListInv
  BY DEF SignalInv
<1>3. ~Looking
  BY <1>1, <1>2, ThreadsAssumption DEF ListInv, Placed
<1>4. Looking' = Looking
  BY <1>1, <1>3 DEF Looking
<1>5. ListInv'
  <2>1. UNCHANGED <<pending, frames, stuck, sent, handled>>
    BY <1>1
  <2> QED
    BY <1>1, <1>2, <1>4, <2>1, QuietStep
<1>6. {installed', used', flag'} \subseteq BOOLEAN
  <2>1. InReceive \in BOOLEAN
    BY DEF InReceive
  <2> QED
    BY <1>1, <1>2, <2>1, Bools, Zenon DEF TypeOK
<1>7. main' \in MainStates
  BY <1>1, <1>2 DEF TypeOK, MainStates
<1> QED
  BY <1>1, <1>2, <1>5, <1>6, <1>7 DEF TypeOK

LEMMA OutsideSteps ==
  ASSUME SignalInv, OutsideStep
  PROVE  ListInv' /\ TypeOK'
<1>1. /\ pending' = pending /\ frames' = frames /\ stuck' = stuck /\ waking' = waking
      /\ sent' = sent /\ handled' = handled
  BY DEF OutsideStep, process_async, Unlock, Lock, receive, install_waiter, wait,
         spurious_wakeup, wait_returns, otherVars
<1>2. /\ main \in {"ruby", "outside", "entering", "armed", "asleep", "woken"}
      /\ main' \in {"process", "ruby", "outside", "entering", "armed", "asleep", "woken"}
      /\ gil' \in {gil, Main, NoThread}
  BY DEF OutsideStep, process_async, Unlock, Lock, receive, install_waiter, wait,
         spurious_wakeup, wait_returns
<1>3. /\ installed' \in {installed, TRUE, FALSE} /\ used' \in {used, FALSE}
      /\ flag' \in {flag, FALSE}
  BY DEF OutsideStep, process_async, Unlock, Lock, receive, install_waiter, wait,
         spurious_wakeup, wait_returns
<1>4. TypeOK /\ ListInv
  BY DEF SignalInv
<1>5. ListInv'
  <2>1. UNCHANGED <<pending, frames, stuck, sent, handled>>
    BY <1>1
  <2>2. Looking' = Looking
    BY <1>2 DEF Looking
  <2> QED
    BY <1>1, <1>4, <2>1, <2>2, QuietStep
<1>6. {installed', used', flag'} \subseteq BOOLEAN
  BY <1>3, <1>4, Bools, Zenon DEF TypeOK
<1>7. main' \in MainStates /\ gil' \in Others \cup {Main, NoThread}
  BY <1>2, <1>4 DEF TypeOK, MainStates
<1> QED
  BY <1>1, <1>4, <1>5, <1>6, <1>7 DEF TypeOK

LEMMA OtherSteps ==
  ASSUME SignalInv, NEW u \in Others, OtherLock(u) \/ OtherUnlock(u) \/ send(u)
  PROVE  ListInv' /\ TypeOK'
<1>1. /\ pending' = pending /\ frames' = frames /\ stuck' = stuck /\ waking' = waking
      /\ sent' = sent /\ handled' = handled
      /\ installed' = installed /\ used' = used /\ flag' = flag
  BY DEF OtherLock, OtherUnlock, send, otherVars
<1>2. /\ main' = main \/ (main = "asleep" /\ main' = "woken")
      /\ gil' \in {gil, u, NoThread}
  BY DEF OtherLock, OtherUnlock, send
<1>3. TypeOK /\ ListInv
  BY DEF SignalInv
<1>4. ListInv'
  <2>1. UNCHANGED <<pending, frames, stuck, sent, handled>>
    BY <1>1
  <2>2. Looking' = Looking
    BY <1>2 DEF Looking
  <2> QED
    BY <1>1, <1>3, <2>1, <2>2, QuietStep
<1>5. main' \in MainStates /\ gil' \in Others \cup {Main, NoThread}
  BY <1>2, <1>3 DEF TypeOK, MainStates
<1> QED
  BY <1>1, <1>3, <1>4, <1>5 DEF TypeOK

LEMMA DeliverSteps ==
  ASSUME SignalInv, deliver_signals \/ deliver_next \/ handler_returns \/ clear_pending
  PROVE  ListInv' /\ TypeOK'
<1>1. TypeOK /\ ListInv
  BY DEF SignalInv
<1>2. /\ gil' = gil /\ installed' = installed /\ used' = used /\ flag' = flag
      /\ stuck' = stuck /\ waking' = waking /\ sent' = sent
      /\ main' \in {"deliver", "ruby", "clear", "undefined"}
  BY DEF deliver_signals, deliver_next, handler_returns, clear_pending, otherVars
<1>3. main' \in MainStates
  BY <1>2 DEF MainStates
<1>4. SUFFICES /\ ListInv'
               /\ pending' \in Seq(1..MaxSignals) /\ handled' \in Seq(1..MaxSignals)
               /\ frames' \in Seq(0..MaxSignals + 1)
  BY <1>1, <1>2, <1>3 DEF TypeOK
<1>5. CASE deliver_signals
  <2>1. /\ frames' = Append(frames, 1) /\ pending' = pending /\ handled' = handled
        /\ frames \in Seq(0..MaxSignals + 1)
    BY <1>1, <1>5 DEF deliver_signals, TypeOK
  <2>2. 1 \in 0..MaxSignals + 1
    BY BoundsAssumption
  <2>3. frames' \in Seq(0..MaxSignals + 1)
    BY <2>1, <2>2, AppendIs
  <2> QED
    BY <1>1, <1>5, <2>1, <2>3, EnterStep DEF TypeOK
<1>6. CASE deliver_next
  <2>1. main = "deliver" /\ pending' = pending /\ frames' = frames
    BY <1>6 DEF deliver_next
  <2>2. UNCHANGED <<gil, installed, used, flag, pending, frames, otherVars, sent>>
    BY <1>6 DEF deliver_next
  <2>3. CASE /\ frames[Depth] <= Len(pending)
             /\ handled' = Append(handled, pending[frames[Depth]])
             /\ main' = "ruby"
    BY <1>1, <2>1, <2>2, <2>3, CallStep DEF TypeOK
  <2>4. CASE main' = "clear" /\ UNCHANGED handled
    <3>1. Looking' = Looking
      BY <2>1, <2>4 DEF Looking
    <3>2. UNCHANGED <<pending, frames, stuck, sent, handled>>
      BY <1>2, <2>1, <2>4
    <3> QED
      BY <1>1, <1>2, <3>1, <3>2, QuietStep DEF TypeOK
  <2> QED
    BY <1>6, <2>3, <2>4 DEF deliver_next
<1>7. CASE handler_returns
  <2>1. main = "ruby" /\ Locked /\ pending' = pending /\ handled' = handled
    BY <1>7 DEF handler_returns
  <2>2. UNCHANGED <<gil, installed, used, flag, pending, otherVars, sent, handled>>
    BY <1>7 DEF handler_returns
  <2>3. CASE main' = "undefined" /\ UNCHANGED frames
    <3>1. Looking' = Looking
      BY <2>1, <2>3 DEF Looking
    <3>2. UNCHANGED <<pending, frames, stuck, sent, handled>>
      BY <1>2, <2>1, <2>3
    <3> QED
      BY <1>1, <1>2, <3>1, <3>2, QuietStep DEF TypeOK
  <2>4. CASE /\ frames[Depth] # 0
             /\ main' = "deliver"
             /\ frames' = [frames EXCEPT ![Depth] = @ + 1]
    BY <1>1, <2>1, <2>2, <2>4, ReturnStep DEF TypeOK
  <2> QED
    BY <1>7, <2>3, <2>4 DEF handler_returns
<1>8. CASE clear_pending
  <2>1. pending' = << >> /\ handled' = handled
    BY <1>8 DEF clear_pending
  <2> QED
    BY <1>1, <1>8, <2>1, ClearStep DEF TypeOK
<1> QED
  BY <1>5, <1>6, <1>7, <1>8

-----------------------------------------------------------------------------
(* The flag *)

LEMMA FlagStep ==
  ASSUME SignalInv, Next
  PROVE  FlagCoversPending'
<1>1. FlagCoversPending /\ (Looking => Locked) /\ Len(frames) \in Nat /\ TypeOK
  BY NumberTypes DEF SignalInv, ListInv, Placed
<1>2. CASE signal_on_main
  BY <1>2 DEF signal_on_main, handle_signal, FlagCoversPending
<1>3. ASSUME NEW u \in Others, signal_on_other(u) \/ get_lock(u) \/ run_waiter(u)
      PROVE  FlagCoversPending'
  <2>1. frames' = frames
    BY <1>3 DEF signal_on_other, get_lock, run_waiter
  <2>2. \/ flag' = TRUE
        \/ /\ pending' = pending /\ flag' = flag
           /\ main' = main \/ InReceive \/ main' = "dangling"
    BY <1>3 DEF signal_on_other, get_lock, run_waiter, queue_signal
  <2> QED
    BY <1>1, <2>1, <2>2 DEF FlagCoversPending, Locked, Depth, InReceive
<1>4. CASE OutsideStep
  <2>1. pending' = pending /\ frames' = frames
    BY <1>4 DEF OutsideStep, process_async, Unlock, Lock, receive, install_waiter, wait,
           spurious_wakeup, wait_returns
  <2>2. main' = "process" \/ (flag' = flag /\ main \notin {"process", "dangling"})
    BY <1>4 DEF OutsideStep, process_async, Unlock, Lock, receive, install_waiter, wait,
           spurious_wakeup, wait_returns
  <2> QED
    BY <1>1, <2>1, <2>2 DEF FlagCoversPending, Locked, Depth
<1>5. ASSUME NEW u \in Others, OtherLock(u) \/ OtherUnlock(u) \/ send(u)
      PROVE  FlagCoversPending'
  <2>1. pending' = pending /\ frames' = frames /\ flag' = flag
    BY <1>5 DEF OtherLock, OtherUnlock, send
  <2>2. main' = main \/ main = "asleep"
    BY <1>5 DEF OtherLock, OtherUnlock, send
  <2> QED
    BY <1>1, <2>1, <2>2 DEF FlagCoversPending, Locked, Depth
<1>6. CASE deliver_signals
  <2>1. Len(frames') = Len(frames) + 1
    <3>1. frames \in Seq(0..MaxSignals + 1) /\ 1 \in 0..MaxSignals + 1
      BY <1>1, BoundsAssumption DEF TypeOK
    <3> QED
      BY <1>6, <3>1, AppendIs DEF deliver_signals
  <2>2. Len(frames') > 0
    BY <1>1, <2>1
  <2> QED
    BY <2>2 DEF FlagCoversPending, Locked, Depth
<1>7. CASE deliver_next
  <2>1. frames' = frames /\ main = "deliver"
    BY <1>7 DEF deliver_next
  <2> QED
    BY <1>1, <2>1 DEF FlagCoversPending, Locked, Depth, Looking
<1>8. CASE handler_returns
  <2>1. Locked /\ Len(frames') = Len(frames)
    <3>1. frames \in Seq(0..MaxSignals + 1)
      BY <1>1 DEF TypeOK
    <3> QED
      BY <1>8, <3>1 DEF handler_returns
  <2> QED
    BY <2>1 DEF FlagCoversPending, Locked, Depth
<1>9. CASE clear_pending
  BY <1>9 DEF clear_pending, FlagCoversPending
<1> QED
  BY <1>2, <1>3, <1>4, <1>5, <1>6, <1>7, <1>8, <1>9 DEF Next, MainStep, OutsideStep

-----------------------------------------------------------------------------
(* Theorems *)

LEMMA InitHolds == Init => SignalInv
<1> SUFFICES ASSUME Init PROVE SignalInv
  OBVIOUS
<1>1. /\ gil = Main /\ main = "ruby" /\ pending = << >> /\ frames = << >> /\ handled = << >>
      /\ stuck = [u \in Others |-> 0] /\ waking = NoThread /\ sent = 0
      /\ installed = FALSE /\ used = FALSE /\ flag = FALSE
  BY DEF Init
<1>2. /\ pending \in Seq(1..MaxSignals) /\ frames \in Seq(0..MaxSignals + 1)
      /\ handled \in Seq(1..MaxSignals) /\ stuck \in [Others -> 0..MaxSignals]
      /\ 0 \in 0..MaxSignals
  BY <1>1, BoundsAssumption
<1>3. {installed, used, flag} \subseteq BOOLEAN
  BY <1>1
<1>4. TypeOK
  BY <1>1, <1>2, <1>3 DEF TypeOK, MainStates
<1>5. /\ 1..Len(pending) = {} /\ 1..Len(frames) = {} /\ 1..Len(handled) = {} /\ Len(frames) = 0
  BY <1>1
<1>6. Placed /\ Iterators /\ Fresh
  BY <1>1, <1>5 DEF Placed, Looking, Locked, Depth, Iterators, Fresh
<1>7. Numbered
  BY <1>1, <1>5 DEF Numbered
<1> QED
  BY <1>1, <1>4, <1>6, <1>7 DEF SignalInv, ListInv, FlagCoversPending

LEMMA NextKeeps == SignalInv /\ [Next]_vars => SignalInv'
<1> SUFFICES ASSUME SignalInv, [Next]_vars PROVE SignalInv'
  OBVIOUS
<1>1. CASE signal_on_main
  <2>1. ListInv' /\ FlagCoversPending'
    BY <1>1, SignalOnMain, FlagStep DEF Next
  <2>2. /\ gil' = gil /\ frames' = frames /\ stuck' = stuck /\ waking' = waking /\ handled' = handled
        /\ sent' = sent + 1 /\ sent < MaxSignals /\ pending' = Append(pending, sent + 1)
        /\ main' \in {main, "woken"}
    BY <1>1 DEF signal_on_main, handle_signal, otherVars
  <2>3. TypeOK
    BY DEF SignalInv
  <2>4. sent' \in 0..MaxSignals /\ sent + 1 \in 1..MaxSignals
    <3>1. sent \in Nat /\ MaxSignals \in Nat
      BY <2>3, NumberTypes
    <3> QED
      BY <2>2, <3>1
  <2>5. pending' \in Seq(1..MaxSignals)
    BY <2>2, <2>3, <2>4, AppendIs DEF TypeOK
  <2>6. {installed', used', flag'} \subseteq BOOLEAN
    <3>1. flag' = TRUE /\ used' = (used \/ installed) /\ installed' = FALSE
      BY <1>1 DEF signal_on_main, handle_signal
    <3> QED
      BY <2>3, <3>1, Bools, Zenon DEF TypeOK
  <2>7. main' \in MainStates
    BY <2>2, <2>3 DEF TypeOK, MainStates
  <2> QED
    BY <2>1, <2>2, <2>3, <2>4, <2>5, <2>6, <2>7 DEF SignalInv, TypeOK
<1>2. ASSUME NEW u \in Others,
             signal_on_other(u) \/ get_lock(u) \/ run_waiter(u) \/ OtherLock(u) \/ OtherUnlock(u) \/ send(u)
      PROVE  SignalInv'
  <2>1. FlagCoversPending'
    BY <1>2, FlagStep DEF Next
  <2> QED
    BY <1>2, <2>1, SignalOnOther, GetLock, RunWaiter, OtherSteps DEF SignalInv
<1>3. CASE OutsideStep
  <2>1. FlagCoversPending'
    BY <1>3, FlagStep DEF Next, MainStep, OutsideStep
  <2> QED
    BY <1>3, <2>1, OutsideSteps DEF SignalInv
<1>4. CASE deliver_signals \/ deliver_next \/ handler_returns \/ clear_pending
  <2>1. FlagCoversPending'
    BY <1>4, FlagStep DEF Next, MainStep
  <2> QED
    BY <1>4, <2>1, DeliverSteps DEF SignalInv
<1>5. CASE UNCHANGED vars
  BY <1>5 DEF vars, otherVars, SignalInv, TypeOK, ListInv, Placed, Looking, Locked, Depth,
              Iterators, Numbered, Fresh, Clean, Passed, FlagCoversPending
<1> QED
  BY <1>1, <1>2, <1>3, <1>4, <1>5 DEF Next, MainStep, OutsideStep

LEMMA Invariance == Spec => []SignalInv
BY InitHolds, NextKeeps, PTL DEF Spec

\* Every variable keeps its type.  What takes an argument is that an iterator of
\* deliver_signals() never gets further than one behind the end of the list.
THEOREM TypeCorrect == Spec => []TypeOK
<1>1. SignalInv => TypeOK
  BY DEF SignalInv
<1> QED
  BY <1>1, Invariance, PTL

\* A signal on the list is never forgotten: wherever handle_signal() has run, and
\* between whichever steps of the main thread, check_local_interrupts is up
\* whenever nobody is in deliver_signals().
THEOREM FlagKept == Spec => []FlagCoversPending
<1>1. SignalInv => FlagCoversPending
  BY DEF SignalInv
<1> QED
  BY <1>1, Invariance, PTL

\* The loop of deliver_signals() calls the handler of each signal at most once,
\* also for signals that are queued while it runs, as long as no handler enters
\* deliver_signals() again.
THEOREM AtMostOnce == Spec => []HandledOnce
<1>1. SignalInv => HandledOnce
  <2> SUFFICES ASSUME SignalInv, Depth <= 1, \A d \in 1..Depth : frames[d] # 0
               PROVE  \A i, j \in DOMAIN handled : i # j => handled[i] # handled[j]
    BY DEF HandledOnce
  <2>1. Clean
    BY DEF Clean, Depth
  <2>2. \A i, j \in 1..Len(handled) : i # j => handled[i] # handled[j]
    BY <2>1 DEF SignalInv, ListInv, Fresh
  <2>3. DOMAIN handled = 1..Len(handled)
    BY DEF SignalInv, TypeOK
  <2> QED
    BY <2>2, <2>3
<1> QED
  BY <1>1, Invariance, PTL

=============================================================================
