---------------------------- MODULE ChannelProofs ----------------------------
(* Proofs about Channel, for any number of threads and receivers and any      *)
(* bounds: the channel is a FIFO that loses and repeats nothing, its count of *)
(* waiters is exact, and without interrupts no value lies in it while a       *)
(* receiver sleeps and nobody comes for it.                                   *)
EXTENDS Channel, SequenceTheorems, FiniteSetTheorems, TLAPS

-----------------------------------------------------------------------------
(* Threads and the GIL.                                                       *)

\* The thread with the GIL is the one that runs, and who sleeps is in the wait of
\* receive. Before the first interrupt no exception is registered.
GilHeld      == \A t \in Threads : where[t] = "running" <=> gil = t
SleepersWait == \A t \in asleep : where[t] = "waiting"
Undisturbed  == interrupts = 0 => raised = {}
Placed       == TypeOK /\ GilHeld /\ SleepersWait /\ Undisturbed
ThreadInv    == Placed /\ WaitersExact

\* condition_.signal() takes at most one thread out of the wait set.
LEMMA SignalFacts ==
  ASSUME Signal
  PROVE  asleep' \subseteq asleep /\ (asleep # {} => \E t \in asleep : asleep' = asleep \ {t})
  BY DEF Signal

\* Shift moves the first value to the end of what was received.
LEMMA ShiftTyped ==
  ASSUME TypeOK, Shift, value # << >>
  PROVE  value' \in Seq(Nat) /\ received' \in Seq(Nat)
  <1>1. Head(value) \in Nat /\ Tail(value) \in Seq(Nat)
    BY HeadTailProperties DEF TypeOK
  <1>2. Append(received, Head(value)) \in Seq(Nat)
    BY <1>1, AppendProperties DEF TypeOK
  <1> QED
    BY <1>1, <1>2 DEF Shift

\* The threads in receive are finitely many, and there is one if waiters_ is not zero.
LEMMA InReceiveFinite ==
  /\ IsFiniteSet(InReceive) /\ Cardinality(InReceive) \in Nat
  /\ \A t \in InReceive : Cardinality(InReceive) # 0
  <1>1. IsFiniteSet(InReceive)
    BY ThreadsAssumption, FS_Subset DEF InReceive
  <1> QED
    BY <1>1, FS_CardinalityType, FS_EmptySet

\* The count stays exact if it changes with the set of threads in receive.
LEMMA CountKept ==
  ASSUME WaitersExact,
         \/ waiters' = waiters /\ InReceive' = InReceive
         \/ \E t \in Threads : waiters' = waiters + 1 /\ t \notin InReceive /\ InReceive' = InReceive \cup {t}
         \/ \E t \in InReceive : waiters' = waiters - 1 /\ InReceive' = InReceive \ {t}
  PROVE  WaitersExact'
  <1>1. CASE waiters' = waiters /\ InReceive' = InReceive
    BY <1>1 DEF WaitersExact
  <1>2. ASSUME NEW t \in Threads, waiters' = waiters + 1, t \notin InReceive, InReceive' = InReceive \cup {t}
        PROVE  WaitersExact'
    BY <1>2, InReceiveFinite, FS_AddElement DEF WaitersExact
  <1>3. ASSUME NEW t \in InReceive, waiters' = waiters - 1, InReceive' = InReceive \ {t}
        PROVE  WaitersExact'
    BY <1>3, InReceiveFinite, FS_RemoveElement DEF WaitersExact
  <1> QED
    BY <1>1, <1>2, <1>3

LEMMA InitThreads == Init => ThreadInv
  <1> SUFFICES ASSUME Init PROVE ThreadInv
    OBVIOUS
  <1>1. TypeOK
    BY DEF Init, TypeOK, Places
  <1>2. WaitersExact
    <2>1. InReceive = {} /\ waiters = 0
      BY DEF Init, InReceive
    <2> QED
      BY <2>1, FS_EmptySet DEF WaitersExact
  <1> QED
    BY <1>1, <1>2, ThreadsAssumption DEF Init, ThreadInv, Placed, GilHeld, SleepersWait, Undisturbed

LEMMA PlacedStep == ThreadInv /\ [Next]_vars => Placed'
  <1> SUFFICES ASSUME ThreadInv, [Next]_vars PROVE Placed'
    OBVIOUS
  <1> USE ThreadsAssumption
  <1> USE DEF ThreadInv, Placed
  <1>1. ASSUME UNCHANGED vars PROVE Placed'
    BY <1>1 DEF vars, threadVars, waiterVars, historyVars, TypeOK, GilHeld, SleepersWait, Undisturbed
  <1>2. ASSUME NEW t \in Threads, Lock(t) PROVE Placed'
    BY <1>2 DEF Lock, Goto, waiterVars, historyVars, TypeOK, Places, GilHeld, SleepersWait, Undisturbed
  <1>3. ASSUME NEW t \in Threads, Unlock(t) PROVE Placed'
    BY <1>3 DEF Unlock, Goto, waiterVars, historyVars, TypeOK, Places, GilHeld, SleepersWait, Undisturbed
  <1>4. ASSUME NEW t \in Threads, check_interrupts(t) PROVE Placed'
    BY <1>4 DEF check_interrupts, threadVars, historyVars, TypeOK, GilHeld, SleepersWait, Undisturbed
  <1>5. ASSUME NEW t \in Threads, send(t) PROVE Placed'
    <2>1. asleep' \subseteq asleep
      BY <1>5, SignalFacts DEF send
    <2>2. sent' \in Nat /\ value' \in Seq(Nat)
      <3>1. sent' = sent + 1 /\ value' = Append(value, sent + 1) /\ sent + 1 \in Nat
        BY <1>5 DEF send, TypeOK
      <3>2. Append(value, sent + 1) \in Seq(Nat)
        BY <3>1, AppendProperties DEF TypeOK
      <3> QED
        BY <3>1, <3>2
    <2>3. UNCHANGED <<gil, where, timed, waiters, installed, used, raised, interrupts, received>>
      BY <1>5 DEF send, waiterVars
    <2> QED
      BY <2>1, <2>2, <2>3 DEF TypeOK, GilHeld, SleepersWait, Undisturbed
  <1>6. ASSUME NEW t \in Threads, receive_now(t) PROVE Placed'
    <2>1. value' \in Seq(Nat) /\ received' \in Seq(Nat)
      BY <1>6, ShiftTyped DEF receive_now
    <2>2. UNCHANGED <<gil, where, timed, asleep, waiters, installed, used, raised, interrupts, sent>>
      BY <1>6 DEF receive_now, threadVars, waiterVars
    <2> QED
      BY <2>1, <2>2 DEF TypeOK, GilHeld, SleepersWait, Undisturbed
  <1>7. ASSUME NEW t \in Threads, receive_wait(t) PROVE Placed'
    <2>1. PICK b \in BOOLEAN : timed' = [timed EXCEPT ![t] = b]
      BY <1>7 DEF receive_wait
    <2>2. /\ where[t] = "running" /\ gil' = NoThread /\ where' = [where EXCEPT ![t] = "waiting"]
          /\ asleep' = asleep \cup {t} /\ installed' = installed \cup {t}
          /\ used' = [used EXCEPT ![t] = FALSE] /\ waiters' = waiters + 1
          /\ UNCHANGED <<value, raised, interrupts, sent, received>>
      BY <1>7 DEF receive_wait, Goto, historyVars
    <2>3. TypeOK'
      BY <2>1, <2>2 DEF TypeOK, Places
    <2> QED
      BY <2>2, <2>3 DEF TypeOK, GilHeld, SleepersWait, Undisturbed
  <1>8. ASSUME NEW t \in Threads, wait_again(t) PROVE Placed'
    BY <1>8 DEF wait_again, waiterVars, historyVars, TypeOK, GilHeld, SleepersWait, Undisturbed
  <1>9. ASSUME NEW t \in Threads, timeout(t) PROVE Placed'
    BY <1>9 DEF timeout, Goto, waiterVars, historyVars, TypeOK, Places, GilHeld, SleepersWait, Undisturbed
  <1>10. ASSUME NEW t \in Threads, receive_end(t) PROVE Placed'
    <2>1. value' \in Seq(Nat) /\ received' \in Seq(Nat)
      BY <1>10, ShiftTyped DEF receive_end, TypeOK
    <2>2. /\ gil = NoThread /\ gil' = t /\ where' = [where EXCEPT ![t] = "running"] /\ t \notin asleep
          /\ waiters' = waiters - 1 /\ installed' = installed \ {t} /\ raised' = raised \ {t}
          /\ UNCHANGED <<timed, asleep, used, interrupts, sent>>
      BY <1>10 DEF receive_end, Finished, Goto
    <2>3. waiters' \in Nat
      <3>1. t \in InReceive
        BY <1>10 DEF receive_end, Finished, InReceive
      <3>2. waiters \in Nat /\ waiters # 0
        BY <3>1, InReceiveFinite DEF WaitersExact
      <3> QED
        BY <2>2, <3>2
    <2>4. TypeOK'
      BY <2>1, <2>2, <2>3 DEF TypeOK, Places
    <2> QED
      BY <2>2, <2>4 DEF TypeOK, GilHeld, SleepersWait, Undisturbed
  <1>11. ASSUME NEW t \in Threads, NEW u \in Threads, wakeup(t, u) \/ raise(t, u) PROVE Placed'
    <2>1. /\ UNCHANGED <<gil, where, timed, value, waiters, sent, received>>
          /\ raised' \in {raised, raised \cup {u}} /\ interrupts' = interrupts + 1
          /\ Wake(u)
      BY <1>11 DEF wakeup, raise, Interrupt
    <2>2. /\ asleep' \subseteq asleep /\ installed' \subseteq installed
          /\ used' \in {used, [used EXCEPT ![u] = TRUE]}
      BY <2>1, SignalFacts DEF Wake
    <2>3. interrupts' # 0
      BY <2>1 DEF TypeOK
    <2>4. TypeOK'
      <3>1. used' \in [Threads -> BOOLEAN]
        <4>1. CASE used' = used
          BY <4>1 DEF TypeOK
        <4>2. CASE used' = [used EXCEPT ![u] = TRUE]
          BY <4>2 DEF TypeOK
        <4> QED
          BY <2>2, <4>1, <4>2
      <3>2. raised' \subseteq Threads /\ asleep' \subseteq Threads /\ installed' \subseteq Threads
        BY <2>1, <2>2 DEF TypeOK
      <3>3. interrupts' \in Nat
        BY <2>1 DEF TypeOK
      <3> QED
        BY <2>1, <3>1, <3>2, <3>3 DEF TypeOK
    <2> QED
      BY <2>1, <2>2, <2>3, <2>4 DEF GilHeld, SleepersWait, Undisturbed
  <1>12. ASSUME spurious_wakeup PROVE Placed'
    BY <1>12 DEF spurious_wakeup, waiterVars, historyVars, TypeOK, GilHeld, SleepersWait, Undisturbed
  <1> QED
    BY <1>1, <1>2, <1>3, <1>4, <1>5, <1>6, <1>7, <1>8, <1>9, <1>10, <1>11, <1>12 DEF Next, Step

\* waiters_ is counted up before the first wait and down on every way out of the loop.
LEMMA CountStep == ThreadInv /\ [Next]_vars => WaitersExact'
  <1> SUFFICES ASSUME ThreadInv, [Next]_vars PROVE WaitersExact'
    OBVIOUS
  <1> USE DEF ThreadInv
  <1>1. CASE waiters' = waiters /\ where' = where
    <2>1. InReceive' = InReceive
      BY <1>1 DEF InReceive
    <2> QED
      BY <1>1, <2>1, CountKept
  <1>2. ASSUME NEW t \in Threads, Lock(t) \/ Unlock(t) \/ timeout(t) PROVE WaitersExact'
    <2>1. t \in asleep => where[t] = "waiting"
      BY DEF Placed, SleepersWait
    <2>2. waiters' = waiters /\ InReceive' = InReceive
      BY <1>2, <2>1 DEF Lock, Unlock, timeout, Goto, InReceive, Placed, TypeOK
    <2> QED
      BY <2>2, CountKept
  <1>3. ASSUME NEW t \in Threads, receive_wait(t) PROVE WaitersExact'
    <2>1. waiters' = waiters + 1 /\ t \notin InReceive /\ InReceive' = InReceive \cup {t}
      BY <1>3 DEF receive_wait, Goto, InReceive, Placed, TypeOK
    <2> QED
      BY <2>1, CountKept
  <1>4. ASSUME NEW t \in Threads, receive_end(t) PROVE WaitersExact'
    <2>1. waiters' = waiters - 1 /\ t \in InReceive /\ InReceive' = InReceive \ {t}
      BY <1>4 DEF receive_end, Finished, Goto, InReceive, Placed, TypeOK
    <2> QED
      BY <2>1, CountKept
  <1>5. UNCHANGED vars => waiters' = waiters /\ where' = where
    BY DEF vars, threadVars
  <1>6. ASSUME NEW t \in Threads, check_interrupts(t) \/ send(t) \/ receive_now(t) \/ wait_again(t)
        PROVE  waiters' = waiters /\ where' = where
    BY <1>6 DEF check_interrupts, send, receive_now, wait_again, threadVars
  <1>7. ASSUME NEW t \in Threads, NEW u \in Threads, wakeup(t, u) \/ raise(t, u)
        PROVE  waiters' = waiters /\ where' = where
    BY <1>7 DEF wakeup, raise
  <1>8. spurious_wakeup => waiters' = waiters /\ where' = where
    BY DEF spurious_wakeup
  <1> QED
    BY <1>1, <1>2, <1>3, <1>4, <1>5, <1>6, <1>7, <1>8 DEF Next, Step

-----------------------------------------------------------------------------
(* The values. What was received and what is in the list are the numbers sent, *)
(* element by element.                                                         *)
InOrder ==
  /\ Len(received) + Len(value) = sent
  /\ \A i \in 1..Len(received) : received[i] = i
  /\ \A i \in 1..Len(value) : value[i] = Len(received) + i

\* A shift keeps the order.
LEMMA ShiftInOrder ==
  ASSUME TypeOK, InOrder, Shift, value # << >>, sent' = sent
  PROVE  InOrder'
  <1>1. /\ Len(received) \in Nat /\ Len(value) \in Nat /\ Len(value) # 0
    BY LenProperties, EmptySeq DEF TypeOK
  <1>2. Head(value) = Len(received) + 1
    <2>1. Head(value) = value[1]
      BY HeadTailProperties DEF TypeOK
    <2> QED
      BY <1>1, <2>1 DEF InOrder
  <1>3. Len(value') = Len(value) - 1 /\ \A i \in 1..(Len(value) - 1) : value'[i] = value[i + 1]
    <2>1. /\ Tail(value) \in Seq(Nat) /\ Len(Tail(value)) = Len(value) - 1
          /\ \A i \in 1..Len(Tail(value)) : Tail(value)[i] = value[i + 1]
      BY HeadTailProperties DEF TypeOK
    <2> QED
      BY <2>1 DEF Shift
  <1>4. /\ Len(received') = Len(received) + 1
        /\ \A i \in 1..Len(received) : received'[i] = received[i]
        /\ received'[Len(received) + 1] = Head(value)
    <2>1. Head(value) \in Nat
      BY HeadTailProperties DEF TypeOK
    <2>2. PICK h \in Nat : h = Head(value)
      BY <2>1
    <2>3. /\ Len(Append(received, h)) = Len(received) + 1
          /\ \A i \in 1..Len(received) : Append(received, h)[i] = received[i]
          /\ Append(received, h)[Len(received) + 1] = h
      BY AppendProperties DEF TypeOK
    <2> QED
      BY <2>2, <2>3 DEF Shift
  <1>5. Len(received') + Len(value') = sent'
    BY <1>1, <1>3, <1>4 DEF InOrder
  <1>6. \A i \in 1..Len(received') : received'[i] = i
    <2> SUFFICES ASSUME NEW i \in 1..(Len(received) + 1) PROVE received'[i] = i
      BY <1>4
    <2>1. i \in 1..Len(received) \/ i = Len(received) + 1
      BY <1>1
    <2> QED
      BY <1>2, <1>4, <2>1 DEF InOrder
  <1>7. \A i \in 1..Len(value') : value'[i] = Len(received') + i
    <2> SUFFICES ASSUME NEW i \in 1..(Len(value) - 1) PROVE value'[i] = (Len(received) + 1) + i
      BY <1>3, <1>4
    <2>1. i + 1 \in 1..Len(value) /\ Len(received) + (i + 1) = (Len(received) + 1) + i
      BY <1>1
    <2>2. value[i + 1] = Len(received) + (i + 1)
      BY <2>1 DEF InOrder
    <2> QED
      BY <1>3, <2>1, <2>2
  <1> QED
    BY <1>5, <1>6, <1>7 DEF InOrder

LEMMA OrderStep == ThreadInv /\ InOrder /\ [Next]_vars => InOrder'
  <1> SUFFICES ASSUME TypeOK, InOrder, [Next]_vars PROVE InOrder'
    BY DEF ThreadInv, Placed
  <1>1. CASE UNCHANGED <<value, received, sent>>
    BY <1>1 DEF InOrder
  <1>2. ASSUME NEW t \in Threads, send(t) PROVE InOrder'
    <2>1. sent' = sent + 1 /\ value' = Append(value, sent + 1) /\ received' = received
      BY <1>2 DEF send
    <2>2. Len(received) \in Nat /\ Len(value) \in Nat /\ sent \in Nat /\ sent + 1 \in Nat
      BY LenProperties DEF TypeOK
    <2>3. PICK v \in Nat : v = sent + 1
      BY <2>2
    <2>4. /\ Len(Append(value, v)) = Len(value) + 1
          /\ \A i \in 1..Len(value) : Append(value, v)[i] = value[i]
          /\ Append(value, v)[Len(value) + 1] = v
      BY AppendProperties DEF TypeOK
    <2>5. /\ Len(value') = Len(value) + 1
          /\ \A i \in 1..Len(value) : value'[i] = value[i]
          /\ value'[Len(value) + 1] = sent + 1
      BY <2>1, <2>3, <2>4
    <2>6. Len(received') + Len(value') = sent'
      <3>1. Len(received) + Len(value) = sent
        BY DEF InOrder
      <3>2. Len(received') = Len(received) /\ Len(value') = Len(value) + 1 /\ sent' = sent + 1
        BY <2>1, <2>5
      <3> QED
        BY <2>2, <3>1, <3>2
    <2>7. \A i \in 1..Len(value') : value'[i] = Len(received') + i
      <3> SUFFICES ASSUME NEW i \in 1..(Len(value) + 1) PROVE value'[i] = Len(received) + i
        BY <2>1, <2>5
      <3>1. i \in 1..Len(value) \/ i = Len(value) + 1
        BY <2>2
      <3>2. CASE i \in 1..Len(value)
        BY <2>5, <3>2 DEF InOrder
      <3>3. CASE i = Len(value) + 1
        <4>1. Len(received) + i = sent + 1
          <5>1. Len(received) + Len(value) = sent
            BY DEF InOrder
          <5> QED
            BY <2>2, <3>3, <5>1
        <4> QED
          BY <2>5, <3>3, <4>1
      <3> QED
        BY <3>1, <3>2, <3>3
    <2> QED
      BY <2>1, <2>6, <2>7 DEF InOrder
  <1>3. ASSUME NEW t \in Threads, receive_now(t) PROVE InOrder'
    BY <1>3, ShiftInOrder DEF receive_now
  <1>4. ASSUME NEW t \in Threads, receive_end(t) PROVE InOrder'
    BY <1>1, <1>4, ShiftInOrder DEF receive_end
  <1>5. UNCHANGED vars \/ spurious_wakeup => UNCHANGED <<value, received, sent>>
    BY DEF vars, spurious_wakeup, historyVars
  <1>6. ASSUME NEW t \in Threads, \/ Lock(t) \/ Unlock(t) \/ check_interrupts(t) \/ receive_wait(t)
                                  \/ wait_again(t) \/ timeout(t)
        PROVE  UNCHANGED <<value, received, sent>>
    BY <1>6 DEF Lock, Unlock, check_interrupts, receive_wait, wait_again, timeout, historyVars
  <1>7. ASSUME NEW t \in Threads, NEW u \in Threads, wakeup(t, u) \/ raise(t, u)
        PROVE  UNCHANGED <<value, received, sent>>
    BY <1>7 DEF wakeup, raise
  <1> QED
    BY <1>1, <1>2, <1>3, <1>4, <1>5, <1>6, <1>7 DEF Next, Step

-----------------------------------------------------------------------------
(* No value is stranded.                                                      *)

\* Threads that have left the wait set are finitely many.
LEMMA WokenFinite == IsFiniteSet(Woken) /\ Cardinality(Woken) \in Nat
  <1>1. IsFiniteSet(Woken)
    BY InReceiveFinite, FS_Subset DEF Woken
  <1> QED
    BY <1>1, FS_CardinalityType

LEMMA StrandedStep == ThreadInv /\ InOrder /\ NoStrandedValue /\ [Next]_vars => NoStrandedValue'
  <1> SUFFICES ASSUME ThreadInv, NoStrandedValue, [Next]_vars, interrupts' = 0, asleep' # {}
               PROVE  Len(value') <= Cardinality(Woken')
    BY DEF NoStrandedValue
  <1>t. /\ TypeOK /\ SleepersWait /\ Len(value) \in Nat /\ interrupts \in Nat
        /\ IsFiniteSet(Woken) /\ Cardinality(Woken) \in Nat
    BY WokenFinite, LenProperties DEF ThreadInv, Placed, TypeOK
  <1>f. IsFiniteSet(Woken') /\ Cardinality(Woken') \in Nat
    <2>1. IsFiniteSet(InReceive')
      BY ThreadsAssumption, FS_Subset DEF InReceive
    <2>2. IsFiniteSet(Woken')
      BY <2>1, FS_Subset DEF Woken
    <2> QED
      BY <2>2, FS_CardinalityType
  \* nothing is added to the list and nobody who is awake leaves
  <1>1. ASSUME interrupts' = interrupts, asleep # {}, Len(value') \in Nat, Len(value') <= Len(value),
               Woken \subseteq Woken'
        PROVE  Len(value') <= Cardinality(Woken')
    <2>1. Len(value) <= Cardinality(Woken)
      BY <1>1 DEF NoStrandedValue
    <2>2. Cardinality(Woken) <= Cardinality(Woken')
      BY <1>1, <1>f, FS_Subset
    <2> QED
      BY <1>1, <1>t, <1>f, <2>1, <2>2
  <1>2. CASE value' = << >>
    BY <1>2, <1>f, EmptySeq
  <1>3. ASSUME interrupts' = interrupts, value' = value, asleep' \subseteq asleep, InReceive' = InReceive
        PROVE  Len(value') <= Cardinality(Woken')
    BY <1>1, <1>3, <1>t DEF Woken
  <1>4. ASSUME UNCHANGED vars \/ spurious_wakeup PROVE Len(value') <= Cardinality(Woken')
    <2>1. interrupts' = interrupts /\ value' = value /\ where' = where /\ asleep' \subseteq asleep
      BY <1>4 DEF vars, spurious_wakeup, threadVars, historyVars
    <2> QED
      BY <1>3, <2>1 DEF InReceive
  <1>5. ASSUME NEW t \in Threads, Lock(t) \/ Unlock(t) \/ check_interrupts(t)
        PROVE  Len(value') <= Cardinality(Woken')
    <2>1. interrupts' = interrupts /\ value' = value /\ asleep' = asleep
      BY <1>5 DEF Lock, Unlock, check_interrupts, threadVars, historyVars
    <2>2. InReceive' = InReceive
      BY <1>5, <1>t DEF Lock, Unlock, check_interrupts, Goto, threadVars, InReceive, TypeOK
    <2> QED
      BY <1>3, <2>1, <2>2
  \* the signal of send has woken one more
  <1>6. ASSUME NEW t \in Threads, send(t) PROVE Len(value') <= Cardinality(Woken')
    <2>1. /\ where' = where /\ interrupts' = interrupts /\ value' = Append(value, sent + 1)
          /\ IF waiters > 0 THEN Signal ELSE asleep' = asleep
      BY <1>6 DEF send
    <2>2. asleep # {}
      BY <2>1, SignalFacts
    <2>3. waiters > 0
      <3>1. PICK u \in asleep : u \in InReceive
        BY <1>t, <2>2 DEF SleepersWait, InReceive, TypeOK
      <3>2. waiters \in Nat /\ waiters # 0
        BY <3>1, InReceiveFinite DEF ThreadInv, WaitersExact
      <3> QED
        BY <3>2
    <2>4. PICK u \in asleep : asleep' = asleep \ {u}
      BY <2>1, <2>2, <2>3, SignalFacts
    <2>5. u \notin Woken /\ Woken' = Woken \cup {u}
      BY <1>t, <2>1, <2>4 DEF Woken, InReceive, SleepersWait, TypeOK
    <2>6. Cardinality(Woken') = Cardinality(Woken) + 1
      BY <1>t, <2>5, FS_AddElement
    <2>7. Len(value') = Len(value) + 1
      <3>1. PICK v \in Nat : v = sent + 1
        BY <1>t DEF TypeOK
      <3>2. Len(Append(value, v)) = Len(value) + 1
        BY <1>t, AppendProperties DEF TypeOK
      <3> QED
        BY <2>1, <3>1, <3>2
    <2>8. Len(value) <= Cardinality(Woken)
      BY <2>1, <2>2 DEF NoStrandedValue
    <2> QED
      BY <1>t, <2>6, <2>7, <2>8
  <1>7. ASSUME Shift, value # << >> PROVE Len(value') = Len(value) - 1 /\ Len(value') \in Nat
    <2>1. Len(Tail(value)) = Len(value) - 1 /\ Len(value) # 0
      BY <1>7, <1>t, HeadTailProperties, EmptySeq DEF TypeOK
    <2> QED
      BY <1>7, <1>t, <2>1 DEF Shift
  <1>8. ASSUME NEW t \in Threads, receive_now(t) PROVE Len(value') <= Cardinality(Woken')
    <2>1. interrupts' = interrupts /\ asleep' = asleep /\ where' = where /\ Shift /\ value # << >>
      BY <1>8 DEF receive_now, threadVars
    <2>2. Woken' = Woken
      BY <2>1 DEF Woken, InReceive
    <2>3. Len(value') \in Nat /\ Len(value') <= Len(value)
      BY <1>7, <1>t, <2>1
    <2> QED
      BY <1>1, <2>1, <2>2, <2>3
  <1>9. ASSUME NEW t \in Threads, receive_wait(t) \/ wait_again(t) PROVE value' = << >>
    BY <1>9 DEF receive_wait, wait_again
  <1>10. ASSUME NEW t \in Threads, timeout(t) PROVE Len(value') <= Cardinality(Woken')
    <2>1. /\ interrupts' = interrupts /\ value' = value /\ where' = [where EXCEPT ![t] = "expired"]
          /\ t \in asleep /\ asleep' = asleep \ {t}
      BY <1>10 DEF timeout, Goto, historyVars
    <2>2. InReceive' = InReceive
      BY <1>t, <2>1 DEF InReceive, SleepersWait, TypeOK
    <2> QED
      BY <1>3, <2>1, <2>2
  \* the thread that leaves takes a value with it: nobody was interrupted
  <1>11. ASSUME NEW t \in Threads, receive_end(t) PROVE Len(value') <= Cardinality(Woken')
    <2>1. /\ interrupts' = interrupts /\ asleep' = asleep /\ where' = [where EXCEPT ![t] = "running"]
          /\ t \notin asleep /\ t \in InReceive
          /\ IF t \in raised \/ value = << >> THEN value' = value ELSE Shift
      BY <1>11 DEF receive_end, Finished, Goto, InReceive
    <2>2. t \notin raised
      BY <2>1 DEF ThreadInv, Placed, Undisturbed
    <2>3. CASE value # << >>
      <3>1. t \in Woken /\ Woken' = Woken \ {t}
        BY <1>t, <2>1 DEF Woken, InReceive, TypeOK
      <3>2. Cardinality(Woken') = Cardinality(Woken) - 1
        BY <1>t, <3>1, FS_RemoveElement
      <3>3. Len(value') = Len(value) - 1
        BY <1>7, <2>1, <2>2, <2>3
      <3>4. Len(value) <= Cardinality(Woken)
        BY <2>1 DEF NoStrandedValue
      <3> QED
        BY <1>t, <3>2, <3>3, <3>4
    <2> QED
      BY <1>2, <2>1, <2>3
  <1>12. ASSUME NEW t \in Threads, NEW u \in Threads, wakeup(t, u) \/ raise(t, u) PROVE FALSE
    BY <1>12, <1>t DEF wakeup, raise, Interrupt
  <1> QED
    BY <1>2, <1>4, <1>5, <1>6, <1>8, <1>9, <1>10, <1>11, <1>12 DEF Next, Step

-----------------------------------------------------------------------------
(* The theorems.                                                              *)
ChannelInv == ThreadInv /\ InOrder /\ NoStrandedValue

LEMMA ChannelHolds == Spec => []ChannelInv
  <1>1. Init => ChannelInv
    <2> SUFFICES ASSUME Init PROVE ChannelInv
      OBVIOUS
    <2>1. InOrder
      <3>1. value = << >> /\ received = << >> /\ sent = 0
        BY DEF Init
      <3>2. Len(value) = 0 /\ Len(received) = 0
        BY <3>1
      <3> QED
        BY <3>1, <3>2 DEF InOrder
    <2>2. NoStrandedValue
      BY DEF Init, NoStrandedValue
    <2> QED
      BY <2>1, <2>2, InitThreads DEF ChannelInv
  <1>2. ChannelInv /\ [Next]_vars => ChannelInv'
    BY PlacedStep, CountStep, OrderStep, StrandedStep DEF ChannelInv, ThreadInv
  <1> QED
    BY <1>1, <1>2, PTL DEF Spec

\* Types of a channel and its threads.
THEOREM TypeCorrect == Spec => []TypeOK
  <1>1. ChannelInv => TypeOK
    BY DEF ChannelInv, ThreadInv, Placed
  <1> QED
    BY <1>1, ChannelHolds, PTL

\* waiters_ counts the threads in receive however receivers, timeouts and interrupts
\* interleave: send may rely on it to skip the signal.
THEOREM CountExact == Spec => []WaitersExact
  <1>1. ChannelInv => WaitersExact
    BY DEF ChannelInv, ThreadInv
  <1> QED
    BY <1>1, ChannelHolds, PTL

\* A channel delivers every value once and in the order sent, whoever is interrupted,
\* times out or finds its value taken.
THEOREM Fifo == Spec => []ExactlyOnceInOrder
  <1>1. ChannelInv => ExactlyOnceInOrder
    <2> SUFFICES ASSUME TypeOK, InOrder PROVE received \o value = [i \in 1..sent |-> i]
      BY DEF ChannelInv, ThreadInv, Placed, ExactlyOnceInOrder
    <2> DEFINE s == received \o value
               n == [i \in 1..sent |-> i]
    <2>1. Len(received) \in Nat /\ Len(value) \in Nat /\ sent \in Nat
      BY LenProperties DEF TypeOK
    <2>2. /\ s \in Seq(Nat) /\ Len(s) = Len(received) + Len(value)
          /\ \A i \in 1..(Len(received) + Len(value)) :
                s[i] = IF i <= Len(received) THEN received[i] ELSE value[i - Len(received)]
      BY ConcatProperties DEF TypeOK
    <2>3. n \in Seq(Nat) /\ Len(n) = sent
      BY <2>1, IsASeq
    <2>4. \A i \in 1..sent : n[i] = i
      OBVIOUS
    <2> HIDE DEF s, n
    <2>5. ASSUME NEW i \in 1..sent PROVE s[i] = i
      <3>1. i \in 1..(Len(received) + Len(value)) /\ i \in Nat
        BY <2>1 DEF InOrder
      <3>2. CASE i <= Len(received)
        <4>1. i \in 1..Len(received)
          BY <2>1, <3>1, <3>2
        <4>2. received[i] = i
          BY <4>1 DEF InOrder
        <4> QED
          BY <2>2, <3>1, <3>2, <4>2
      <3>3. CASE ~(i <= Len(received))
        <4>1. i - Len(received) \in 1..Len(value) /\ Len(received) + (i - Len(received)) = i
          BY <2>1, <3>1, <3>3
        <4>2. value[i - Len(received)] = i
          BY <4>1 DEF InOrder
        <4> QED
          BY <2>2, <3>1, <3>3, <4>2
      <3> QED
        BY <3>2, <3>3
    <2>6. Len(s) = Len(n) /\ \A i \in 1..Len(s) : s[i] = n[i]
      BY <2>1, <2>2, <2>3, <2>4, <2>5 DEF InOrder
    <2>7. s = n
      BY <2>2, <2>3, <2>6, SeqEqual
    <2> QED
      BY <2>7 DEF s, n
  <1> QED
    BY <1>1, ChannelHolds, PTL

\* Without interrupts, every value that lies in the channel while a receiver sleeps has
\* a thread of its own that has left the wait and comes for it: no signal is missing.
THEOREM NothingStranded == Spec => []NoStrandedValue
  <1>1. ChannelInv => NoStrandedValue
    BY DEF ChannelInv
  <1> QED
    BY <1>1, ChannelHolds, PTL
=============================================================================
