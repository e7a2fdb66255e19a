-------------------------- MODULE WorldStateProofs --------------------------
(***************************************************************************)
(* Theorems about WorldState, for every set of Ruby threads and every      *)
(* finite set of helpers.                                                  *)
(*                                                                         *)
(* CollectorAlone is not inductive: a step that makes a helper dependent   *)
(* preserves it only because the helper tests should_stop_, and the end of *)
(* wait_til_alone() establishes it only because pending_threads_ counts    *)
(* the dependent helpers.  IInv ties the flag and the counter to the       *)
(* states of the threads, and adds who owns the GIL.                       *)
(***************************************************************************)
EXTENDS WorldState, FiniteSetTheorems, TLAPS

\* A Ruby thread is outside exactly if it does not own the GIL.
GilOwner == \A t \in RubyThreads : ruby[t] # "outside" <=> gil = t

\* should_stop_ is set exactly from wait_til_alone() to wake_all_waiters().
FlagMeansStopper == should_stop <=> Stoppers # {}

\* Who may be asleep on which condition variable.
SleepersInLoops ==
    /\ \A t \in waiting_to_stop : ruby[t] = "stopping"
    /\ \A h \in waiting_to_run : helper[h] \in Loops

AloneIsEmpty == \A t \in RubyThreads : ruby[t] = "alone" => Counted = {}

IInv ==
    /\ TypeOK
    /\ GilOwner
    /\ FlagMeansStopper
    /\ SleepersInLoops
    /\ AloneIsEmpty
    /\ PendingIsExact
    /\ NoLostStopSignal
    /\ NoLostRunSignal

-----------------------------------------------------------------------------
(* Facts about the operators *)

\* Every set of helpers has a natural cardinality.
LEMMA CountedFinite ==
    IsFiniteSet(Counted) /\ Cardinality(Counted) \in Nat
  <1>1. Counted \in SUBSET Helpers
    BY DEF Counted
  <1> QED
    BY <1>1, HelpersAssumption, FS_Subset, FS_CardinalityType

\* A helper that becomes counted, or stops being counted, changes the count by one.
LEMMA CountStep ==
    ASSUME NEW h \in Helpers
    PROVE  /\ h \notin Counted => Cardinality(Counted \cup {h}) = Cardinality(Counted) + 1
           /\ h \in Counted => Cardinality(Counted \ {h}) = Cardinality(Counted) - 1
  BY CountedFinite, FS_AddElement, FS_RemoveElement

\* The GIL makes the stopper unique.
LEMMA StopperUnique ==
    ASSUME GilOwner, NEW t \in Stoppers
    PROVE  gil = t /\ Stoppers = {t}
  BY DEF GilOwner, Stoppers

-----------------------------------------------------------------------------
\* The initial state satisfies the inductive invariant.
LEMMA InitIInv == Init => IInv
  <1> SUFFICES ASSUME Init PROVE IInv
    OBVIOUS
  <1> USE DEF Init
  <1>1. TypeOK
    <2>1. should_stop \in BOOLEAN
      BY Zenon
    <2> QED
      BY <2>1 DEF TypeOK, RubyStates, HelperStates
  <1>2. Counted = {} /\ Stoppers = {}
    BY DEF Counted, Stoppers
  <1>3. GilOwner
    BY RubyThreadsAssumption DEF GilOwner
  <1>4. PendingIsExact
    BY <1>2, FS_EmptySet DEF PendingIsExact
  <1> QED
    BY <1>1, <1>2, <1>3, <1>4
    DEF IInv, FlagMeansStopper, SleepersInLoops, AloneIsEmpty, NoLostStopSignal, NoLostRunSignal

\* TypeOK is inductive by itself.
LEMMA TypeStep == TypeOK /\ [Next]_vars => TypeOK'
  <1> SUFFICES ASSUME TypeOK, [Next]_vars PROVE TypeOK'
    OBVIOUS
  <1> USE DEF TypeOK, RubyStates, HelperStates
  <1>1. CASE UNCHANGED vars
    BY <1>1 DEF vars
  <1>2. ASSUME NEW t \in RubyThreads, RubyStep(t) PROVE TypeOK'
    <2>1. CASE Lock(t) \/ Unlock(t)
      BY <2>1 DEF Lock, Unlock
    <2>2. CASE wait_til_alone(t)
      BY <2>2 DEF wait_til_alone, AloneOrSleep
    <2>3. CASE recheck_alone(t)
      BY <2>3 DEF recheck_alone, AloneOrSleep
    <2>4. CASE wake_all_waiters(t)
      <3>1. should_stop' \in BOOLEAN
        BY <2>4, Zenon DEF wake_all_waiters
      <3> QED
        BY <2>4, <3>1 DEF wake_all_waiters
    <2>5. CASE reinit(t)
      <3>1. should_stop' \in BOOLEAN
        BY <2>5, Zenon DEF reinit
      <3> QED
        BY <2>5, <3>1 DEF reinit
    <2> QED
      BY <1>2, <2>1, <2>2, <2>3, <2>4, <2>5 DEF RubyStep
  <1>3. ASSUME NEW h \in Helpers, HelperStep(h) PROVE TypeOK'
    <2>1. CASE become_dependent(h)
      BY <2>1 DEF become_dependent
    <2>2. CASE become_independent(h)
      BY <2>2 DEF become_independent, wait_to_run, SignalStop
    <2>3. CASE checkpoint_test(h)
      BY <2>3 DEF checkpoint_test
    <2>4. CASE checkpoint(h)
      BY <2>4 DEF checkpoint, wait_to_run, SignalStop
    <2>5. CASE resume(h)
      BY <2>5 DEF resume
    <2> QED
      BY <1>3, <2>1, <2>2, <2>3, <2>4, <2>5 DEF HelperStep
  <1>4. CASE spurious_wakeup
    BY <1>4 DEF spurious_wakeup
  <1> QED
    BY <1>1, <1>2, <1>3, <1>4 DEF Next

\* Type correctness of WorldState: no operation takes a field out of its type.
THEOREM TypeCorrect == Spec => []TypeOK
  <1>1. Init => TypeOK
    BY InitIInv DEF IInv
  <1> QED
    BY <1>1, TypeStep, PTL DEF Spec
-----------------------------------------------------------------------------
(* The inductive step, one lemma for the Ruby side and one for the helpers *)

\* What a step of a Ruby thread does to the invariant.
LEMMA RubyStepIInv ==
    ASSUME IInv, NEW t \in RubyThreads, RubyStep(t)
    PROVE  IInv'
  <1>t. TypeOK /\ TypeOK'
    BY TypeStep DEF IInv, Next
  <1>c. IsFiniteSet(Counted) /\ Cardinality(Counted) \in Nat
    BY CountedFinite
  <1> USE DEF IInv
  <1>1. CASE Lock(t) \/ Unlock(t)
    <2>1. Counted' = Counted /\ Stoppers' = Stoppers
      BY <1>1, <1>t DEF Lock, Unlock, Counted, Stoppers, TypeOK
    <2>2. GilOwner'
      BY <1>1, <1>t, RubyThreadsAssumption DEF Lock, Unlock, GilOwner, TypeOK
    <2>3. AloneIsEmpty'
      BY <1>1, <1>t, <2>1 DEF Lock, Unlock, AloneIsEmpty, TypeOK
    <2>4. SleepersInLoops'
      BY <1>1, <1>t DEF Lock, Unlock, SleepersInLoops, TypeOK
    <2>5. FlagMeansStopper' /\ PendingIsExact' /\ NoLostStopSignal' /\ NoLostRunSignal'
      BY <1>1, <2>1
      DEF Lock, Unlock, FlagMeansStopper, PendingIsExact, NoLostStopSignal, NoLostRunSignal
    <2> QED
      BY <1>t, <2>2, <2>3, <2>4, <2>5
  <1>2. CASE wait_til_alone(t)
    <2> USE DEF wait_til_alone, AloneOrSleep
    <2>1. Counted' = Counted
      BY <1>2 DEF Counted
    <2>2. Stoppers = {} /\ waiting_to_stop = {}
      BY <1>2, <1>t DEF GilOwner, Stoppers, SleepersInLoops, TypeOK
    <2>3. pending_threads' = Cardinality(Counted)
      BY <1>2, <1>c, <2>2 DEF PendingIsExact
    <2>4. t \in Stoppers'
      BY <1>2, <1>t DEF Stoppers, TypeOK
    <2>5. GilOwner'
      BY <1>2, <1>t DEF GilOwner, TypeOK
    <2>6. FlagMeansStopper'
      BY <1>2, <2>4 DEF FlagMeansStopper
    <2>7. PendingIsExact'
      BY <2>1, <2>3, <2>4, <1>c DEF PendingIsExact
    <2>8. AloneIsEmpty'
      <3>1. ASSUME NEW u \in RubyThreads, ruby'[u] = "alone" PROVE Cardinality(Counted) = 0
        <4>1. u = t
          BY <3>1, <1>2, <1>t, <2>2 DEF Stoppers, TypeOK
        <4> QED
          BY <3>1, <4>1, <1>2, <1>t, <1>c, <2>3 DEF TypeOK
      <3> QED
        BY <3>1, <1>c, <2>1, FS_EmptySet DEF AloneIsEmpty
    <2>9. SleepersInLoops'
      BY <1>2, <1>t, <2>2 DEF SleepersInLoops, TypeOK
    <2>10. NoLostStopSignal' /\ NoLostRunSignal'
      BY <1>2, <2>2 DEF NoLostStopSignal, NoLostRunSignal
    <2> QED
      BY <1>t, <2>5, <2>6, <2>7, <2>8, <2>9, <2>10
  <1>3. CASE recheck_alone(t)
    <2> USE DEF recheck_alone, AloneOrSleep
    <2>1. Counted' = Counted
      BY <1>3 DEF Counted
    <2>2. t \in Stoppers /\ t \in Stoppers'
      BY <1>3, <1>t DEF Stoppers, TypeOK
    <2>3. pending_threads = Cardinality(Counted)
      BY <1>c, <2>2 DEF PendingIsExact
    <2>5. GilOwner'
      BY <1>3, <1>t DEF GilOwner, TypeOK
    <2>6. FlagMeansStopper'
      BY <1>3, <2>2 DEF FlagMeansStopper
    <2>7. PendingIsExact'
      BY <1>3, <2>1, <2>2, <2>3, <1>c DEF PendingIsExact
    <2>8. AloneIsEmpty'
      <3>1. ASSUME NEW u \in RubyThreads, ruby'[u] = "alone" PROVE Counted = {}
        <4>1. CASE u = t
          <5>1. Cardinality(Counted) = 0
            BY <3>1, <4>1, <1>3, <1>t, <1>c, <2>3 DEF TypeOK
          <5> QED
            BY <5>1, <1>c, FS_EmptySet
        <4>2. CASE u # t
          BY <3>1, <4>2, <1>3, <1>t DEF AloneIsEmpty, TypeOK
        <4> QED
          BY <4>1, <4>2
      <3> QED
        BY <3>1, <2>1 DEF AloneIsEmpty
    <2>9. SleepersInLoops'
      BY <1>3, <1>t DEF SleepersInLoops, TypeOK
    <2>10. NoLostStopSignal'
      BY <1>3 DEF NoLostStopSignal
    <2>11. NoLostRunSignal'
      BY <1>3 DEF NoLostRunSignal
    <2> QED
      BY <1>t, <2>5, <2>6, <2>7, <2>8, <2>9, <2>10, <2>11
  <1>4. CASE wake_all_waiters(t)
    <2> USE DEF wake_all_waiters
    <2>1. Counted' = Counted
      BY <1>4 DEF Counted
    <2>2. t \in Stoppers
      BY <1>4 DEF Stoppers
    <2>3. Stoppers = {t}
      BY <2>2, StopperUnique
    <2>4. Stoppers' = {}
      BY <1>4, <1>t, <2>3 DEF Stoppers, TypeOK
    <2>5. GilOwner'
      BY <1>4, <1>t DEF GilOwner, TypeOK
    <2>6. FlagMeansStopper'
      BY <1>4, <2>4 DEF FlagMeansStopper
    <2>7. PendingIsExact'
      BY <1>4, <2>1, <2>2, <2>4, <1>c DEF PendingIsExact
    <2>8. AloneIsEmpty'
      BY <2>4 DEF AloneIsEmpty, Stoppers
    <2>9. waiting_to_stop = {}
      BY <1>4, <1>t, <2>3 DEF SleepersInLoops, Stoppers, TypeOK
    <2>10. SleepersInLoops' /\ NoLostStopSignal' /\ NoLostRunSignal'
      BY <1>4, <2>9 DEF SleepersInLoops, NoLostStopSignal, NoLostRunSignal
    <2> QED
      BY <1>t, <2>5, <2>6, <2>7, <2>8, <2>10
  <1>5. CASE reinit(t)
    <2> USE DEF reinit
    <2>1. Counted' = {}
      BY <1>5 DEF Counted
    <2>2. Stoppers' = {}
      BY <1>5, <1>t, RubyThreadsAssumption DEF Stoppers, GilOwner, TypeOK
    <2>3. GilOwner'
      BY <1>5, <1>t, RubyThreadsAssumption DEF GilOwner, TypeOK
    <2>4. PendingIsExact'
      BY <1>5, <2>1, <2>2, FS_EmptySet DEF PendingIsExact
    <2>5. FlagMeansStopper' /\ AloneIsEmpty'
      BY <1>5, <2>1, <2>2 DEF FlagMeansStopper, AloneIsEmpty
    <2>6. SleepersInLoops' /\ NoLostStopSignal' /\ NoLostRunSignal'
      BY <1>5 DEF SleepersInLoops, NoLostStopSignal, NoLostRunSignal
    <2> QED
      BY <1>t, <2>3, <2>4, <2>5, <2>6
  <1> QED
    BY <1>1, <1>2, <1>3, <1>4, <1>5 DEF RubyStep
\* waiting_to_stop_.signal() wakes the collector if it sleeps, as it is alone there.
LEMMA SignalEmpties ==
    ASSUME GilOwner, SleepersInLoops, TypeOK, SignalStop
    PROVE  waiting_to_stop' = {}
  <1>1. \A t, u \in waiting_to_stop : t = u
    BY DEF SleepersInLoops, GilOwner, TypeOK
  <1> QED
    BY <1>1 DEF SignalStop

\* What a step of a helper does to the invariant.
LEMMA HelperStepIInv ==
    ASSUME IInv, NEW h \in Helpers, HelperStep(h)
    PROVE  IInv'
  <1>t. TypeOK /\ TypeOK'
    BY TypeStep DEF IInv, Next
  <1>c. IsFiniteSet(Counted) /\ Cardinality(Counted) \in Nat
    BY CountedFinite
  <1>u. UNCHANGED <<gil, ruby, should_stop>>
    BY DEF HelperStep, become_dependent, become_independent, checkpoint_test, checkpoint, resume
  <1>s. Stoppers' = Stoppers /\ GilOwner' /\ FlagMeansStopper'
    BY <1>u DEF Stoppers, GilOwner, FlagMeansStopper, IInv
  <1>a. should_stop \/ ~(\E t \in RubyThreads : ruby[t] = "alone")
    BY DEF IInv, FlagMeansStopper, Stoppers
  <1> USE DEF IInv
  \* A helper parks itself: from become_independent() or from checkpoint().
  <1>p. ASSUME NEW caller \in Loops, should_stop, h \in Counted, wait_to_run(h, caller)
        PROVE  IInv'
    <2> USE DEF wait_to_run
    <2>1. Counted' = Counted \ {h}
      BY <1>p, <1>t DEF Counted, Loops, TypeOK
    <2>2. PendingIsExact'
      BY <1>p, <1>c, <1>s, <2>1, CountStep DEF PendingIsExact, FlagMeansStopper
    <2>3. AloneIsEmpty'
      BY <1>p, <1>u DEF AloneIsEmpty
    <2>4. waiting_to_stop' = {}
      BY <1>p, <1>t, SignalEmpties
    <2>5. SleepersInLoops'
      BY <1>p, <1>t, <2>4 DEF SleepersInLoops, TypeOK
    <2>6. NoLostStopSignal' /\ NoLostRunSignal'
      BY <1>p, <1>u, <2>4 DEF NoLostStopSignal, NoLostRunSignal
    <2> QED
      BY <1>t, <1>s, <2>2, <2>3, <2>5, <2>6
  \* A helper becomes counted: only while the world runs.
  <1>e. ASSUME ~should_stop, h \notin Counted,
               helper' = [helper EXCEPT ![h] = "dependent"],
               pending_threads' = pending_threads + 1,
               UNCHANGED <<waiting_to_stop, waiting_to_run>>
        PROVE  IInv'
    <2>1. Counted' = Counted \cup {h}
      BY <1>e, <1>t DEF Counted, TypeOK
    <2>2. PendingIsExact'
      BY <1>e, <1>c, <1>s, <2>1, CountStep DEF PendingIsExact, FlagMeansStopper
    <2>3. AloneIsEmpty'
      BY <1>e, <1>a, <1>u DEF AloneIsEmpty
    <2>4. waiting_to_stop = {} /\ waiting_to_run = {}
      BY <1>e DEF NoLostRunSignal, SleepersInLoops, FlagMeansStopper, Stoppers, TypeOK
    <2>5. SleepersInLoops' /\ NoLostStopSignal' /\ NoLostRunSignal'
      BY <1>e, <2>4 DEF SleepersInLoops, NoLostStopSignal, NoLostRunSignal
    <2> QED
      BY <1>t, <1>s, <2>2, <2>3, <2>5
  \* A helper changes its place without being counted differently.
  <1>q. ASSUME Counted' = Counted, pending_threads' = pending_threads,
               waiting_to_stop' \in SUBSET waiting_to_stop, SleepersInLoops', NoLostRunSignal'
        PROVE  IInv'
    <2>1. PendingIsExact' /\ AloneIsEmpty'
      BY <1>q, <1>s, <1>u DEF PendingIsExact, AloneIsEmpty
    <2>2. NoLostStopSignal'
      BY <1>q DEF NoLostStopSignal
    <2> QED
      BY <1>t, <1>s, <1>q, <2>1, <2>2
  <1>1. CASE become_dependent(h)
    <2> USE DEF become_dependent
    <2>1. h \notin Counted
      BY <1>1 DEF Counted
    <2>2. CASE should_stop
      <3>1. Counted' = Counted
        BY <1>1, <1>t, <2>2 DEF Counted, TypeOK
      <3>2. SleepersInLoops' /\ NoLostRunSignal'
        BY <1>1, <1>t, <2>2 DEF SleepersInLoops, NoLostRunSignal, Loops, TypeOK
      <3> QED
        BY <1>1, <1>q, <2>2, <3>1, <3>2
    <2>3. CASE ~should_stop
      BY <1>1, <1>e, <2>1, <2>3
    <2> QED
      BY <2>2, <2>3
  <1>2. CASE become_independent(h)
    <2>1. h \in Counted
      BY <1>2 DEF become_independent, Counted
    <2>2. CASE should_stop
      BY <1>2, <1>p, <2>1, <2>2 DEF become_independent, Loops
    <2>3. CASE ~should_stop
      <3> USE DEF become_independent
      <3>1. Counted' = Counted \ {h}
        BY <1>2, <1>t, <2>3 DEF Counted, TypeOK
      <3>2. PendingIsExact'
        BY <1>2, <1>c, <1>s, <2>1, <2>3, <3>1, CountStep DEF PendingIsExact, FlagMeansStopper
      <3>3. AloneIsEmpty'
        BY <1>a, <1>u, <2>3 DEF AloneIsEmpty
      <3>4. waiting_to_stop = {} /\ waiting_to_run = {}
        BY <2>3 DEF NoLostRunSignal, SleepersInLoops, FlagMeansStopper, Stoppers, TypeOK
      <3>5. SleepersInLoops' /\ NoLostStopSignal' /\ NoLostRunSignal'
        BY <1>2, <2>3, <3>4 DEF SleepersInLoops, NoLostStopSignal, NoLostRunSignal
      <3> QED
        BY <1>t, <1>s, <3>2, <3>3, <3>5
    <2> QED
      BY <2>2, <2>3
  <1>3. CASE checkpoint_test(h)
    <2> USE DEF checkpoint_test
    <2>1. Counted' = Counted
      BY <1>3, <1>t DEF Counted, TypeOK
    <2>2. SleepersInLoops' /\ NoLostRunSignal'
      BY <1>3, <1>t DEF SleepersInLoops, NoLostRunSignal, Loops, TypeOK
    <2> QED
      BY <1>3, <1>q, <2>1, <2>2
  <1>4. CASE checkpoint(h)
    <2>1. h \in Counted
      BY <1>4 DEF checkpoint, Counted
    <2>2. CASE should_stop
      BY <1>4, <1>p, <2>1, <2>2 DEF checkpoint, Loops
    <2>3. CASE ~should_stop
      <3> USE DEF checkpoint
      <3>1. Counted' = Counted
        BY <1>4, <1>t, <2>3 DEF Counted, TypeOK
      <3>2. waiting_to_stop' = {}
        BY <1>4, <1>t, <2>3, SignalEmpties
      <3>3. waiting_to_run = {}
        BY <2>3 DEF NoLostRunSignal
      <3>4. SleepersInLoops' /\ NoLostRunSignal'
        BY <1>4, <2>3, <3>2, <3>3 DEF SleepersInLoops, NoLostRunSignal
      <3> QED
        BY <1>4, <1>q, <2>3, <3>1, <3>2, <3>4
    <2> QED
      BY <2>2, <2>3
  <1>5. CASE resume(h)
    <2> USE DEF resume
    <2>1. h \notin Counted
      BY <1>5 DEF Counted, Loops
    <2>2. CASE should_stop
      <3>1. Counted' = Counted
        BY <1>5, <2>2 DEF Counted
      <3>2. SleepersInLoops' /\ NoLostRunSignal'
        BY <1>5, <1>t, <2>2 DEF SleepersInLoops, NoLostRunSignal, TypeOK
      <3> QED
        BY <1>5, <1>q, <2>2, <3>1, <3>2
    <2>3. CASE ~should_stop /\ helper[h] = "in_become_independent"
      <3>1. Counted' = Counted
        BY <1>5, <1>t, <2>3 DEF Counted, TypeOK
      <3>2. waiting_to_run = {}
        BY <2>3 DEF NoLostRunSignal
      <3>3. SleepersInLoops' /\ NoLostRunSignal'
        BY <1>5, <2>3, <3>2 DEF SleepersInLoops, NoLostRunSignal
      <3> QED
        BY <1>5, <1>q, <2>3, <3>1, <3>3
    <2>4. CASE ~should_stop /\ helper[h] # "in_become_independent"
      BY <1>5, <1>e, <2>1, <2>4
    <2> QED
      BY <2>2, <2>3, <2>4
  <1> QED
    BY <1>1, <1>2, <1>3, <1>4, <1>5 DEF HelperStep

\* A spurious wakeup only takes sleepers out of their wait sets.
LEMMA SpuriousIInv ==
    ASSUME IInv, spurious_wakeup
    PROVE  IInv'
  <1> USE DEF IInv, spurious_wakeup
  <1>1. TypeOK'
    BY TypeStep DEF Next
  <1>2. Counted' = Counted /\ Stoppers' = Stoppers
    BY DEF Counted, Stoppers
  <1>3. GilOwner' /\ FlagMeansStopper' /\ AloneIsEmpty' /\ PendingIsExact'
    BY <1>2 DEF GilOwner, FlagMeansStopper, AloneIsEmpty, PendingIsExact
  <1>4. SleepersInLoops' /\ NoLostStopSignal' /\ NoLostRunSignal'
    BY DEF SleepersInLoops, NoLostStopSignal, NoLostRunSignal
  <1> QED
    BY <1>1, <1>3, <1>4

\* IInv is inductive.
LEMMA NextIInv == IInv /\ [Next]_vars => IInv'
  <1> SUFFICES ASSUME IInv, [Next]_vars PROVE IInv'
    OBVIOUS
  <1>1. CASE UNCHANGED vars
    BY <1>1
    DEF vars, IInv, TypeOK, GilOwner, FlagMeansStopper, SleepersInLoops, AloneIsEmpty,
        PendingIsExact, NoLostStopSignal, NoLostRunSignal, Counted, Stoppers
  <1> QED
    BY <1>1, RubyStepIInv, HelperStepIInv, SpuriousIInv DEF Next

\* The inductive invariant holds in every reachable state.
THEOREM Invariance == Spec => []IInv
  BY InitIInv, NextIInv, PTL DEF Spec

-----------------------------------------------------------------------------
(* The properties *)

\* While a thread is between stop_the_world() and restart_world(), no helper is
\* using managed memory and no other Ruby thread owns the GIL.
THEOREM CollectorIsAlone == Spec => []CollectorAlone
  <1>1. IInv => CollectorAlone
    BY DEF IInv, AloneIsEmpty, GilOwner, CollectorAlone
  <1> QED
    BY <1>1, Invariance, PTL

\* pending_threads_ is the number of dependent clients, in every reachable state.
THEOREM PendingCountsClients == Spec => []PendingIsExact
  <1>1. IInv => PendingIsExact
    BY DEF IInv
  <1> QED
    BY <1>1, Invariance, PTL

\* Neither condition variable loses a wakeup that somebody waits for.
THEOREM NoLostWakeup == Spec => [](NoLostStopSignal /\ NoLostRunSignal)
  <1>1. IInv => NoLostStopSignal /\ NoLostRunSignal
    BY DEF IInv
  <1> QED
    BY <1>1, Invariance, PTL

\* No step lets a helper into managed memory once a stop is requested.
THEOREM GateHolds == Spec => NoEntryWhileStopping
  <1>1. ASSUME TypeOK, [Next]_vars
        PROVE  [\A h \in Helpers : should_stop /\ h \notin Counted => h \notin Counted']_vars
    <2>1. SUFFICES ASSUME NEW h \in Helpers, should_stop, h \notin Counted, Next
                   PROVE  h \notin Counted'
      BY <1>1
    <2>2. ASSUME NEW t \in RubyThreads, RubyStep(t) PROVE h \notin Counted'
      <3>1. CASE reinit(t)
        BY <3>1 DEF reinit, Counted
      <3>2. CASE UNCHANGED helper
        BY <2>1, <3>2 DEF Counted
      <3> QED
        BY <2>2, <3>1, <3>2
        DEF RubyStep, Lock, Unlock, wait_til_alone, recheck_alone, wake_all_waiters
    <2>3. ASSUME NEW g \in Helpers, HelperStep(g) PROVE h \notin Counted'
      <3>1. CASE g # h
        <4>1. helper'[h] = helper[h]
          BY <1>1, <2>1, <2>3, <3>1
          DEF TypeOK, HelperStep, become_dependent, become_independent, checkpoint_test,
              checkpoint, resume, wait_to_run
        <4> QED
          BY <2>1, <4>1 DEF Counted
      <3>2. CASE g = h
        <4>1. helper[h] \notin {"dependent", "checkpoint"}
          BY <2>1 DEF Counted
        <4>2. helper'[h] \notin {"dependent", "checkpoint"}
          BY <1>1, <2>1, <2>3, <3>2, <4>1
          DEF TypeOK, HelperStep, become_dependent, become_independent, checkpoint_test,
              checkpoint, resume, wait_to_run, Loops
        <4> QED
          BY <4>2 DEF Counted
      <3> QED
        BY <3>1, <3>2
    <2>4. CASE spurious_wakeup
      BY <2>1, <2>4 DEF spurious_wakeup, Counted
    <2> QED
      BY <2>1, <2>2, <2>3, <2>4 DEF Next
  <1> QED
    BY <1>1, TypeCorrect, PTL DEF Spec, NoEntryWhileStopping

-----------------------------------------------------------------------------
(* Refinement *)

\* The abstract variable world, as the refinement mapping computes it.
AWorld ==
    IF ~should_stop THEN "running"
    ELSE IF \E t \in RubyThreads : ruby[t] = "alone" THEN "stopped"
    ELSE "stopping"

\* Every step of a Ruby thread is a step of StopTheWorld or leaves it alone.
LEMMA RubyRefines ==
    ASSUME IInv, IInv', NEW t \in RubyThreads, RubyStep(t)
    PROVE  [Abstract!Next]_(Abstract!vars)
  <1> USE DEF IInv
  <1>w. /\ Abstract!vars = <<AWorld, Counted>>
        /\ Abstract!vars' = <<AWorld', Counted'>>
    BY DEF Abstract!vars, AWorld
  <1>1. CASE Lock(t) \/ Unlock(t)
    <2>1. AWorld' = AWorld /\ Counted' = Counted
      BY <1>1 DEF Lock, Unlock, AWorld, Counted, TypeOK
    <2> QED
      BY <1>w, <2>1
  <1>2. CASE wait_til_alone(t)
    <2> USE DEF wait_til_alone, AloneOrSleep
    <2>1. Counted' = Counted
      BY <1>2 DEF Counted
    <2>2. ~should_stop /\ Stoppers = {}
      BY <1>2 DEF GilOwner, FlagMeansStopper, Stoppers, TypeOK
    <2>3. pending_threads' = Cardinality(Counted)
      BY <1>2, <2>2, CountedFinite DEF PendingIsExact
    <2>4. Counted = {} <=> ~(pending_threads' > 0)
      BY <2>3, CountedFinite, FS_EmptySet
    <2>5. AWorld = "running" /\ AWorld' = IF Counted = {} THEN "stopped" ELSE "stopping"
      BY <1>2, <2>2, <2>4 DEF AWorld, Stoppers, TypeOK
    <2>6. Abstract!Stop
      BY <2>1, <2>5 DEF Abstract!Stop, AWorld
    <2> QED
      BY <2>6 DEF Abstract!Next
  <1>3. CASE recheck_alone(t)
    <2> USE DEF recheck_alone, AloneOrSleep
    <2>1. Counted' = Counted
      BY <1>3 DEF Counted
    <2>2. t \in Stoppers
      BY <1>3 DEF Stoppers
    <2>3. should_stop /\ should_stop' /\ Stoppers = {t}
      BY <1>3, <2>2, StopperUnique DEF FlagMeansStopper
    <2>4. AWorld = "stopping"
      BY <1>3, <2>3 DEF AWorld, Stoppers
    <2>5. CASE pending_threads > 0
      <3>1. AWorld' = "stopping"
        BY <1>3, <2>3, <2>5 DEF AWorld, Stoppers, TypeOK
      <3> QED
        BY <1>w, <2>1, <2>4, <3>1
    <2>6. CASE ~(pending_threads > 0)
      <3>1. pending_threads = Cardinality(Counted)
        BY <2>2, CountedFinite DEF PendingIsExact
      <3>2. Counted = {}
        BY <2>6, <3>1, CountedFinite, FS_EmptySet
      <3>3. AWorld' = "stopped"
        BY <1>3, <2>3, <2>6 DEF AWorld, TypeOK
      <3>4. Abstract!Alone
        BY <2>1, <2>4, <3>2, <3>3 DEF Abstract!Alone, AWorld
      <3> QED
        BY <3>4 DEF Abstract!Next
    <2> QED
      BY <2>5, <2>6
  <1>4. CASE wake_all_waiters(t)
    <2> USE DEF wake_all_waiters
    <2>1. Counted' = Counted
      BY <1>4 DEF Counted
    <2>2. should_stop
      BY <1>4 DEF FlagMeansStopper, Stoppers
    <2>3. AWorld = "stopped" /\ AWorld' = "running"
      BY <1>4, <2>2 DEF AWorld
    <2>4. Abstract!Restart
      BY <2>1, <2>3 DEF Abstract!Restart, AWorld
    <2> QED
      BY <2>4 DEF Abstract!Next
  <1>5. CASE reinit(t)
    <2> USE DEF reinit
    <2>1. Counted' = {}
      BY <1>5 DEF Counted
    <2>2. ~should_stop
      BY <1>5, RubyThreadsAssumption DEF FlagMeansStopper, Stoppers, GilOwner
    <2>3. AWorld = "running" /\ AWorld' = "running"
      BY <1>5, <2>2 DEF AWorld
    <2>4. Abstract!Fork
      BY <2>1, <2>3 DEF Abstract!Fork, AWorld
    <2> QED
      BY <2>4 DEF Abstract!Next
  <1> QED
    BY <1>1, <1>2, <1>3, <1>4, <1>5 DEF RubyStep

\* So is every step of a helper.
LEMMA HelperRefines ==
    ASSUME IInv, NEW h \in Helpers, HelperStep(h)
    PROVE  [Abstract!Next]_(Abstract!vars)
  <1> USE DEF IInv
  <1>w. /\ Abstract!vars = <<AWorld, Counted>>
        /\ Abstract!vars' = <<AWorld', Counted'>>
    BY DEF Abstract!vars, AWorld
  <1>u. UNCHANGED <<ruby, should_stop>> /\ AWorld' = AWorld
    BY DEF HelperStep, become_dependent, become_independent, checkpoint_test, checkpoint,
           resume, AWorld
  <1>e. ASSUME ~should_stop, h \notin Counted, helper' = [helper EXCEPT ![h] = "dependent"]
        PROVE  Abstract!Next
    <2>1. Counted' = Counted \cup {h}
      BY <1>e DEF Counted, TypeOK
    <2>2. AWorld = "running"
      BY <1>e DEF AWorld
    <2>3. Abstract!Enter(h)
      BY <1>e, <1>u, <2>1, <2>2 DEF Abstract!Enter, AWorld
    <2> QED
      BY <2>3 DEF Abstract!Next
  <1>l. ASSUME h \in Counted, NEW place \in HelperStates \ {"dependent", "checkpoint"},
               helper' = [helper EXCEPT ![h] = place]
        PROVE  Abstract!Next
    <2>1. Counted' = Counted \ {h}
      BY <1>l DEF Counted, TypeOK
    <2>2. Abstract!Leave(h)
      BY <1>l, <1>u, <2>1 DEF Abstract!Leave, AWorld
    <2> QED
      BY <2>2 DEF Abstract!Next
  <1>q. ASSUME Counted' = Counted PROVE UNCHANGED Abstract!vars
    BY <1>q, <1>u, <1>w
  <1>1. CASE become_dependent(h)
    <2>1. h \notin Counted
      BY <1>1 DEF become_dependent, Counted
    <2>2. CASE should_stop
      BY <1>1, <1>q, <2>2 DEF become_dependent, Counted, TypeOK
    <2>3. CASE ~should_stop
      BY <1>1, <1>e, <2>1, <2>3 DEF become_dependent
    <2> QED
      BY <2>2, <2>3
  <1>2. CASE become_independent(h)
    <2>1. h \in Counted
      BY <1>2 DEF become_independent, Counted
    <2> QED
      BY <1>2, <1>l, <2>1 DEF become_independent, wait_to_run, HelperStates
  <1>3. CASE checkpoint_test(h)
    BY <1>3, <1>q DEF checkpoint_test, Counted, TypeOK
  <1>4. CASE checkpoint(h)
    <2>1. h \in Counted
      BY <1>4 DEF checkpoint, Counted
    <2>2. CASE should_stop
      BY <1>4, <1>l, <2>1, <2>2 DEF checkpoint, wait_to_run, HelperStates
    <2>3. CASE ~should_stop
      BY <1>4, <1>q, <2>3 DEF checkpoint, Counted, TypeOK
    <2> QED
      BY <2>2, <2>3
  <1>5. CASE resume(h)
    <2>1. h \notin Counted
      BY <1>5 DEF resume, Counted, Loops
    <2>2. CASE should_stop \/ helper[h] = "in_become_independent"
      BY <1>5, <1>q, <2>2 DEF resume, Counted, TypeOK
    <2>3. CASE ~should_stop /\ helper[h] # "in_become_independent"
      BY <1>5, <1>e, <2>1, <2>3 DEF resume
    <2> QED
      BY <2>2, <2>3
  <1> QED
    BY <1>1, <1>2, <1>3, <1>4, <1>5 DEF HelperStep

\* The counter, the flag, the mutex and the two condition variables of WorldState
\* implement StopTheWorld: the collector is alone exactly when it may be.
THEOREM Refinement == Spec => ImplementsStopTheWorld
  <1>1. Init => Abstract!Init
    BY DEF Init, Abstract!Init, Counted
  <1>2. ASSUME IInv, IInv', [Next]_vars PROVE [Abstract!Next]_(Abstract!vars)
    <2>1. CASE UNCHANGED vars
      BY <2>1 DEF vars, Abstract!vars, Counted
    <2>2. CASE spurious_wakeup
      BY <2>2 DEF spurious_wakeup, Abstract!vars, Counted
    <2> QED
      BY <1>2, <2>1, <2>2, RubyRefines, HelperRefines DEF Next
  <1> QED
    BY <1>1, <1>2, Invariance, PTL DEF Spec, ImplementsStopTheWorld, Abstract!Spec
=============================================================================
