---------------------- MODULE BackgroundCompilerProofs ----------------------
(* Proofs about BackgroundCompiler, for any number of Ruby threads and any    *)
(* bounds: the collector is alone with managed memory, requests are compiled  *)
(* once and in order, and the handshake of pause() with the compiler loses no *)
(* signal and takes no stale answer, through forks, collections, shutdowns    *)
(* and failed execs.                                                          *)
EXTENDS BackgroundCompiler, SequenceTheorems, TLAPS

-----------------------------------------------------------------------------
(* The inductive invariant.                                                   *)

\* States in which a Ruby thread has the GIL.
Holding == {"running", "collecting", "pausing", "paused_jit", "joining", "halted"}
GilHeld == \A t \in RubyThreads : ruby[t] \in Holding => gil = t

\* The compiler's announcements to the collector, its request and its state agree with
\* where it is.
Placed ==
  /\ jit \in {"accessing", "update"} => inside = {Compiler}
  /\ world = "stopped" => inside = {}
  /\ current # 0 <=> jit \in {"compile", "accessing", "update", "parked_compile"}
  /\ jit = "idle" => state = "cIdle"
  /\ jit = "waiting" => state = "cPaused"
  /\ jit = "exited" => stop
  /\ paused => jit \in {"waiting", "gone"}
  /\ jit = "waiting" => paused

\* A child without its compiler has only the thread that forked; one that was forked
\* with the GIL taken never gets any further.
Childhood ==
  /\ jit = "gone" => \A t \in RubyThreads : ruby[t] \in {"child", "gone"}
  /\ \A t \in RubyThreads : ruby[t] = "child" => jit = "gone"
  /\ \A t, u \in RubyThreads : ruby[t] = "child" /\ ruby[u] = "child" => t = u
  /\ child = "locked" => jit = "gone" /\ gil # NoThread

\* Who is in pause() has asked for the pause, of a compiler that was not idle, and nobody
\* else waits for it.
Pausing ==
  /\ \A t \in RubyThreads : ruby[t] = "pausing" => pause /\ jit # "idle"
  /\ \A t \in pause_wait : ruby[t] = "pausing"

\* Who has stopped the compiler keeps the GIL until the process ends or exec fails.
Stopping ==
  stop /\ count.execs = 0 => child = "locked" \/ \E t \in RubyThreads : ruby[t] \in {"joining", "halted"}

ControlInv == TypeOK /\ GilHeld /\ Placed /\ Childhood /\ Pausing /\ Stopping /\ NoLostWork /\ NoLostPauseSignal

\* A count that has room is counted up within its bound.
LEMMA TallyFacts ==
  ASSUME count \in Bounded
  PROVE  /\ \A k \in Nat : count.requests = k => k <= MaxRequests
         /\ Tally("requests") /\ count.requests < MaxRequests =>
              count' \in Bounded /\ count'.requests = count.requests + 1 /\ count'.execs = count.execs
         /\ Tally("forks") /\ count.forks < MaxForks =>
              count' \in Bounded /\ count'.requests = count.requests /\ count'.execs = count.execs
         /\ Tally("collections") /\ count.collections < MaxCollections =>
              count' \in Bounded /\ count'.requests = count.requests /\ count'.execs = count.execs
         /\ Tally("execs") /\ count.execs < MaxFailedExecs =>
              count' \in Bounded /\ count'.requests = count.requests /\ count'.execs = count.execs + 1
  BY BoundsAssumption DEF Tally, Bounded

\* The sequences of requests stay typed: a queue that lost its head, a list with one more.
LEMMA HeadTailTyped ==
  ASSUME NEW q \in Seq(1..MaxRequests), q # << >>
  PROVE  Head(q) \in 1..MaxRequests /\ Tail(q) \in Seq(1..MaxRequests)
  BY HeadTailProperties

LEMMA AppendTyped ==
  ASSUME NEW q \in Seq(1..MaxRequests), NEW i \in 1..MaxRequests
  PROVE  Append(q, i) \in Seq(1..MaxRequests)
  BY AppendProperties

\* 0, for no request, is in range.
LEMMA NoRequest == 0 \in 0..MaxRequests
  BY BoundsAssumption

LEMMA InitControl == Init => ControlInv
  <1> SUFFICES ASSUME Init PROVE ControlInv
    OBVIOUS
  <1>1. TypeOK
    <2>1. count \in Bounded
      BY BoundsAssumption DEF Init, Bounded
    <2>2. requests \in Seq(1..MaxRequests) /\ done \in Seq(1..MaxRequests)
      BY EmptySeq DEF Init
    <2>3. world = "running" /\ inside = {}
      BY DEF Init, World!Init
    <2>4. current \in 0..MaxRequests
      BY NoRequest DEF Init
    <2> QED
      BY <2>1, <2>2, <2>3, <2>4 DEF Init, TypeOK, RubyStates, JitStates, States
  <1> QED
    BY <1>1, NoThreadAssumption DEF Init, ControlInv, GilHeld, Holding, Placed, Childhood, Pausing, Stopping,
       NoLostWork, NoLostPauseSignal, World!Init

\* A step of the compiler past the pause block leaves the queue and the request typed.
LEMMA WorkTyped ==
  ASSUME TypeOK, NEW s \in States, StopOrWork(s)
  PROVE  /\ requests' \in Seq(1..MaxRequests) /\ current' \in 0..MaxRequests
         /\ jit' \in JitStates /\ state' \in States /\ asleep' \in BOOLEAN
  <1>1. CASE Exit /\ state' = s
    BY <1>1 DEF Exit, TypeOK, JitStates
  <1>2. CASE Sleep
    BY <1>2 DEF Sleep, TypeOK, JitStates, States
  <1>3. CASE Shift
    <2>1. current' \in 1..MaxRequests /\ requests' \in Seq(1..MaxRequests)
      BY <1>3, HeadTailTyped DEF Shift, TypeOK
    <2>2. jit' = "compile" /\ state' = "cRunning" /\ asleep' = asleep
      BY <1>3 DEF Shift
    <2> QED
      BY <2>1, <2>2, BoundsAssumption DEF TypeOK, JitStates, States
  <1> QED
    BY <1>1, <1>2, <1>3 DEF StopOrWork

LEMMA TypeStep == TypeOK /\ Placed /\ [Next]_vars => TypeOK'
  <1> SUFFICES ASSUME TypeOK, Placed, [Next]_vars PROVE TypeOK'
    OBVIOUS
  <1> USE DEF RubyStates, Goto, compilerVars, historyVars
  <1>1. ASSUME UNCHANGED vars PROVE TypeOK'
    BY <1>1 DEF vars, TypeOK
  <1>2. ASSUME NEW t \in RubyThreads, Lock(t) PROVE TypeOK'
    BY <1>2 DEF Lock, TypeOK
  <1>3. ASSUME NEW t \in RubyThreads, Unlock(t) PROVE TypeOK'
    BY <1>3 DEF Unlock, TypeOK
  <1>4. ASSUME NEW t \in RubyThreads, collect(t) PROVE TypeOK'
    <2>1. count' \in Bounded
      BY <1>4, TallyFacts DEF collect, TypeOK
    <2>2. world' \in {"running", "stopping", "stopped"} /\ inside' = inside
      BY <1>4 DEF collect, World!Stop
    <2> QED
      BY <1>4, <2>1, <2>2 DEF collect, TypeOK
  <1>5. ASSUME NEW t \in RubyThreads, collect_alone(t) PROVE TypeOK'
    BY <1>5 DEF collect_alone, World!Alone, TypeOK
  <1>6. ASSUME NEW t \in RubyThreads, collect_end(t) PROVE TypeOK'
    BY <1>6 DEF collect_end, World!Restart, TypeOK
  <1>7. ASSUME NEW t \in RubyThreads, add(t) PROVE TypeOK'
    <2>1. count' \in Bounded
      BY <1>7, TallyFacts DEF add, TypeOK
    <2>2. count.requests + 1 \in 1..MaxRequests
      BY <1>7, BoundsAssumption DEF add, TypeOK, Bounded
    <2>3. requests' \in Seq(1..MaxRequests)
      BY <1>7, <2>2, AppendTyped DEF add, TypeOK
    <2>4. UNCHANGED <<gil, ruby, jit, current, pause_wait, state, stop, pause, paused, world, inside, done, child>>
          /\ asleep' = FALSE
      BY <1>7 DEF add
    <2> QED
      BY <2>1, <2>3, <2>4 DEF TypeOK
  <1>8. ASSUME NEW t \in RubyThreads, pause_idle(t) PROVE TypeOK'
    <2>1. count' \in Bounded
      BY <1>8, TallyFacts DEF pause_idle, TypeOK
    <2> QED
      BY <1>8, <2>1 DEF pause_idle, TypeOK
  <1>9. ASSUME NEW t \in RubyThreads, pause_busy(t) PROVE TypeOK'
    <2>1. count' \in Bounded
      BY <1>9, TallyFacts DEF pause_busy, TypeOK
    <2> QED
      BY <1>9, <2>1 DEF pause_busy, PausedOrSleep, TypeOK
  <1>10. ASSUME NEW t \in RubyThreads, recheck_paused(t) PROVE TypeOK'
    BY <1>10 DEF recheck_paused, PausedOrSleep, TypeOK
  <1>11. ASSUME NEW t \in RubyThreads, fork_unlock(t) \/ fork_parent(t) PROVE TypeOK'
    BY <1>11 DEF fork_unlock, fork_parent, TypeOK
  <1>12. ASSUME NEW t \in RubyThreads, fork_child(t) PROVE TypeOK'
    BY <1>12, NoRequest DEF fork_child, TypeOK, JitStates
  <1>13. ASSUME NEW t \in RubyThreads, fork_parent_relock(t) PROVE TypeOK'
    BY <1>13 DEF fork_parent_relock, TypeOK
  <1>14. ASSUME NEW t \in RubyThreads, fork_child_relock(t) PROVE TypeOK'
    BY <1>14 DEF fork_child_relock, TypeOK, JitStates, States
  <1>15. ASSUME NEW t \in RubyThreads, shutdown(t) PROVE TypeOK'
    BY <1>15 DEF shutdown, TypeOK
  <1>16. ASSUME NEW t \in RubyThreads, halt(t) PROVE TypeOK'
    BY <1>16 DEF halt, World!Stop, TypeOK
  <1>17. ASSUME NEW t \in RubyThreads, exec_fails(t) PROVE TypeOK'
    <2>1. count' \in Bounded
      BY <1>17, TallyFacts DEF exec_fails, TypeOK
    <2> QED
      BY <1>17, <2>1 DEF exec_fails, TypeOK
  <1>18. ASSUME perform_pause PROVE TypeOK'
    BY <1>18 DEF perform_pause, TypeOK, JitStates, States
  <1>19. ASSUME perform_top \/ perform_idle PROVE TypeOK'
    <2>1. StopOrWork(state) /\ UNCHANGED <<gil, ruby, pause_wait, stop, pause, paused, world, inside, count, done, child>>
      BY <1>19 DEF perform_top, perform_idle
    <2>2. /\ requests' \in Seq(1..MaxRequests) /\ current' \in 0..MaxRequests
          /\ jit' \in JitStates /\ state' \in States /\ asleep' \in BOOLEAN
      BY <2>1, WorkTyped DEF TypeOK
    <2> QED
      BY <2>1, <2>2 DEF TypeOK
  <1>20. ASSUME perform_waiting PROVE TypeOK'
    <2>1. UNCHANGED <<gil, ruby, pause_wait, stop, pause, world, inside, count, done, child>>
      BY <1>20 DEF perform_waiting
    <2>2. CASE pause /\ asleep' = TRUE /\ UNCHANGED <<jit, current, requests, state, paused>>
      BY <2>1, <2>2 DEF TypeOK
    <2>3. CASE paused' = FALSE /\ StopOrWork("cUnknown")
      <3>1. /\ requests' \in Seq(1..MaxRequests) /\ current' \in 0..MaxRequests
            /\ jit' \in JitStates /\ state' \in States /\ asleep' \in BOOLEAN
        BY <2>3, WorkTyped DEF States
      <3> QED
        BY <2>1, <2>3, <3>1 DEF TypeOK
    <2> QED
      BY <1>20, <2>2, <2>3 DEF perform_waiting
  <1>21. ASSUME gc_dependent("compile", "accessing") \/ gc_dependent("compile", "update") PROVE TypeOK'
    BY <1>21 DEF gc_dependent, World!Enter, TypeOK, JitStates
  <1>22. ASSUME end_access PROVE TypeOK'
    BY <1>22 DEF end_access, gc_independent, World!Leave, TypeOK, JitStates
  <1>23. ASSUME end_update PROVE TypeOK'
    <2>1. current \in 1..MaxRequests
      BY <1>23, BoundsAssumption DEF end_update, Placed, TypeOK
    <2>2. done' \in Seq(1..MaxRequests)
      BY <1>23, <2>1, AppendTyped DEF end_update, TypeOK
    <2>3. /\ UNCHANGED <<gil, ruby, asleep, pause_wait, requests, state, stop, pause, paused, count, child, world>>
          /\ inside' = inside \ {Compiler} /\ jit' \in {"top", "parked_top"} /\ current' = 0
      BY <1>23 DEF end_update, gc_independent, World!Leave
    <2> QED
      BY <2>2, <2>3, BoundsAssumption DEF TypeOK, JitStates
  <1>24. ASSUME unpark PROVE TypeOK'
    BY <1>24 DEF unpark, TypeOK, JitStates
  <1>25. ASSUME spurious_wakeup PROVE TypeOK'
    BY <1>25 DEF spurious_wakeup, TypeOK
  <1> QED
    BY <1>1, <1>2, <1>3, <1>4, <1>5, <1>6, <1>7, <1>8, <1>9, <1>10, <1>11, <1>12, <1>13, <1>14, <1>15, <1>16,
       <1>17, <1>18, <1>19, <1>20, <1>21, <1>22, <1>23, <1>24, <1>25
    DEF Next, Begin, Continue, Relock, JitStep

-----------------------------------------------------------------------------
(* Preservation of the control part, action by action.                        *)

LEMMA ControlStep == ControlInv /\ [Next]_vars => ControlInv'
  <1> SUFFICES ASSUME ControlInv, [Next]_vars
               PROVE  (GilHeld /\ Placed /\ Childhood /\ Pausing /\ Stopping /\ NoLostWork /\ NoLostPauseSignal)'
    BY TypeStep DEF ControlInv
  <1> DEFINE Goal == (GilHeld /\ Placed /\ Childhood /\ Pausing /\ Stopping /\ NoLostWork /\ NoLostPauseSignal)'
  <1> USE NoThreadAssumption
      DEF Goto, compilerVars, historyVars, ControlInv, TypeOK, GilHeld, Holding, Placed, Childhood, Pausing,
          Stopping, NoLostWork, NoLostPauseSignal
  <1>0. count.execs \in Nat
    BY BoundsAssumption DEF Bounded
  <1>w. Shift => Head(requests) # 0
    BY HeadTailTyped DEF Shift
  <1>1. ASSUME UNCHANGED vars PROVE Goal
    BY <1>1 DEF vars
  <1>2. ASSUME NEW t \in RubyThreads, Lock(t) PROVE Goal
    BY <1>2 DEF Lock
  <1>3. ASSUME NEW t \in RubyThreads, Unlock(t) PROVE Goal
    BY <1>3 DEF Unlock
  <1>4. ASSUME NEW t \in RubyThreads, collect(t) PROVE Goal
    BY <1>4, TallyFacts DEF collect, World!Stop
  <1>5. ASSUME NEW t \in RubyThreads, collect_alone(t) PROVE Goal
    BY <1>5 DEF collect_alone, World!Alone
  <1>6. ASSUME NEW t \in RubyThreads, collect_end(t) PROVE Goal
    BY <1>6 DEF collect_end, World!Restart
  <1>7. ASSUME NEW t \in RubyThreads, add(t) PROVE Goal
    BY <1>7, TallyFacts DEF add
  <1>8. ASSUME NEW t \in RubyThreads, pause_idle(t) PROVE Goal
    BY <1>8, TallyFacts DEF pause_idle
  <1>9. ASSUME NEW t \in RubyThreads, pause_busy(t) PROVE Goal
    BY <1>9, TallyFacts DEF pause_busy, PausedOrSleep
  <1>10. ASSUME NEW t \in RubyThreads, recheck_paused(t) PROVE Goal
    BY <1>10 DEF recheck_paused, PausedOrSleep
  <1>11. ASSUME NEW t \in RubyThreads, fork_unlock(t) PROVE Goal
    BY <1>11 DEF fork_unlock
  <1>12. ASSUME NEW t \in RubyThreads, fork_parent(t) PROVE Goal
    BY <1>12 DEF fork_parent
  <1>13. ASSUME NEW t \in RubyThreads, fork_child(t) PROVE Goal
    BY <1>13 DEF fork_child
  <1>14. ASSUME NEW t \in RubyThreads, fork_parent_relock(t) PROVE Goal
    BY <1>14 DEF fork_parent_relock
  <1>15. ASSUME NEW t \in RubyThreads, fork_child_relock(t) PROVE Goal
    <2>1. jit = "gone" /\ ~asleep /\ current = 0 /\ pause_wait = {} /\ child # "locked"
      BY <1>15 DEF fork_child_relock
    <2>2. \A u \in RubyThreads : u # t => ruby[u] \in {"child", "gone"} /\ ruby'[u] = ruby[u]
      BY <1>15, <2>1 DEF fork_child_relock
    <2>3. \A u \in RubyThreads : ruby[u] = "child" => u = t
      BY <1>15 DEF fork_child_relock
    <2> QED
      BY <1>15, <2>1, <2>2, <2>3 DEF fork_child_relock
  <1>16. ASSUME NEW t \in RubyThreads, shutdown(t) PROVE Goal
    BY <1>16 DEF shutdown
  <1>17. ASSUME NEW t \in RubyThreads, halt(t) PROVE Goal
    BY <1>17 DEF halt, World!Stop
  <1>18. ASSUME NEW t \in RubyThreads, exec_fails(t) PROVE Goal
    BY <1>0, <1>18, TallyFacts DEF exec_fails
  <1>19. ASSUME perform_pause PROVE Goal
    BY <1>19 DEF perform_pause
  <1>20. ASSUME perform_top PROVE Goal
    <2>1. /\ jit = "top" /\ ~pause /\ UNCHANGED <<gil, ruby, pause_wait, stop, pause, paused, world, inside>>
          /\ UNCHANGED <<count, done, child>> /\ current = 0 /\ ~paused /\ ~asleep
      BY <1>20 DEF perform_top
    <2>2. CASE stop /\ Exit /\ state' = state
      BY <2>1, <2>2 DEF Exit
    <2>3. CASE ~stop /\ Sleep
      BY <2>1, <2>3 DEF Sleep
    <2>4. CASE ~stop /\ Shift
      BY <2>1, <2>4, <1>w DEF Shift
    <2> QED
      BY <1>20, <2>2, <2>3, <2>4 DEF perform_top, StopOrWork
  <1>21. ASSUME perform_waiting PROVE Goal
    <2>1. /\ jit = "waiting" /\ ~asleep /\ UNCHANGED <<gil, ruby, pause_wait, stop, pause, world, inside>>
          /\ UNCHANGED <<count, done, child>> /\ current = 0
      BY <1>21 DEF perform_waiting
    <2>2. CASE pause /\ asleep' = TRUE /\ UNCHANGED <<jit, current, requests, state, paused>>
      BY <2>1, <2>2
    <2>3. CASE ~pause /\ paused' = FALSE /\ StopOrWork("cUnknown")
      <3>1. pause_wait = {} /\ \A t \in RubyThreads : ruby[t] # "pausing"
        BY <2>3
      <3>2. CASE stop /\ Exit
        BY <2>1, <2>3, <3>1, <3>2 DEF Exit
      <3>3. CASE ~stop /\ Sleep
        BY <2>1, <2>3, <3>1, <3>3 DEF Sleep
      <3>4. CASE ~stop /\ Shift
        BY <2>1, <2>3, <3>1, <3>4, <1>w DEF Shift
      <3> QED
        BY <2>3, <3>2, <3>3, <3>4 DEF StopOrWork
    <2> QED
      BY <1>21, <2>2, <2>3 DEF perform_waiting
  <1>22. ASSUME perform_idle PROVE Goal
    <2>1. /\ jit = "idle" /\ UNCHANGED <<gil, ruby, pause_wait, stop, pause, paused, world, inside>>
          /\ UNCHANGED <<count, done, child>> /\ current = 0 /\ ~paused /\ ~asleep /\ pause_wait = {}
          /\ \A t \in RubyThreads : ruby[t] # "pausing"
      BY <1>22 DEF perform_idle
    <2>2. CASE stop /\ Exit /\ state' = state
      BY <2>1, <2>2 DEF Exit
    <2>3. CASE ~stop /\ Sleep
      BY <2>1, <2>3 DEF Sleep
    <2>4. CASE ~stop /\ Shift
      BY <2>1, <2>4, <1>w DEF Shift
    <2> QED
      BY <1>22, <2>2, <2>3, <2>4 DEF perform_idle, StopOrWork
  <1>23. ASSUME gc_dependent("compile", "accessing") \/ gc_dependent("compile", "update") PROVE Goal
    BY <1>23 DEF gc_dependent, World!Enter
  <1>24. ASSUME end_access PROVE Goal
    BY <1>24 DEF end_access, gc_independent, World!Leave
  <1>25. ASSUME end_update PROVE Goal
    BY <1>25 DEF end_update, gc_independent, World!Leave
  <1>26. ASSUME unpark PROVE Goal
    BY <1>26 DEF unpark
  <1>27. ASSUME spurious_wakeup PROVE Goal
    BY <1>27 DEF spurious_wakeup
  <1> QED
    BY <1>1, <1>2, <1>3, <1>4, <1>5, <1>6, <1>7, <1>8, <1>9, <1>10, <1>11, <1>12, <1>13, <1>14, <1>15, <1>16,
       <1>17, <1>18, <1>19, <1>20, <1>21, <1>22, <1>23, <1>24, <1>25, <1>26, <1>27
    DEF Next, Begin, Continue, Relock, JitStep

-----------------------------------------------------------------------------
(* The requests: RequestsKept, element by element.                            *)
Flight == IF current = 0 THEN 0 ELSE 1
Whole  == child # "torn" /\ child # "locked"
Ordered ==
  Whole => /\ Len(done) + Flight + Len(requests) = count.requests
           /\ \A i \in 1..Len(done) : done[i] = i
           /\ current # 0 => current = Len(done) + 1
           /\ \A i \in 1..Len(requests) : requests[i] = Len(done) + Flight + i

\* Lengths and the count are naturals.
LEMMA Lengths ==
  ASSUME TypeOK
  PROVE  Len(done) \in Nat /\ Len(requests) \in Nat /\ Flight \in 0..1 /\ count.requests \in Nat
  BY LenProperties, BoundsAssumption DEF TypeOK, Bounded, Flight

\* Taking the next request off the queue keeps the order.
LEMMA ShiftOrdered ==
  ASSUME TypeOK, Ordered, current = 0, Shift, UNCHANGED <<count, done, child>>
  PROVE  Ordered'
  <1> SUFFICES ASSUME Whole PROVE Ordered'
    BY DEF Whole, Ordered
  <1>1. /\ Len(done) \in Nat /\ Len(requests) \in Nat /\ Len(requests) # 0 /\ Flight = 0
    BY Lengths, EmptySeq DEF Shift, Flight, TypeOK
  <1>2. current' = requests[1] /\ current' # 0 /\ Flight' = 1
    <2>1. Head(requests) = requests[1]
      BY HeadTailProperties DEF TypeOK, Shift
    <2>2. Head(requests) # 0
      BY HeadTailTyped DEF TypeOK, Shift
    <2> QED
      BY <2>1, <2>2 DEF Shift, Flight
  <1>3. current' = Len(done) + 1
    <2>1. 1 \in 1..Len(requests)
      BY <1>1
    <2> QED
      BY <1>1, <1>2, <2>1 DEF Ordered
  <1>4. Len(requests') = Len(requests) - 1 /\ \A i \in 1..(Len(requests) - 1) : requests'[i] = requests[i + 1]
    <2>1. /\ Len(Tail(requests)) = Len(requests) - 1
          /\ \A i \in 1..Len(Tail(requests)) : Tail(requests)[i] = requests[i + 1]
      BY HeadTailProperties DEF TypeOK, Shift
    <2> QED
      BY <2>1 DEF Shift
  <1>5. Len(done') + Flight' + Len(requests') = count'.requests
    BY <1>1, <1>2, <1>4 DEF Ordered
  <1>6. \A i \in 1..Len(requests') : requests'[i] = Len(done') + Flight' + i
    <2> SUFFICES ASSUME NEW i \in 1..(Len(requests) - 1) PROVE requests'[i] = Len(done) + 1 + i
      BY <1>2, <1>4
    <2>1. i + 1 \in 1..Len(requests)
      BY <1>1
    <2>2. requests[i + 1] = Len(done) + 0 + (i + 1)
      BY <1>1, <2>1 DEF Ordered
    <2> QED
      BY <1>1, <1>4, <2>2
  <1>7. \A i \in 1..Len(done') : done'[i] = i
    BY DEF Ordered
  <1> QED
    BY <1>3, <1>5, <1>6, <1>7 DEF Ordered

LEMMA OrderStep == ControlInv /\ Ordered /\ [Next]_vars => Ordered'
  <1> SUFFICES ASSUME ControlInv, Ordered, [Next]_vars PROVE Ordered'
    OBVIOUS
  <1>t. TypeOK
    BY DEF ControlInv
  <1>1. ASSUME UNCHANGED <<current, requests, done, child>>, count'.requests = count.requests PROVE Ordered'
    BY <1>1 DEF Ordered, Whole, Flight
  <1>2. ASSUME NEW t \in RubyThreads, add(t) PROVE Ordered'
    <2> SUFFICES ASSUME Whole PROVE Ordered'
      BY <1>2 DEF add, Whole, Ordered
    <2>1. UNCHANGED <<current, done, child>> /\ requests' = Append(requests, count.requests + 1)
      BY <1>2 DEF add
    <2>2. count'.requests = count.requests + 1 /\ Flight' = Flight
      BY <1>2, <1>t, <2>1, TallyFacts DEF add, TypeOK, Flight
    <2>3. PICK v \in 1..MaxRequests : v = count.requests + 1
      BY <1>2, <1>t, BoundsAssumption DEF add, TypeOK, Bounded
    <2>4. /\ Len(Append(requests, v)) = Len(requests) + 1
          /\ \A i \in 1..Len(requests) : Append(requests, v)[i] = requests[i]
          /\ Append(requests, v)[Len(requests) + 1] = v
      BY <1>t, AppendProperties DEF TypeOK
    <2>5. /\ Len(requests') = Len(requests) + 1
          /\ \A i \in 1..Len(requests) : requests'[i] = requests[i]
          /\ requests'[Len(requests) + 1] = count.requests + 1
      BY <2>1, <2>3, <2>4
    <2>6. Len(done) \in Nat /\ Len(requests) \in Nat /\ Flight \in 0..1 /\ count.requests \in Nat
      BY <1>t, Lengths
    <2>7. Len(done') + Flight' + Len(requests') = count'.requests
      BY <2>1, <2>2, <2>5, <2>6 DEF Ordered
    <2>8. \A i \in 1..Len(requests') : requests'[i] = Len(done') + Flight' + i
      <3> SUFFICES ASSUME NEW i \in 1..(Len(requests) + 1) PROVE requests'[i] = Len(done) + Flight + i
        BY <2>1, <2>2, <2>5
      <3>1. CASE i \in 1..Len(requests)
        BY <2>5, <3>1 DEF Ordered
      <3>2. CASE i = Len(requests) + 1
        <4>1. Len(done) + Flight + i = count.requests + 1
          BY <2>6, <3>2 DEF Ordered
        <4> QED
          BY <2>5, <3>2, <4>1
      <3> QED
        BY <2>6, <3>1, <3>2
    <2> QED
      BY <2>1, <2>7, <2>8 DEF Ordered
  <1>3. ASSUME NEW t \in RubyThreads, fork_child(t) PROVE Ordered'
    <2>1. child # "locked"
      BY <1>3 DEF fork_child, ControlInv, Childhood
    <2>2. UNCHANGED <<requests, done, count>> /\ current' = 0
      BY <1>3 DEF fork_child, compilerVars
    <2>3. Whole' => current = 0 /\ Whole
      BY <1>3, <2>1 DEF fork_child, Whole
    <2> QED
      BY <2>2, <2>3 DEF Ordered, Flight
  <1>4. ASSUME NEW s, StopOrWork(s), jit \in {"top", "waiting", "idle"}, UNCHANGED <<count, done, child>>
        PROVE  Ordered'
    <2>1. current = 0
      BY <1>4 DEF ControlInv, Placed
    <2>2. CASE Exit \/ Sleep
      BY <1>1, <1>4, <2>2 DEF Exit, Sleep
    <2>3. CASE Shift
      BY <1>4, <1>t, <2>1, <2>3, ShiftOrdered
    <2> QED
      BY <1>4, <2>2, <2>3 DEF StopOrWork
  <1>5. ASSUME perform_top \/ perform_waiting \/ perform_idle PROVE Ordered'
    BY <1>1, <1>4, <1>5 DEF perform_top, perform_waiting, perform_idle, historyVars
  <1>6. ASSUME end_update PROVE Ordered'
    <2> SUFFICES ASSUME Whole PROVE Ordered'
      BY <1>6 DEF end_update, gc_independent, Whole, Ordered
    <2>1. UNCHANGED <<requests, count, child>> /\ done' = Append(done, current) /\ current' = 0
      BY <1>6 DEF end_update, gc_independent, compilerVars
    <2>2. current \in 1..MaxRequests /\ Flight = 1 /\ Flight' = 0
      BY <1>6, <2>1, <1>t, BoundsAssumption DEF end_update, ControlInv, Placed, TypeOK, Flight
    <2>3. Len(done) \in Nat /\ Len(requests) \in Nat /\ current = Len(done) + 1
      BY <1>t, <2>2, Lengths DEF Ordered
    <2>4. PICK v \in 1..MaxRequests : v = current
      BY <2>2
    <2>5. /\ Len(Append(done, v)) = Len(done) + 1
          /\ \A i \in 1..Len(done) : Append(done, v)[i] = done[i]
          /\ Append(done, v)[Len(done) + 1] = v
      BY <1>t, AppendProperties DEF TypeOK
    <2>6. /\ Len(done') = Len(done) + 1
          /\ \A i \in 1..Len(done) : done'[i] = done[i]
          /\ done'[Len(done) + 1] = Len(done) + 1
      BY <2>1, <2>3, <2>4, <2>5
    <2>7. Len(done') + Flight' + Len(requests') = count'.requests
      BY <2>1, <2>2, <2>3, <2>6 DEF Ordered
    <2>8. \A i \in 1..Len(done') : done'[i] = i
      <3> SUFFICES ASSUME NEW i \in 1..(Len(done) + 1) PROVE done'[i] = i
        BY <2>6
      <3>1. i \in 1..Len(done) \/ i = Len(done) + 1
        BY <2>3
      <3> QED
        BY <2>6, <3>1 DEF Ordered
    <2>9. \A i \in 1..Len(requests') : requests'[i] = Len(done') + Flight' + i
      <3> SUFFICES ASSUME NEW i \in 1..Len(requests) PROVE requests[i] = (Len(done) + 1) + 0 + i
        BY <2>1, <2>2, <2>6
      <3>1. requests[i] = Len(done) + 1 + i
        BY <2>2 DEF Ordered
      <3> QED
        BY <2>3, <3>1
    <2> QED
      BY <2>1, <2>7, <2>8, <2>9 DEF Ordered
  <1>7. ASSUME NEW t \in RubyThreads, collect(t) \/ pause_idle(t) \/ pause_busy(t) \/ exec_fails(t) PROVE Ordered'
    <2>1. UNCHANGED <<current, requests, done, child>>
      BY <1>7 DEF collect, pause_idle, pause_busy, exec_fails, compilerVars
    <2>2. count'.requests = count.requests
      BY <1>7, <1>t, TallyFacts DEF collect, pause_idle, pause_busy, exec_fails, TypeOK
    <2> QED
      BY <1>1, <2>1, <2>2
  <1>8. ASSUME UNCHANGED <<current, requests, done, child, count>> PROVE Ordered'
    BY <1>1, <1>8
  <1>9. ASSUME NEW t \in RubyThreads,
               \/ Lock(t) \/ Unlock(t) \/ collect_alone(t) \/ collect_end(t) \/ recheck_paused(t) \/ fork_unlock(t)
               \/ fork_parent(t) \/ fork_parent_relock(t) \/ fork_child_relock(t) \/ shutdown(t) \/ halt(t)
        PROVE  Ordered'
    <2>1. UNCHANGED <<current, requests, done, child, count>>
      BY <1>9 DEF Lock, Unlock, collect_alone, collect_end, recheck_paused, fork_unlock, fork_parent,
         fork_parent_relock, fork_child_relock, shutdown, halt, compilerVars, historyVars
    <2> QED
      BY <1>8, <2>1
  <1>10. ASSUME \/ perform_pause \/ unpark \/ spurious_wakeup \/ end_access \/ UNCHANGED vars
                \/ gc_dependent("compile", "accessing") \/ gc_dependent("compile", "update")
         PROVE  Ordered'
    <2>1. UNCHANGED <<current, requests, done, child, count>>
      BY <1>10 DEF perform_pause, unpark, spurious_wakeup, end_access, gc_independent, gc_dependent, vars,
         compilerVars, historyVars
    <2> QED
      BY <1>8, <2>1
  <1> QED
    BY <1>2, <1>3, <1>5, <1>6, <1>7, <1>9, <1>10 DEF Next, Begin, Continue, Relock, JitStep

-----------------------------------------------------------------------------
(* The theorems.                                                              *)
CompilerInv == ControlInv /\ Ordered

LEMMA CompilerHolds == Spec => []CompilerInv
  <1>1. Init => CompilerInv
    <2> SUFFICES ASSUME Init PROVE Ordered
      BY InitControl DEF CompilerInv
    <2>1. done = << >> /\ requests = << >> /\ current = 0 /\ count.requests = 0
      BY DEF Init
    <2>2. Len(done) = 0 /\ Len(requests) = 0
      BY <2>1
    <2> QED
      BY <2>1, <2>2 DEF Ordered, Flight
  <1>2. CompilerInv /\ [Next]_vars => CompilerInv'
    BY ControlStep, OrderStep DEF CompilerInv
  <1> QED
    BY <1>1, <1>2, PTL DEF Spec

\* Types.
THEOREM TypeCorrect == Spec => []TypeOK
  <1>1. CompilerInv => TypeOK
    BY DEF CompilerInv, ControlInv
  <1> QED
    BY <1>1, CompilerHolds, PTL

\* The collector never runs while the compiler works on managed memory, through any
\* history of forks, restarts and collections.
THEOREM NeverTogether == Spec => []CollectorAlone
  <1>1. CompilerInv => CollectorAlone
    BY DEF CompilerInv, ControlInv, Placed, CollectorAlone
  <1> QED
    BY <1>1, CompilerHolds, PTL

\* pause() does not return on a paused_ left over from an earlier pause.
THEOREM PauseNotStale == Spec => HandshakeHolds
  <1>1. ASSUME CompilerInv, [Next]_vars, NEW t \in RubyThreads, ruby[t] = "pausing", ruby'[t] = "paused_jit"
        PROVE  jit = "waiting" /\ pause'
    <2>1. pause /\ jit # "gone"
      BY <1>1 DEF CompilerInv, ControlInv, Pausing, Childhood
    <2>2. ruby \in [RubyThreads -> RubyStates]
      BY <1>1 DEF CompilerInv, ControlInv, TypeOK
    <2>3. recheck_paused(t)
      <3>1. ASSUME NEW u \in RubyThreads, Begin(u) \/ Continue(u) \/ Relock(u) PROVE recheck_paused(t)
        <4>1. CASE u = t
          <5>1. CASE Begin(t)
            BY <1>1, <5>1 DEF Begin, Lock, collect, add, pause_idle, pause_busy, shutdown
          <5>2. CASE Continue(t)
            BY <1>1, <2>2, <5>2 DEF Continue, Unlock, collect_alone, collect_end, fork_unlock, fork_parent, fork_child,
               halt, exec_fails
          <5>3. CASE Relock(t)
            BY <1>1, <5>3 DEF Relock, fork_parent_relock, fork_child_relock
          <5> QED
            BY <3>1, <4>1, <5>1, <5>2, <5>3
        <4>2. CASE u # t
          <5>1. Begin(u) => ruby'[t] = ruby[t]
            BY <2>2, <4>2 DEF Begin, Goto, Lock, collect, add, pause_idle, pause_busy, PausedOrSleep, shutdown
          <5>2. Continue(u) => ruby'[t] \in {ruby[t], "gone"}
            BY <2>2, <4>2 DEF Continue, Goto, Unlock, collect_alone, collect_end, recheck_paused, PausedOrSleep,
               fork_unlock, fork_parent, fork_child, halt, exec_fails
          <5>3. Relock(u) => ruby'[t] = ruby[t]
            BY <2>2, <4>2 DEF Relock, Goto, fork_parent_relock, fork_child_relock
          <5> QED
            BY <1>1, <3>1, <5>1, <5>2, <5>3
        <4> QED
          BY <4>1, <4>2
      <3>2. JitStep \/ spurious_wakeup \/ UNCHANGED vars => ruby' = ruby
        BY DEF JitStep, perform_pause, perform_top, perform_waiting, perform_idle, gc_dependent, end_access,
           end_update, gc_independent, unpark, spurious_wakeup, vars
      <3> QED
        BY <1>1, <3>1, <3>2 DEF Next
    <2>4. paused /\ pause' = pause
      BY <1>1, <2>2, <2>3 DEF recheck_paused, PausedOrSleep, Goto, compilerVars
    <2> QED
      BY <1>1, <2>1, <2>4 DEF CompilerInv, ControlInv, Placed
  <1>2. CompilerInv /\ [Next]_vars =>
          [\A t \in RubyThreads : ruby[t] = "pausing" /\ ruby'[t] = "paused_jit" => jit = "waiting" /\ pause']_vars
    BY <1>1
  <1> QED
    BY <1>2, CompilerHolds, PTL DEF Spec, HandshakeHolds

\* No signal to the compiler is lost: it sleeps only with nothing to do, or while a pause
\* lasts.
THEOREM WorkWakes == Spec => []NoLostWork
  <1>1. CompilerInv => NoLostWork
    BY DEF CompilerInv, ControlInv
  <1> QED
    BY <1>1, CompilerHolds, PTL

\* No signal to the thread in pause() is lost: it sleeps only while the compiler is on its
\* way to the pause block, as long as no exec has failed.
THEOREM PauseWakes == Spec => []NoLostPauseSignal
  <1>1. CompilerInv => NoLostPauseSignal
    BY DEF CompilerInv, ControlInv
  <1> QED
    BY <1>1, CompilerHolds, PTL

\* Every request is compiled once, in the order of compile_soon(), or is under way or
\* queued; a fork of a compiler at rest takes them over whole.
THEOREM NoRequestLost == Spec => []RequestsKept
  <1>1. CompilerInv => RequestsKept
    <2> SUFFICES ASSUME TypeOK, Ordered, Whole
                 PROVE  done \o InFlight \o requests = [i \in 1..count.requests |-> i]
      BY DEF CompilerInv, ControlInv, RequestsKept, Whole
    <2> DEFINE R == 1..MaxRequests
               f == InFlight
               p == done \o f
               s == p \o requests
               n == [i \in 1..count.requests |-> i]
               l == count.requests
    <2>1. Len(done) \in Nat /\ Len(requests) \in Nat /\ Flight \in 0..1 /\ l \in Nat /\ l <= MaxRequests
      BY Lengths, BoundsAssumption DEF TypeOK, Bounded
    <2>2. f \in Seq(R) /\ Len(f) = Flight /\ (Flight = 1 => f[1] = Len(done) + 1)
      <3>1. CASE current = 0
        BY <3>1, EmptySeq DEF InFlight, Flight
      <3>2. CASE current # 0
        <4>1. current \in R /\ current = Len(done) + 1
          BY <3>2, BoundsAssumption DEF TypeOK, Ordered
        <4> QED
          BY <3>2, <4>1 DEF InFlight, Flight
      <3> QED
        BY <3>1, <3>2
    <2>3. /\ p \in Seq(R) /\ Len(p) = Len(done) + Flight
          /\ \A i \in 1..(Len(done) + Flight) : p[i] = IF i <= Len(done) THEN done[i] ELSE f[i - Len(done)]
      <3> HIDE DEF f
      <3> QED
        BY <2>2, ConcatProperties DEF TypeOK
    <2> HIDE DEF p, f
    <2>4. \A i \in 1..(Len(done) + Flight) : p[i] = i
      <3> SUFFICES ASSUME NEW i \in 1..(Len(done) + Flight) PROVE p[i] = i
        OBVIOUS
      <3>1. CASE i <= Len(done)
        <4>1. i \in 1..Len(done)
          BY <2>1, <3>1
        <4>2. done[i] = i
          BY <4>1 DEF Ordered
        <4> QED
          BY <2>3, <3>1, <4>2
      <3>2. CASE ~(i <= Len(done))
        <4>1. Flight = 1 /\ i = Len(done) + 1 /\ i - Len(done) = 1
          BY <2>1, <3>2
        <4> QED
          BY <2>2, <2>3, <3>2, <4>1
      <3> QED
        BY <3>1, <3>2
    <2>5. /\ s \in Seq(R) /\ Len(s) = Len(p) + Len(requests)
          /\ \A i \in 1..(Len(p) + Len(requests)) : s[i] = IF i <= Len(p) THEN p[i] ELSE requests[i - Len(p)]
      BY <2>3, ConcatProperties DEF TypeOK
    <2> HIDE DEF s
    <2>6. Len(s) = l
      BY <2>1, <2>3, <2>5 DEF Ordered
    <2>7. ASSUME NEW i \in 1..l PROVE s[i] = i
      <3>1. i \in Nat /\ i \in 1..(Len(p) + Len(requests)) /\ Len(p) \in Nat
        BY <2>1, <2>3, <2>5, <2>6
      <3>2. CASE i <= Len(p)
        <4>1. i \in 1..(Len(done) + Flight)
          BY <2>1, <2>3, <3>1, <3>2
        <4> QED
          BY <2>4, <2>5, <3>1, <3>2, <4>1
      <3>3. CASE ~(i <= Len(p))
        <4>1. i - Len(p) \in 1..Len(requests) /\ Len(done) + Flight + (i - Len(p)) = i
          BY <2>1, <2>3, <3>1, <3>3
        <4>2. requests[i - Len(p)] = i
          BY <4>1 DEF Ordered
        <4> QED
          BY <2>5, <3>1, <3>3, <4>2
      <3> QED
        BY <3>2, <3>3
    <2>8. n \in Seq(R) /\ Len(n) = l /\ \A i \in 1..l : n[i] = i
      <3>1. PICK m \in Nat : m = l
        BY <2>1
      <3>2. \A i \in 1..m : i \in R
        BY <2>1, <3>1, BoundsAssumption
      <3>3. [i \in 1..m |-> i] \in Seq(R) /\ Len([i \in 1..m |-> i]) = m
        BY <3>2, IsASeq
      <3> QED
        BY <3>1, <3>3
    <2> HIDE DEF n
    <2>9. s = n
      <3>1. Len(s) = Len(n) /\ \A i \in 1..Len(s) : s[i] = n[i]
        BY <2>6, <2>7, <2>8
      <3> QED
        BY <2>5, <2>8, <3>1, SeqEqual
    <2> QED
      BY <2>9 DEF s, n, p, f
  <1> QED
    BY <1>1, CompilerHolds, PTL
=============================================================================
