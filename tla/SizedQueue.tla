----------------------------- MODULE SizedQueue ------------------------------
(* SizedQueue of lib/thread.rb: a Queue with a second mutex and condition,    *)
(* @size_mutex and @sem, for producers that wait for room. push holds         *)
(* @size_mutex while it calls Queue#push; pop takes it after Queue#pop has    *)
(* returned. The size of @que is read without @mutex.                         *)
EXTENDS ThreadQueue

CONSTANTS InitialMax, NewMax,  \* the size the queue is created with, and what max= sets it to
          Setters,             \* the producers that call max=
          SizeRaiseAt          \* RaiseAt of @size_mutex and @sem
ASSUME SizeAssumption == {InitialMax, NewMax} \subseteq Nat \ {0} /\ Setters \subseteq Producers
                         /\ SizeRaiseAt \subseteq Receives \cup {"ensure"}

VARIABLES max,      \* @max
          spc, sholding, stokens, sowner, squeue, swoken,              \* @size_mutex
          scvtokens, scvqueue, ssent, ssignaled, swaiting, sowed, sstruck   \* @sem

Size == INSTANCE ThreadSync WITH Waiters <- Producers, RaiseAt <- SizeRaiseAt,
          pc <- spc, holding <- sholding, tokens <- stokens, owner <- sowner, queue <- squeue, woken <- swoken,
          cvtokens <- scvtokens, cvqueue <- scvqueue, sent <- ssent, signaled <- ssignaled,
          waiting <- swaiting, owed <- sowed, struck <- sstruck

sizeVars  == <<sholding, stokens, sowner, squeue, swoken, scvtokens, scvqueue, ssent, ssignaled, swaiting, sowed, sstruck>>
sizedVars == <<queueVars, max, spc, sizeVars>>

SizedInit == QueueInit /\ Size!Init /\ max = InitialMax

(* between two calls of either mutex or condition *)
SizeAt(t, j) == At(t, j) /\ spc[t] = "out"
SizeCalls(t, op, then) == Size!Goto(t, op) /\ DoJob(t, then) /\ UNCHANGED <<pc, syncVars, que, pushed, popped, max, sizeVars>>
QueueCalls(A) == A /\ UNCHANGED <<max, spc, sizeVars>>

(* @size_mutex.synchronize, in push, in pop and in max= *)
size_enter(t) ==
  \/ t \in Producers /\ pushed + Cardinality({u \in Producers : job[u] \notin {"none", "idle", "sized"}}) < MaxPush
     /\ SizeAt(t, "idle") /\ SizeCalls(t, "lock", "size")
  \/ t \in Setters /\ max # NewMax /\ SizeAt(t, "idle") /\ SizeCalls(t, "lock", "max")
size_leave(t) ==
  \/ SizeAt(t, "sizeagain") /\ t \in sholding /\ SizeCalls(t, "unlock", "sizeagain")
  \/ SizeAt(t, "sizeagain") /\ t \notin sholding /\ SizeCalls(t, "lock", "size")
  \/ SizeAt(t, "sized") /\ t \in sholding /\ SizeCalls(t, "unlock", "idle")

(* push: the size is tested before Queue#push *)
mutant_one_too_many(t) ==
  /\ SizeAt(t, "size") /\ t \in sholding
  /\ \/ Len(que) > max /\ SizeCalls(t, "wait", "sizeagain")
     \/ Len(que) <= max /\ QueueCalls(Calls(t, "lock", "push"))
push_test(t) ==
  /\ SizeAt(t, "size") /\ t \in sholding
  /\ \/ Len(que) >= max /\ SizeCalls(t, "wait", "sizeagain")
     \/ Len(que) < max /\ QueueCalls(Calls(t, "lock", "push"))

(* pop: Queue#pop, then the test whether there is room *)
pop_enter(t) ==
  /\ t \in Consumers /\ pc[t] = "out" /\ spc[t] = "out"
  /\ job[t] = "idle" \/ (job[t] = "again" /\ t \notin holding)
  /\ QueueCalls(Calls(t, "lock", "pop"))
pop_leave(t) ==
  \/ At(t, "leave") /\ t \in holding /\ QueueCalls(Calls(t, "unlock", "sized"))
  \/ At(t, "fail") /\ t \in holding /\ QueueCalls(Calls(t, "unlock", "idle"))
  \/ At(t, "again") /\ t \in holding /\ QueueCalls(Calls(t, "unlock", "again"))
  \/ t \in Consumers /\ SizeAt(t, "sized") /\ t \notin sholding /\ SizeCalls(t, "lock", "notify")
mutant_notify_never(t) ==
  /\ SizeAt(t, "notify") /\ t \in sholding
  /\ DoJob(t, "sized") /\ UNCHANGED <<pc, syncVars, que, pushed, popped, max, spc, sizeVars>>
notify(t) ==
  /\ SizeAt(t, "notify") /\ t \in sholding
  /\ IF Len(que) < max THEN SizeCalls(t, "broadcast", "sized")
     ELSE DoJob(t, "sized") /\ UNCHANGED <<pc, syncVars, que, pushed, popped, max, spc, sizeVars>>

(* max=: broadcast is called with an argument it does not take, and fails *)
set_max(t) ==
  /\ SizeAt(t, "max") /\ t \in sholding
  /\ max' = NewMax /\ DoJob(t, "sized") /\ UNCHANGED <<pc, syncVars, que, pushed, popped, spc, sizeVars>>

(* An exception raised in a call of @size_mutex or @sem, in the same way. *)
SizeInterrupt(t) ==
  /\ Size!Raise(t) /\ UNCHANGED <<pc, holding, mutex, cv, que, pushed, popped, max>>
  /\ DoJob(t, IF InBlock(spc[t]) \/ spc[t] = "broadcast" THEN "sized" ELSE "idle")

SizedWork(t) ==
  \/ QueueCalls(Step(t) /\ UNCHANGED <<que, pushed, popped, job>>)
  \/ Size!Step(t) /\ UNCHANGED <<queueVars, max>>
  \/ QueueCalls(push(t)) \/ QueueCalls(pop_test(t)) \/ QueueCalls(pop_shift(t))
  \/ size_leave(t) \/ push_test(t) \/ pop_leave(t) \/ notify(t) \/ set_max(t)
SizedNext == \E t \in Threads : size_enter(t) \/ pop_enter(t) \/ SizedWork(t) \/ QueueCalls(Interrupt(t)) \/ SizeInterrupt(t)
SizedSpec == /\ SizedInit /\ [][SizedNext]_sizedVars
             /\ \A t \in Threads : WF_sizedVars(SizedWork(t) \/ pop_enter(t))

-----------------------------------------------------------------------------
(* No push makes the queue longer than @max: the size that was tested under   *)
(* @size_mutex only shrinks until Queue#push has taken @mutex and appended,   *)
(* and @max does not change in between.                                       *)
Bounded == [][Len(que') > Len(que) => Len(que') <= max]_<<que>>

(* No producer is left asleep beside a queue with room: a broadcast is under  *)
(* way, or a thread that will look at the size again.                         *)
NoStrandedProducer ==
  Len(que) < max /\ scvqueue # << >> =>
    \E t \in Threads : \/ t \in Size!InFlight \/ spc[t] = "broadcast"
                       \/ t \in Consumers /\ (job[t] \in {"leave", "notify"} \/ (job[t] = "sized" /\ t \notin sholding))

(* Every push ends, if consumers keep popping: producers do not wait for room *)
(* that is there, and producers and consumers do not wait for each other.     *)
PushReturns == \A t \in Producers : job[t] = "size" ~> job[t] = "idle"
==============================================================================
