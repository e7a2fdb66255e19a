----------------------------- MODULE ThreadQueue -----------------------------
(* Queue of lib/thread.rb over the Mutex and the ConditionVariable of         *)
(* ThreadSync: push and pop are Ruby code inside @mutex.synchronize, here     *)
(* step by step, so that nothing but the mutex keeps two threads apart.       *)
(* SizedQueue calls these steps from its own push and pop.                    *)
EXTENDS ThreadSync

CONSTANTS Producers, Consumers,
          Crews,         \* the sets of threads that may be the ones the program has started
          MaxPush        \* bound: values pushed
ASSUME QueueAssumption == /\ Producers \cap Consumers = {} /\ Producers \cup Consumers = Threads
                          /\ Waiters = Consumers /\ Crews \subseteq SUBSET Threads /\ MaxPush \in Nat

VARIABLES que,      \* @que; the i-th value pushed is i
          pushed,   \* history: how many values were pushed
          popped,   \* history: the values popped, 0 for a nil
          job       \* what a thread does next: "none" (not started), "idle", "push", "pop", "shift" (the value it has
                    \* seen), "leave" (the block), "fail" (leave it with an
                    \* exception) or "again" (from the top of pop)

queueVars == <<vars, que, pushed, popped, job>>
syncVars  == <<holding, mutex, cv, raises>>
DoJob(t, j) == job' = [job EXCEPT ![t] = j]

QueueInit == /\ Init /\ que = << >> /\ pushed = 0 /\ popped = << >>
             /\ \E crew \in Crews : job = [t \in Threads |-> IF t \in crew THEN "idle" ELSE "none"]

(* the call of a Mutex or ConditionVariable method, and what follows it *)
Calls(t, op, then) == Goto(t, op) /\ DoJob(t, then) /\ UNCHANGED <<syncVars, que, pushed, popped>>
At(t, j) == pc[t] = "out" /\ job[t] = j

mutant_push_silently(t) ==
  /\ At(t, "push") /\ t \in holding
  /\ que' = Append(que, pushed + 1) /\ pushed' = pushed + 1
  /\ DoJob(t, "leave") /\ UNCHANGED <<pc, syncVars, popped>>
push(t) ==
  /\ At(t, "push") /\ t \in holding
  /\ que' = Append(que, pushed + 1) /\ pushed' = pushed + 1
  /\ Goto(t, "signal") /\ DoJob(t, "leave") /\ UNCHANGED <<syncVars, popped>>

mutant_pop_if(t) ==
  /\ At(t, "pop") /\ t \in holding
  /\ IF que = << >> THEN Calls(t, "wait", "shift")
     ELSE DoJob(t, "shift") /\ UNCHANGED <<pc, syncVars, que, pushed, popped>>
(* @que.empty? *)
pop_test(t) ==
  /\ At(t, "pop") /\ t \in holding
  /\ \/ que = << >> /\ Calls(t, "wait", "again")
     \/ que = << >> /\ raises < MaxRaises /\ raises' = raises + 1 /\ DoJob(t, "fail")  \* non_block: ThreadError
        /\ UNCHANGED <<pc, holding, mutex, cv, que, pushed, popped>>
     \/ que # << >> /\ DoJob(t, "shift") /\ UNCHANGED <<pc, syncVars, que, pushed, popped>>

(* @que.shift, and @resource.signal for the next one *)
pop_shift(t) ==
  /\ At(t, "shift")
  /\ popped' = Append(popped, IF que = << >> THEN 0 ELSE Head(que))
  /\ que' = IF que = << >> THEN que ELSE Tail(que)
  /\ Goto(t, "signal") /\ DoJob(t, "leave") /\ UNCHANGED <<syncVars, pushed>>

(* An exception raised in a call of @mutex or @resource leaves push or pop.   *)
(* Inside synchronize the mutex is unlocked on the way out; in synchronize's  *)
(* own lock and unlock, and where wait has not got the mutex back, it is not. *)
InBlock(step) == step \in {"wait", "wait_unlock", "sleep", "wait_relock", "signal"}
Interrupt(t) ==
  /\ Raise(t) /\ UNCHANGED <<que, pushed, popped>>
  /\ DoJob(t, IF t \in Producers THEN IF InBlock(pc[t]) THEN "leave" ELSE "sized"
              ELSE IF InBlock(pc[t]) THEN "fail" ELSE "idle")

-----------------------------------------------------------------------------
(* Every value is popped once and in order, and no pop returns nil: between   *)
(* @que.empty? and @que.shift no other consumer takes the value.              *)
PoppedInOrder == popped \o que = [i \in 1..pushed |-> i]

(* No value is left lying beside a sleeping consumer: if there are values and *)
(* consumers in the condition's queue, a signal is under way, or a thread     *)
(* that will send one is inside push or pop; also after an interrupted wait.  *)
NoStrandedItem ==
  que # << >> /\ cvqueue # << >> =>
    \E t \in Threads : \/ t \in InFlight \/ pc[t] = "signal" \/ job[t] \in {"pop", "shift"}
                       \/ job[t] = "again" /\ t \notin waiting

(* If consumers keep popping, what was pushed is popped.                      *)
Drained == que # << >> ~> que = << >>
==============================================================================
