----------------------------- MODULE WorldState -----------------------------
(***************************************************************************)
(* class WorldState of vm/shared_state.cpp: how the thread that holds the  *)
(* global interpreter lock (GIL) gets the process to itself for a          *)
(* collection.                                                             *)
(*                                                                         *)
(* All Ruby threads together are ONE client of the WorldState: the GIL     *)
(* lets only one of them run, and VM::initialize registers them once.  The *)
(* helpers (the background JIT compiler) are clients of their own: each    *)
(* becomes dependent on the collector while it uses managed memory.        *)
(*                                                                         *)
(* Every field is read and written with mutex_ held, and mutex_ is given   *)
(* up only by a condition wait and at the end of an operation.  An action  *)
(* is therefore one critical section: from taking mutex_ to the next wait  *)
(* or return.  The one unlocked access, the test in checkpoint(), is an    *)
(* action of its own.                                                      *)
(***************************************************************************)
EXTENDS Integers, FiniteSets

CONSTANTS
    RubyThreads,   \* threads that run Ruby code under the GIL
    Helpers,       \* threads that call gc_dependent() / gc_independent()
    NoThread       \* the GIL is free

ASSUME RubyThreadsAssumption == NoThread \notin RubyThreads
ASSUME HelpersAssumption == IsFiniteSet(Helpers)

VARIABLES
    gil,               \* SharedState::lock_, the Ruby thread that owns it
    ruby,              \* where each Ruby thread is
    helper,            \* where each helper is
    pending_threads,   \* pending_threads_
    should_stop,       \* should_stop_
    waiting_to_stop,   \* threads asleep on waiting_to_stop_
    waiting_to_run     \* threads asleep on waiting_to_run_

vars == <<gil, ruby, helper, pending_threads, should_stop,
          waiting_to_stop, waiting_to_run>>

\* outside: without the GIL.  stopping: in the loop of wait_til_alone().
\* alone: between stop_the_world() and restart_world().
RubyStates == {"outside", "running", "stopping", "alone"}

\* checkpoint: has seen should_stop_ and is about to lock mutex_.
\* The in_ states are the loops on waiting_to_run_, named for the caller.
HelperStates ==
    {"independent", "dependent", "checkpoint",
     "in_become_dependent", "in_become_independent", "in_checkpoint"}

TypeOK ==
    /\ gil \in RubyThreads \cup {NoThread}
    /\ ruby \in [RubyThreads -> RubyStates]
    /\ helper \in [Helpers -> HelperStates]
    /\ pending_threads \in Int
    /\ should_stop \in BOOLEAN
    /\ waiting_to_stop \in SUBSET RubyThreads
    /\ waiting_to_run \in SUBSET Helpers

\* The state VM::initialize leaves: its gc_dependent() counts for all Ruby threads.
Init ==
    /\ gil = NoThread
    /\ ruby = [t \in RubyThreads |-> "outside"]
    /\ helper = [h \in Helpers |-> "independent"]
    /\ pending_threads = 1
    /\ should_stop = FALSE
    /\ waiting_to_stop = {}
    /\ waiting_to_run = {}

-----------------------------------------------------------------------------
(* The GIL *)

Lock(t) ==
    /\ gil = NoThread
    /\ ruby[t] = "outside"
    /\ gil' = t
    /\ ruby' = [ruby EXCEPT ![t] = "running"]
    /\ UNCHANGED <<helper, pending_threads, should_stop, waiting_to_stop, waiting_to_run>>

Unlock(t) ==
    /\ gil = t
    /\ ruby[t] = "running"
    /\ gil' = NoThread
    /\ ruby' = [ruby EXCEPT ![t] = "outside"]
    /\ UNCHANGED <<helper, pending_threads, should_stop, waiting_to_stop, waiting_to_run>>

-----------------------------------------------------------------------------
(* The collector *)

\* The test of the loop in wait_til_alone(), with n the value of pending_threads_.
AloneOrSleep(t, n) ==
    /\ ruby' = [ruby EXCEPT ![t] = IF n > 0 THEN "stopping" ELSE "alone"]
    /\ waiting_to_stop' = IF n > 0 THEN waiting_to_stop \cup {t}
                                   ELSE waiting_to_stop \ {t}

wait_til_alone(t) ==
    /\ gil = t
    /\ ruby[t] = "running"
    /\ should_stop' = TRUE
    /\ pending_threads' = pending_threads - 1
    /\ AloneOrSleep(t, pending_threads - 1)
    /\ UNCHANGED <<gil, helper, waiting_to_run>>

\* Mutant: `if` for `while` in wait_til_alone().
mutant_recheck_if(t) ==
    /\ ruby[t] = "stopping"
    /\ t \notin waiting_to_stop
    /\ ruby' = [ruby EXCEPT ![t] = "alone"]
    /\ UNCHANGED <<gil, helper, pending_threads, should_stop, waiting_to_stop, waiting_to_run>>

\* Signalled (or woken for no reason), the collector tests the count again.
recheck_alone(t) ==
    /\ ruby[t] = "stopping"
    /\ t \notin waiting_to_stop
    /\ AloneOrSleep(t, pending_threads)
    /\ UNCHANGED <<gil, helper, pending_threads, should_stop, waiting_to_run>>

\* Mutant: the collector does not count itself again.
mutant_wake_uncounted(t) ==
    /\ ruby[t] = "alone"
    /\ ruby' = [ruby EXCEPT ![t] = "running"]
    /\ should_stop' = FALSE
    /\ waiting_to_run' = {}
    /\ UNCHANGED <<gil, helper, pending_threads, waiting_to_stop>>

\* Mutant: signal() for broadcast().
mutant_wake_one(t) ==
    /\ ruby[t] = "alone"
    /\ ruby' = [ruby EXCEPT ![t] = "running"]
    /\ should_stop' = FALSE
    /\ pending_threads' = pending_threads + 1
    /\ \/ waiting_to_run = {} /\ waiting_to_run' = {}
       \/ \E h \in waiting_to_run : waiting_to_run' = waiting_to_run \ {h}
    /\ UNCHANGED <<gil, helper, waiting_to_stop>>

wake_all_waiters(t) ==
    /\ ruby[t] = "alone"
    /\ ruby' = [ruby EXCEPT ![t] = "running"]
    /\ should_stop' = FALSE
    /\ pending_threads' = pending_threads + 1
    /\ waiting_to_run' = {}
    /\ UNCHANGED <<gil, helper, waiting_to_stop>>

-----------------------------------------------------------------------------
(* The helpers *)

\* waiting_to_stop_.signal()
SignalStop ==
    IF waiting_to_stop = {}
    THEN waiting_to_stop' = {}
    ELSE \E t \in waiting_to_stop : waiting_to_stop' = waiting_to_stop \ {t}

\* Mutant: the helper waits on the collector's condition variable.
mutant_wrong_condition(h, caller) ==
    /\ pending_threads' = pending_threads - 1
    /\ waiting_to_stop' = waiting_to_stop \cup {h}
    /\ helper' = [helper EXCEPT ![h] = caller]
    /\ UNCHANGED waiting_to_run

\* Mutant: the helper parks without telling the collector.
mutant_park_silently(h, caller) ==
    /\ pending_threads' = pending_threads - 1
    /\ waiting_to_run' = waiting_to_run \cup {h}
    /\ helper' = [helper EXCEPT ![h] = caller]
    /\ UNCHANGED waiting_to_stop

\* wait_to_run() up to its first wait on waiting_to_run_.
wait_to_run(h, caller) ==
    /\ pending_threads' = pending_threads - 1
    /\ SignalStop
    /\ waiting_to_run' = waiting_to_run \cup {h}
    /\ helper' = [helper EXCEPT ![h] = caller]

\* Mutant: no gate.
mutant_enter_unchecked(h) ==
    /\ helper[h] = "independent"
    /\ helper' = [helper EXCEPT ![h] = "dependent"]
    /\ pending_threads' = pending_threads + 1
    /\ UNCHANGED <<gil, ruby, should_stop, waiting_to_stop, waiting_to_run>>

become_dependent(h) ==
    /\ helper[h] = "independent"
    /\ helper' = [helper EXCEPT
                    ![h] = IF should_stop THEN "in_become_dependent" ELSE "dependent"]
    /\ pending_threads' = IF should_stop THEN pending_threads ELSE pending_threads + 1
    /\ waiting_to_run' = IF should_stop THEN waiting_to_run \cup {h} ELSE waiting_to_run
    /\ UNCHANGED <<gil, ruby, should_stop, waiting_to_stop>>

become_independent(h) ==
    /\ helper[h] = "dependent"
    /\ \/ /\ should_stop
          /\ wait_to_run(h, "in_become_independent")
       \/ /\ ~should_stop
          /\ helper' = [helper EXCEPT ![h] = "independent"]
          /\ pending_threads' = pending_threads - 1
          /\ UNCHANGED <<waiting_to_stop, waiting_to_run>>
    /\ UNCHANGED <<gil, ruby, should_stop>>

\* The unlocked test.  Reading FALSE, current or stale, changes nothing.
checkpoint_test(h) ==
    /\ helper[h] = "dependent"
    /\ should_stop
    /\ helper' = [helper EXCEPT ![h] = "checkpoint"]
    /\ UNCHANGED <<gil, ruby, pending_threads, should_stop, waiting_to_stop, waiting_to_run>>

\* wait_to_run() called without testing should_stop_ again: if the world runs,
\* the decrement and the increment cancel out.
checkpoint(h) ==
    /\ helper[h] = "checkpoint"
    /\ IF should_stop
       THEN wait_to_run(h, "in_checkpoint")
       ELSE /\ SignalStop
            /\ helper' = [helper EXCEPT ![h] = "dependent"]
            /\ UNCHANGED <<pending_threads, waiting_to_run>>
    /\ UNCHANGED <<gil, ruby, should_stop>>

\* The loop on waiting_to_run_ after a wakeup.  become_dependent() and
\* checkpoint() end counted; become_independent() increments and decrements.
Loops == {"in_become_dependent", "in_become_independent", "in_checkpoint"}

resume(h) ==
    /\ helper[h] \in Loops
    /\ h \notin waiting_to_run
    /\ \/ /\ should_stop
          /\ waiting_to_run' = waiting_to_run \cup {h}
          /\ UNCHANGED <<helper, pending_threads>>
       \/ /\ ~should_stop
          /\ helper[h] = "in_become_independent"
          /\ helper' = [helper EXCEPT ![h] = "independent"]
          /\ UNCHANGED <<pending_threads, waiting_to_run>>
       \/ /\ ~should_stop
          /\ helper[h] # "in_become_independent"
          /\ helper' = [helper EXCEPT ![h] = "dependent"]
          /\ pending_threads' = pending_threads + 1
          /\ UNCHANGED waiting_to_run
    /\ UNCHANGED <<gil, ruby, should_stop, waiting_to_stop>>

-----------------------------------------------------------------------------
(* The environment *)

\* pthread_cond_wait may return although nobody signalled.
spurious_wakeup ==
    /\ \/ /\ \E t \in waiting_to_stop : waiting_to_stop' = waiting_to_stop \ {t}
          /\ UNCHANGED waiting_to_run
       \/ /\ \E h \in waiting_to_run : waiting_to_run' = waiting_to_run \ {h}
          /\ UNCHANGED waiting_to_stop
    /\ UNCHANGED <<gil, ruby, helper, pending_threads, should_stop>>

\* From here on the behaviour is that of a child forked by t while no thread
\* held the GIL: only t is left, it takes the GIL and calls reinit().
reinit(t) ==
    /\ gil = NoThread
    /\ ruby[t] = "outside"
    /\ gil' = t
    /\ ruby' = [ruby EXCEPT ![t] = "running"]
    /\ helper' = [h \in Helpers |-> "independent"]
    /\ pending_threads' = 1
    /\ should_stop' = FALSE
    /\ waiting_to_stop' = {}
    /\ waiting_to_run' = {}

-----------------------------------------------------------------------------
RubyStep(t) ==
    \/ Lock(t) \/ Unlock(t)
    \/ wait_til_alone(t) \/ recheck_alone(t) \/ wake_all_waiters(t)
    \/ reinit(t)

HelperStep(h) ==
    \/ become_dependent(h) \/ become_independent(h)
    \/ checkpoint_test(h) \/ checkpoint(h) \/ resume(h)

Next ==
    \/ \E t \in RubyThreads : RubyStep(t)
    \/ \E h \in Helpers : HelperStep(h)
    \/ spurious_wakeup

Spec == Init /\ [][Next]_vars

\* The kernel runs every runnable thread, so each of these is taken if it stays
\* enabled: a collection ends, the code between gc_dependent() and
\* gc_independent() ends, and a woken thread gets mutex_.  Nothing makes a thread
\* ask for a collection, enter managed memory, take the GIL or fork.
Fairness ==
    /\ \A t \in RubyThreads : WF_vars(recheck_alone(t)) /\ WF_vars(wake_all_waiters(t))
    /\ \A h \in Helpers : /\ WF_vars(become_independent(h) \/ checkpoint(h))
                          /\ WF_vars(resume(h))

FairSpec == Spec /\ Fairness

-----------------------------------------------------------------------------
(* Properties *)

\* The helpers that are counted in pending_threads_.
Counted == {h \in Helpers : helper[h] \in {"dependent", "checkpoint"}}

\* The Ruby threads between the two "For ourself.." lines.
Stoppers == {t \in RubyThreads : ruby[t] \in {"stopping", "alone"}}

\* StopTheWorld's reason to exist: while a thread collects, no helper uses
\* managed memory and no other Ruby thread holds the GIL.
CollectorAlone ==
    \A t \in RubyThreads :
        ruby[t] = "alone" =>
            /\ Counted = {}
            /\ \A u \in RubyThreads \ {t} : ruby[u] = "outside"

\* pending_threads_ is exactly the number of dependent clients, so that no path
\* through wait_to_run(), a restart, a spurious wakeup or a fork leaks a count.
PendingIsExact ==
    pending_threads = Cardinality(Counted) + (IF Stoppers = {} THEN 1 ELSE 0)

\* No wakeup of the collector is lost: it sleeps on waiting_to_stop_ only while
\* some client still has to stop (become_independent() signals only through
\* wait_to_run(), so a decrement that skipped it would strand the collector).
NoLostStopSignal == waiting_to_stop # {} => pending_threads > 0

\* No wakeup of a helper is lost: nobody sleeps on waiting_to_run_ when the world runs.
NoLostRunSignal == waiting_to_run # {} => should_stop

\* A helper that is refused at the gate, or parked by a collection, gets through
\* only after the collector restarted the world: it never starts to use managed
\* memory in a step that begins with should_stop_ set.
NoEntryWhileStopping ==
    [][\A h \in Helpers : should_stop /\ h \notin Counted => h \notin Counted']_vars

\* wait_til_alone() returns: every helper in managed memory reaches a point
\* where it parks itself.
CollectorGetsAlone ==
    \A t \in RubyThreads : ruby[t] = "stopping" ~> ruby[t] = "alone"

\* A parked helper runs again unless collections never cease.
ParkedHelperResumes ==
    \A h \in Helpers : <>[](~should_stop) => []<>(helper[h] \notin Loops)

\* WorldState implements the counter-free StopTheWorld.
Abstract == INSTANCE StopTheWorld WITH
    world  <- IF ~should_stop THEN "running"
              ELSE IF \E t \in RubyThreads : ruby[t] = "alone" THEN "stopped"
              ELSE "stopping",
    inside <- Counted

ImplementsStopTheWorld == Abstract!Spec
=============================================================================
