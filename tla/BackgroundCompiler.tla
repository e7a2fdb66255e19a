------------------------- MODULE BackgroundCompiler -------------------------
(***************************************************************************)
(* class BackgroundCompilerThread of vm/llvm/jit.cpp, the thread that      *)
(* turns queued methods into machine code, with everything that talks to   *)
(* it: compile_soon() queues work, System::vm_fork pauses it around        *)
(* fork(), Environment::halt and System::vm_exec stop it, and the garbage  *)
(* collector keeps it out of managed memory.                               *)
(*                                                                         *)
(* Ruby threads act only while they hold the GIL.  As in WorldState, an    *)
(* action is one critical section of mutex_: from taking it to the next    *)
(* condition wait or unlock.  The rendezvous with the collector is the     *)
(* abstract StopTheWorld, which WorldState implements.                     *)
(***************************************************************************)
EXTENDS Integers, Sequences, FiniteSets

CONSTANTS
    RubyThreads,      \* threads that run Ruby code under the GIL
    NoThread,         \* the GIL is free
    Compiler,         \* the background thread, as a client of StopTheWorld
    MaxRequests,      \* bound: methods that become hot
    MaxForks,         \* bound: calls of vm_fork
    MaxCollections,   \* bound: collections
    MaxFailedExecs    \* bound: calls of vm_exec whose execvp(2) fails

ASSUME NoThreadAssumption == NoThread \notin RubyThreads
ASSUME BoundsAssumption ==
    {MaxRequests, MaxForks, MaxCollections, MaxFailedExecs} \subseteq Nat

VARIABLES
    gil,           \* SharedState::lock_
    ruby,          \* where each Ruby thread is
    jit,           \* where perform() is
    current,       \* req in perform(), 0 if none
    asleep,        \* the compiler is asleep on condition_
    pause_wait,    \* threads asleep on pause_condition_
    requests,      \* pending_requests_
    state,         \* state
    stop,          \* stop_
    pause,         \* pause_
    paused,        \* paused_
    world, inside, \* StopTheWorld
    count,         \* how often the bounded operations happened
    done,          \* history: the requests compiled, in order
    child          \* history: what kind of forked child this process is

compilerVars == <<requests, state, stop, pause, paused>>
historyVars  == <<count, done, child>>
vars == <<gil, ruby, jit, current, asleep, pause_wait, compilerVars,
          world, inside, historyVars>>

World == INSTANCE StopTheWorld WITH Helpers <- {Compiler}

\* outside: without the GIL.  collecting: inside a StopTheWorld guard.
\* pausing: in the loop of pause().  forking: in vm_fork with the GIL released,
\* before fork(); parent and child: after it.  joining: in Thread::join() of
\* stop().  gone: not copied into the child.
RubyStates == {"outside", "running", "collecting", "pausing", "paused_jit", "forking",
               "parent", "child", "joining", "halted", "gone"}

\* top: about to lock mutex_.  waiting and idle: the two waits on condition_.
\* compile, accessing: jit->compile() and generate_function(), outside and inside
\* an AccessManagedMemory scope.  update: between gc_dependent() and
\* gc_independent().  parked_: held in gc_independent().
JitStates == {"top", "waiting", "idle", "compile", "accessing", "update",
              "parked_compile", "parked_top", "exited", "gone"}

States == {"cUnknown", "cRunning", "cPaused", "cIdle"}

Bounded == [requests : 0..MaxRequests, forks : 0..MaxForks,
            collections : 0..MaxCollections, execs : 0..MaxFailedExecs]

TypeOK ==
    /\ gil \in RubyThreads \cup {NoThread}
    /\ ruby \in [RubyThreads -> RubyStates]
    /\ jit \in JitStates
    /\ current \in 0..MaxRequests
    /\ pause_wait \in SUBSET RubyThreads
    /\ requests \in Seq(1..MaxRequests)
    /\ done \in Seq(1..MaxRequests)
    /\ state \in States
    /\ {asleep, stop, pause, paused} \subseteq BOOLEAN
    /\ world \in {"running", "stopping", "stopped"}
    /\ inside \in SUBSET {Compiler}
    /\ count \in Bounded
    /\ child \in {"no", "clean", "torn", "locked"}

\* LLVMState::LLVMState creates the thread and runs it.
Init ==
    /\ gil = NoThread
    /\ ruby = [t \in RubyThreads |-> "outside"]
    /\ jit = "top"
    /\ current = 0
    /\ asleep = FALSE
    /\ pause_wait = {}
    /\ requests = <<>>
    /\ state = "cUnknown"
    /\ stop = FALSE /\ pause = FALSE /\ paused = FALSE
    /\ World!Init
    /\ count = [requests |-> 0, forks |-> 0, collections |-> 0, execs |-> 0]
    /\ done = <<>>
    /\ child = "no"

Goto(t, where) == ruby' = [ruby EXCEPT ![t] = where]
Tally(what) == count' = [count EXCEPT ![what] = @ + 1]

-----------------------------------------------------------------------------
(* The GIL and the collector *)

Lock(t) ==
    /\ gil = NoThread
    /\ ruby[t] = "outside"
    /\ gil' = t
    /\ Goto(t, "running")
    /\ UNCHANGED <<jit, current, asleep, pause_wait, compilerVars, world, inside, historyVars>>

Unlock(t) ==
    /\ ruby[t] = "running"
    /\ gil' = NoThread
    /\ Goto(t, "outside")
    /\ UNCHANGED <<jit, current, asleep, pause_wait, compilerVars, world, inside, historyVars>>

\* VM::collect and VM::collect_maybe: the StopTheWorld guard, its wait, its end.
collect(t) ==
    /\ ruby[t] = "running"
    /\ count.collections < MaxCollections
    /\ Tally("collections")
    /\ World!Stop
    /\ Goto(t, "collecting")
    /\ UNCHANGED <<gil, jit, current, asleep, pause_wait, compilerVars, done, child>>

collect_alone(t) ==
    /\ ruby[t] = "collecting"
    /\ World!Alone
    /\ UNCHANGED <<gil, ruby, jit, current, asleep, pause_wait, compilerVars, historyVars>>

collect_end(t) ==
    /\ ruby[t] = "collecting"
    /\ World!Restart
    /\ Goto(t, "running")
    /\ UNCHANGED <<gil, jit, current, asleep, pause_wait, compilerVars, historyVars>>

-----------------------------------------------------------------------------
(* Operations of Ruby threads on the compiler *)

\* compile_soon(): call_count = -1 lets a method in once, so requests are distinct.
add(t) ==
    /\ ruby[t] = "running"
    /\ count.requests < MaxRequests
    /\ Tally("requests")
    /\ requests' = Append(requests, count.requests + 1)
    /\ asleep' = FALSE
    /\ UNCHANGED <<gil, ruby, jit, current, pause_wait, state, stop, pause, paused,
                   world, inside, done, child>>

\* The loop of pause().
PausedOrSleep(t) ==
    /\ Goto(t, IF paused THEN "paused_jit" ELSE "pausing")
    /\ pause_wait' = IF paused THEN pause_wait \ {t} ELSE pause_wait \cup {t}

\* vm_fork begins with pause(), which has nothing to do for an idle compiler.
pause_idle(t) ==
    /\ ruby[t] = "running"
    /\ count.forks < MaxForks
    /\ Tally("forks")
    /\ state \in {"cIdle", "cPaused"}
    /\ Goto(t, "paused_jit")
    /\ UNCHANGED <<gil, jit, current, asleep, pause_wait, compilerVars,
                   world, inside, done, child>>

pause_busy(t) ==
    /\ ruby[t] = "running"
    /\ count.forks < MaxForks
    /\ Tally("forks")
    /\ state \notin {"cIdle", "cPaused"}
    /\ pause' = TRUE
    /\ PausedOrSleep(t)
    /\ UNCHANGED <<gil, jit, current, asleep, requests, state, stop, paused,
                   world, inside, done, child>>

\* Mutant: `if` for `while` in pause().
mutant_recheck_paused_if(t) ==
    /\ ruby[t] = "pausing"
    /\ t \notin pause_wait
    /\ Goto(t, "paused_jit")
    /\ UNCHANGED <<gil, jit, current, asleep, pause_wait, compilerVars,
                   world, inside, historyVars>>

recheck_paused(t) ==
    /\ ruby[t] = "pausing"
    /\ t \notin pause_wait
    /\ PausedOrSleep(t)
    /\ UNCHANGED <<gil, jit, current, asleep, compilerVars, world, inside, historyVars>>

\* The UnlockGuard around fork().
fork_unlock(t) ==
    /\ ruby[t] = "paused_jit"
    /\ gil' = NoThread
    /\ Goto(t, "forking")
    /\ UNCHANGED <<jit, current, asleep, pause_wait, compilerVars, world, inside, historyVars>>

\* fork() as the parent sees it, and a fork() that fails.
fork_parent(t) ==
    /\ ruby[t] = "forking"
    /\ Goto(t, "parent")
    /\ UNCHANGED <<gil, jit, current, asleep, pause_wait, compilerVars, world, inside, historyVars>>

\* fork() as the child sees it: memory is copied, locks included, and no other
\* thread is.  locked: some other thread held the GIL; torn: the compiler was at work.
fork_child(t) ==
    /\ ruby[t] = "forking"
    /\ ruby' = [u \in RubyThreads |-> IF u = t THEN "child" ELSE "gone"]
    /\ jit' = "gone"
    /\ current' = 0
    /\ asleep' = FALSE
    /\ pause_wait' = {}
    /\ child' = IF gil # NoThread THEN "locked"
                ELSE IF current # 0 \/ child = "torn" THEN "torn" ELSE "clean"
    /\ UNCHANGED <<gil, compilerVars, world, inside, count, done>>

\* Mutant: unpause() clears pause_ and does not signal.
mutant_unpause_silently(t) ==
    /\ ruby[t] = "parent"
    /\ gil = NoThread
    /\ gil' = t
    /\ Goto(t, "running")
    /\ pause' = IF state = "cPaused" THEN FALSE ELSE pause
    /\ UNCHANGED <<jit, current, asleep, pause_wait, requests, state, stop, paused,
                   world, inside, historyVars>>

\* The UnlockGuard ends; then unpause().
fork_parent_relock(t) ==
    /\ ruby[t] = "parent"
    /\ gil = NoThread
    /\ gil' = t
    /\ Goto(t, "running")
    /\ pause' = IF state = "cPaused" THEN FALSE ELSE pause
    /\ asleep' = IF state = "cPaused" THEN FALSE ELSE asleep
    /\ UNCHANGED <<jit, current, pause_wait, requests, state, stop, paused,
                   world, inside, historyVars>>

\* Mutant: restart() empties pending_requests_.
mutant_restart_empty(t) ==
    /\ ruby[t] = "child"
    /\ gil = NoThread
    /\ gil' = t
    /\ Goto(t, "running")
    /\ jit' = "top"
    /\ requests' = <<>>
    /\ state' = "cUnknown"
    /\ stop' = FALSE /\ pause' = FALSE /\ paused' = FALSE
    /\ world' = "running" /\ inside' = {}
    /\ UNCHANGED <<current, asleep, pause_wait, historyVars>>

\* The UnlockGuard ends; then SharedState::reinit() and restart(), which keeps
\* pending_requests_.
fork_child_relock(t) ==
    /\ ruby[t] = "child"
    /\ gil = NoThread
    /\ gil' = t
    /\ Goto(t, "running")
    /\ jit' = "top"
    /\ state' = "cUnknown"
    /\ stop' = FALSE /\ pause' = FALSE /\ paused' = FALSE
    /\ world' = "running" /\ inside' = {}
    /\ UNCHANGED <<current, asleep, pause_wait, requests, historyVars>>

\* Mutant: stop() forgets that the compiler may be paused.
mutant_stop_ignores_pause(t) ==
    /\ ruby[t] = "running"
    /\ stop' = TRUE
    /\ asleep' = IF state = "cIdle" THEN FALSE ELSE asleep
    /\ Goto(t, "joining")
    /\ UNCHANGED <<gil, jit, current, pause_wait, requests, state, pause, paused,
                   world, inside, historyVars>>

\* LLVMState::shutdown: stop() up to its join().
shutdown(t) ==
    /\ ruby[t] = "running"
    /\ stop' = TRUE
    /\ pause' = IF state = "cPaused" THEN FALSE ELSE pause
    /\ asleep' = IF state \in {"cIdle", "cPaused"} THEN FALSE ELSE asleep
    /\ Goto(t, "joining")
    /\ UNCHANGED <<gil, jit, current, pause_wait, requests, state, paused,
                   world, inside, historyVars>>

\* Environment::halt stops the world for good.  A successful exec ends the process too.
halt(t) ==
    /\ ruby[t] = "joining"
    /\ jit = "exited"
    /\ World!Stop
    /\ Goto(t, "halted")
    /\ UNCHANGED <<gil, jit, current, asleep, pause_wait, compilerVars, historyVars>>

\* execvp() returns: vm_exec raises in a process that goes on without a compiler.
exec_fails(t) ==
    /\ ruby[t] = "joining"
    /\ jit = "exited"
    /\ count.execs < MaxFailedExecs
    /\ Tally("execs")
    /\ Goto(t, "running")
    /\ UNCHANGED <<gil, jit, current, asleep, pause_wait, compilerVars,
                   world, inside, done, child>>

-----------------------------------------------------------------------------
(* perform() *)

\* The rest of the critical section once the compiler is not, or no longer, paused.
Exit == jit' = "exited" /\ UNCHANGED <<current, asleep, requests>>

Sleep ==
    /\ requests = <<>>
    /\ jit' = "idle"
    /\ state' = "cIdle"
    /\ asleep' = TRUE
    /\ UNCHANGED <<current, requests>>

Shift ==
    /\ requests # <<>>
    /\ current' = Head(requests)
    /\ requests' = Tail(requests)
    /\ state' = "cRunning"
    /\ jit' = "compile"
    /\ UNCHANGED asleep

\* Past the pause block, with s the value of state.
StopOrWork(s) ==
    \/ stop /\ Exit /\ state' = s
    \/ ~stop /\ (Sleep \/ Shift)

\* Mutant: the pauser is not told.
mutant_pause_silently ==
    /\ jit = "top"
    /\ pause
    /\ state' = "cPaused"
    /\ paused' = TRUE
    /\ asleep' = TRUE
    /\ jit' = "waiting"
    /\ UNCHANGED <<gil, ruby, current, pause_wait, requests, stop, pause,
                   world, inside, historyVars>>

perform_pause ==
    /\ jit = "top"
    /\ pause
    /\ state' = "cPaused"
    /\ paused' = TRUE
    /\ asleep' = TRUE
    /\ jit' = "waiting"
    /\ \/ pause_wait = {} /\ UNCHANGED pause_wait
       \/ \E t \in pause_wait : pause_wait' = pause_wait \ {t}
    /\ UNCHANGED <<gil, ruby, current, requests, stop, pause, world, inside, historyVars>>

perform_top ==
    /\ jit = "top"
    /\ ~pause
    /\ StopOrWork(state)
    /\ UNCHANGED <<gil, ruby, pause_wait, stop, pause, paused, world, inside, historyVars>>

perform_waiting ==
    /\ jit = "waiting"
    /\ ~asleep
    /\ \/ /\ pause
          /\ asleep' = TRUE
          /\ UNCHANGED <<jit, current, requests, state, paused>>
       \/ /\ ~pause
          /\ paused' = FALSE
          /\ StopOrWork("cUnknown")
    /\ UNCHANGED <<gil, ruby, pause_wait, stop, pause, world, inside, historyVars>>

\* The inner loop looks at stop_ and the list, not at pause_.
perform_idle ==
    /\ jit = "idle"
    /\ ~asleep
    /\ StopOrWork(state)
    /\ UNCHANGED <<gil, ruby, pause_wait, stop, pause, paused, world, inside, historyVars>>

\* Mutant: managed memory is used without gc_dependent().
mutant_enter_unannounced(from, to) ==
    /\ jit = from
    /\ jit' = to
    /\ UNCHANGED <<gil, ruby, current, asleep, pause_wait, compilerVars,
                   world, inside, historyVars>>

\* gc_dependent(), at the start of an access scope or of the update.
gc_dependent(from, to) ==
    /\ jit = from
    /\ World!Enter(Compiler)
    /\ jit' = to
    /\ UNCHANGED <<gil, ruby, current, asleep, pause_wait, compilerVars, historyVars>>

\* gc_independent(): held at the gate if the collector is waiting.
gc_independent(to, parked) ==
    /\ World!Leave(Compiler)
    /\ jit' = IF world = "running" THEN to ELSE parked
    /\ UNCHANGED <<gil, ruby, asleep, pause_wait, compilerVars, count, child>>

\* The end of one of the AccessManagedMemory scopes of a compilation.
end_access ==
    /\ jit = "accessing"
    /\ gc_independent("compile", "parked_compile")
    /\ UNCHANGED <<current, done>>

\* set_jitted(), MachineMethod::update() or set_native_function(), delete req.
end_update ==
    /\ jit = "update"
    /\ gc_independent("top", "parked_top")
    /\ done' = Append(done, current)
    /\ current' = 0

unpark ==
    /\ world = "running"
    /\ \/ jit = "parked_compile" /\ jit' = "compile"
       \/ jit = "parked_top" /\ jit' = "top"
    /\ UNCHANGED <<gil, ruby, current, asleep, pause_wait, compilerVars,
                   world, inside, historyVars>>

spurious_wakeup ==
    /\ \/ asleep /\ asleep' = FALSE /\ UNCHANGED pause_wait
       \/ /\ \E t \in pause_wait : pause_wait' = pause_wait \ {t}
          /\ UNCHANGED asleep
    /\ UNCHANGED <<gil, ruby, jit, current, compilerVars, world, inside, historyVars>>

-----------------------------------------------------------------------------
JitStep ==
    \/ perform_pause \/ perform_top \/ perform_waiting \/ perform_idle
    \/ gc_dependent("compile", "accessing") \/ end_access
    \/ gc_dependent("compile", "update") \/ end_update
    \/ unpark

\* What a Ruby thread goes on to do once it has begun.
Continue(t) ==
    \/ Unlock(t)
    \/ collect_alone(t) \/ collect_end(t)
    \/ recheck_paused(t) \/ fork_unlock(t) \/ fork_parent(t) \/ fork_child(t)
    \/ halt(t) \/ exec_fails(t)

Relock(t) == fork_parent_relock(t) \/ fork_child_relock(t)

Begin(t) ==
    \/ Lock(t) \/ collect(t) \/ add(t) \/ pause_idle(t) \/ pause_busy(t) \/ shutdown(t)

Next ==
    \/ \E t \in RubyThreads : Begin(t) \/ Continue(t) \/ Relock(t)
    \/ JitStep
    \/ spurious_wakeup

Spec == Init /\ [][Next]_vars

\* The kernel runs runnable threads; a compilation opens finitely many access
\* scopes and ends; the timer makes a running Ruby thread give up the GIL; and
\* GlobalLock::yield sleeps before it locks again, so that a thread that keeps
\* trying to lock the GIL gets it.
Fairness ==
    /\ WF_vars(JitStep) /\ SF_vars(gc_dependent("compile", "update"))
    /\ \A t \in RubyThreads : WF_vars(Continue(t)) /\ SF_vars(Relock(t))

FairSpec == Spec /\ Fairness

-----------------------------------------------------------------------------
(* Properties *)

InFlight == IF current = 0 THEN <<>> ELSE <<current>>

\* Requests are compiled once each, in the order of compile_soon(), and none is
\* dropped by pausing, collecting or forking an idle or paused compiler.
RequestsKept ==
    child # "torn" /\ child # "locked" =>
        done \o InFlight \o requests = [i \in 1..count.requests |-> i]

\* No signal on condition_ is lost: the compiler sleeps as idle only with nothing
\* to do, and sleeps as paused only while the pause lasts.
NoLostWork ==
    asleep => \/ jit = "idle" /\ requests = <<>> /\ ~stop
              \/ jit = "waiting" /\ pause

\* No signal on pause_condition_ is lost: vm_fork sleeps in pause() only while
\* the compiler is on its way to the pause block (no failed exec before).
NoLostPauseSignal ==
    pause_wait # {} /\ count.execs = 0 =>
        /\ pause /\ ~paused
        /\ jit \notin {"idle", "waiting", "exited", "gone"}

\* A collection never overlaps the compiler's work on managed memory, whatever
\* forks and restarts came before.
CollectorAlone == world = "stopped" => jit \notin {"accessing", "update"}

\* pause() never takes a stale paused_, left over from an earlier fork, for an
\* answer: when its loop ends, the compiler sleeps in its pause block and has to
\* wait for unpause() or stop().
HandshakeHolds ==
    [][\A t \in RubyThreads :
          ruby[t] = "pausing" /\ ruby'[t] = "paused_jit" => jit = "waiting" /\ pause']_vars

\* pause() returns: the compiler finishes its request and gets to the pause block
\* (no failed exec before, which leaves no compiler to wait for).
PauseReturns ==
    \A t \in RubyThreads :
        ruby[t] = "pausing" ~> ruby[t] # "pausing" \/ count.execs > 0

\* stop() returns, so halt and exec do not hang on a paused, idle or busy compiler.
StopReturns == \A t \in RubyThreads : ruby[t] = "joining" ~> ruby[t] # "joining"

\* A queued request is compiled, also across a fork, in the parent and in the
\* child, unless the compiler is told to stop.
RequestsCompiled ==
    \A i \in 1..MaxRequests :
        count.requests >= i ~> \/ Len(done) >= i
                               \/ stop
                               \/ child \in {"torn", "locked"}

\* jit.cpp, pause(): "it's idle, ie paused."  A fork finds the compiler at rest.
ForkFindsCompilerAtRest ==
    \A t \in RubyThreads : ruby[t] = "forking" => current = 0

\* system.cpp, vm_fork: "both the parent and child relock independently, and
\* correctly hold the lock."  In the child nobody else is left to release the GIL.
ChildCanLock == \A t \in RubyThreads : ruby[t] = "child" => gil = NoThread
=============================================================================
