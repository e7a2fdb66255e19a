# Rubinius: a TLA+ model of its threads, heap and method caches

Rubinius runs Ruby code on native threads under one global interpreter lock (the
GIL). Around that lock it has a background compiler, a stop-the-world garbage
collector, POSIX signals, `fork`, and `Channel`, the primitive on which every
blocking operation of Ruby code is built. Each is a few dozen lines of C++ with
mutexes and condition variables, each has been written to be "obviously right",
and their tests run one thread at a time. On top of them, in Ruby, stand `Thread`,
`Mutex`, `ConditionVariable`, `Queue` and `SizedQueue`. Below them are the generational
heap, whose collector moves objects under a running program, and the method caches, which
must forget what a redefinition has changed. This directory models all of these, checks
the models with TLC, and proves their safety properties with TLAPS for any number of
threads, objects, values and classes.

All paths below are relative to the root of the repository.

## 1. Inventory

| component | state | operations | talks to |
|---|---|---|---|
| `WorldState` (`vm/shared_state.cpp`) | `pending_threads_`, `should_stop_`, two condition variables | `become_dependent`, `become_independent`, `checkpoint`, `wait_til_alone`, `wake_all_waiters`, `reinit` | collector (`StopTheWorld` guard), compiler, `vm_fork` |
| GIL (`vm/global_lock.*`) | owner | lock, unlock, `yield` | everything |
| `BackgroundCompilerThread` (`vm/llvm/jit.cpp`) | request list, `state`, `stop_`, `pause_`, `paused_`, two condition variables | `add`, `stop`, `pause`, `unpause`, `restart`, `perform` | Ruby threads, `WorldState`, `vm_fork`, `vm_exec`, `Environment::halt` |
| `Channel` (`vm/builtin/channel.cpp`) | value list, waiter count, condition variable | `send`, `try_receive`, `receive`, `receive_timeout` | GIL, `Waiter`, signals |
| `Waiter`, `Thread#raise`, `Thread#wakeup` (`vm/native_thread.hpp`, `vm/vm.cpp`, `vm/builtin/thread.cpp`) | `waiter_`, `used_`, pending exception | `install_waiter`, `wakeup`, `clear_waiter`, `raise` | Channel, blocking I/O |
| `SignalHandler` (`vm/signal.cpp`) | pending list, recursive `lock_`, `check_local_interrupts` | `handle_signal`, `deliver_signals`, `process_async` | kernel, main thread, `Waiter` |
| thread life cycle (`kernel/common/thread.rb`) | `@lock` channel, `@joins`, `@alive` | `__run__`, `join`, `raise`, `kill`, `alive?` | Channel |
| `Mutex`, `ConditionVariable` (`lib/thread.rb`) | token channel, owner, waiter lists | lock, try_lock, unlock, wait, signal, broadcast | Channel, `Thread#raise` |
| `Queue`, `SizedQueue` (`lib/thread.rb`) | `@que`, `@max`, two mutexes and two conditions | push, pop, `max=`, clear | Mutex, ConditionVariable |
| young generation (`vm/gc/baker.*`, `vm/gc/gc.cpp`, `vm/objectmemory.*`) | two half spaces, remember set, promoted list | allocate, write barrier, collect | WorldState |
| mature generation (`vm/gc/immix.*`, `vm/gc/marksweep.*`) | mark bits, free lists | mark, sweep, weak references, handles | young generation |
| method caches (`vm/global_cache.*`, `vm/inline_cache.*`, `vm/builtin/sendsite.cpp`) | entries, call sites | lookup, retain, clear, prune | collector, redefinition in `kernel/` |
| interpreter, JIT code generation, C API, parser, bytecode compiler, core library | sequential | | |

What is hard here, and to what the properties are aimed:

* condition variables: lost, stolen and spurious wakeups, `if` where `while` is needed;
* counters (`pending_threads_`, `waiters_`) that have to be right on every path;
* values read under a lock and used after it (`state` in `pause()`, `waiter_` in `wakeup()`);
* `fork` copying a process in the middle of something, and a failed `exec`;
* asynchronous signals between any two instructions;
* timeouts and exceptions that race with the value a thread is waiting for;
* `ensure` clauses that give back what may not have been taken;
* a collector that moves objects while tables, weak references and remembered objects refer
  to them, and promotes objects it has yet to scan;
* caches filled between a change of a table and the reset that follows it.

`PROJECT.json` lists these hazards line by line.

## 2. Modules

```
StopTheWorld          what a collection is promised (abstract, two variables)
   ^ implemented by                 ^ used by (INSTANCE)
WorldState                      BackgroundCompiler

Channel      SignalDelivery      ThreadLife

ThreadSync                      Mutex and ConditionVariable
   ^ extended by      ^ and instantiated a second time by
ThreadQueue <------ SizedQueue

ObjectMemory      MethodCache

MC*.tla               the instances for TLC
*Proofs.tla           the theorems about each module; those about ThreadQueue and
                      SizedQueue are in ThreadSyncProofs, on top of those about ThreadSync
```

An action of the models is a critical section: what a thread does between taking
a mutex and giving it up, by unlocking it or by waiting on a condition variable. A
condition variable is the set of threads asleep on it; `signal` removes some
element, `broadcast` empties it, and a `spurious_wakeup` action removes any element
at any time. A thread out of the set still has to get the mutex: its next action
tests the loop condition again.

**WorldState.** All Ruby threads together are one client, registered by
`VM::initialize`, because the GIL lets one of them run at a time; each helper is a
client of its own. `ruby[t]` and `helper[h]` say where a thread is. `checkpoint()`
is two actions since it tests `should_stop_` without the mutex. `reinit(t)` continues
the behaviour as the child of a fork. In this commit the only helper is the background
compiler and nothing calls `checkpoint()`; the class is written for any number of
clients, and is modelled so.

**BackgroundCompiler.** `ruby[t]` follows a thread through `pause()`, `fork()`, `stop()`
and `exec`; `jit` follows `perform()`. `fork_child` replaces the process by the child: the
other threads are gone, mutexes and conditions are re-initialised by `restart()`, but the
GIL is copied as it is. `child` records if the copy was made with the GIL taken (`locked`)
or with a compilation in progress (`torn`). A compilation opens any number of
`AccessManagedMemory` scopes. The rendezvous with the collector is `StopTheWorld`.

**Channel.** The mutex of the condition variable is the GIL. Values are numbers in the
order of `send`. `raised` is the set of threads with an exception registered by
`Thread#raise`; a receive that ends while `raised` holds returns NULL and leaves the list
alone. A receive is timed or not by choice, and a timed wait may expire at any time.

**SignalDelivery.** Finer steps than the others: a signal can fall between
`install_waiter()` and the wait, or between the end of the delivery loop and `clear()`. A
signal on the main thread is one step for the main thread (`sa_mask` is full). A signal on
another thread is two steps, before and after the test of `waiter_`, since no lock that the
main thread takes in `receive` protects it. `frames` is the stack of active `deliver_signals()`
calls, each with its list iterator. `lock_` is a recursive mutex where
`HAVE_OSX_SPINLOCK` is not defined; that build is modelled.

**ThreadLife.** One thread and the threads that join, raise in and kill it. `run` is where
`__run__` is, `pc[c]` where a caller is. The channel `@lock` is the number of its `tokens`; a
section between `@lock.receive` and `@lock.send` that does not block is one step. An exception
is registered by `raise_prim` after the token has been given back, when the thread may be
anywhere, and `strike`s at one of the places in the constant `StrikeAt`.

**ThreadSync.** `Mutex` and `ConditionVariable` as they are in `lib/thread.rb`: a token
channel each, and a private channel for each waiter, queued in `@waiters`. `Mutex#lock` is
split where it tests and sets `@owner`, so that mutual exclusion rests on the token alone.
`Raise` ends a receive by an exception of another thread, with the `ensure` clauses around
it, at the receives in the constant `RaiseAt`. The `ensure` clause of `wait` calls `mutex.lock` and
`@lock.receive` in its turn (`lib/thread.rb:164-165`); `"ensure"` in `RaiseAt` says that exceptions may strike those too. Then
the rest of the clause is skipped: the signal is not passed on, a channel that is still in `@waiters` stays there (`Nobody`), and
line 179 sends a token that was never received. The ghost `struck` records that this has happened.

**ThreadQueue, SizedQueue.** Queue operations call the steps of `ThreadSync`; `job[t]` says what
a thread does when the call returns. `Interrupt` and `SizeInterrupt` leave `push`, `pop` or `max=` by an
exception at a receive of either mutex or condition (`RaiseAt`, `SizeRaiseAt`), for producers and consumers. `Crews` are the sets
of threads a program may have started, `Setters` the producers that call `max=`. `SizedQueue` has a second mutex and condition, which is a
second instance of `ThreadSync` (`Size`). The size of `@que` is read under `@size_mutex` but
changed under `@mutex`, as in the code. `max=` sets `@max` and then fails: it calls
`@sem.broadcast(@size_mutex)`, and `broadcast` takes no argument.

**ObjectMemory.** A cell holds one object with one reference field. `mem` is the contents of both
halves and of the mature space, `root` stands for roots, strong handles, variable buffers and
call frames. A mature collection does not treat them alike: it marks a variable of a variable buffer (`OnStack`) only if its
object is young (`vm/gc/immix.cpp:126`), so `StartMature` chooses which slots are buffered and marks them by that rule. `BufferAlone`
says whether a mature object may be in a buffer and in no other slot. `handle` stands for a weak handle and for what a cache entry refers to. The program
allocates, stores through the write barrier, loads, makes weak references and copies
objects (`Dup`, with its own barrier). A young collection is `StartYoung`, the scans of
remembered objects and roots, the two loops over promoted and copied objects, and `FinishYoung`; a
mature collection marks and sweeps. `id` is a ghost: the identity of an object, kept by copying.

**MethodCache.** Method tables along superclass chains, one global cache slot for each name (so
that entries collide), and a call site that is public or private. A call under the GIL is one step. A
change of a table is two, the store and the reset; other threads run in between. `unreset`
remembers the names that an `include` or a C extension changed without a reset.

The correspondence of every definition to source lines is the `map` of `PROJECT.json`.

## 3. Runs

| run | instance | what holds |
|---|---|---|
| World | 2 Ruby threads, 3 helpers, unbounded stops | collector alone, count exact, no lost wakeup, gate closed, implements `StopTheWorld`; `wait_til_alone()` returns, parked helpers resume |
| Compiler | 2 Ruby threads, 2 requests, 2 forks, 1 collection, 1 failed exec | no lost request or wakeup, collector and compiler never overlap; `pause()` (before a failed exec) and `stop()` return, requests are compiled |
| Channel | 2 receivers, 1 sender, 2 values, 2 interrupts | FIFO, exact count, no stranded value without interrupts; timed receives return; on a private channel interrupts and values get the receiver out |
| Signal | main and 1 other thread, 3 signals, 2 nested deliveries | queued signals keep the flag up and are handled once; the list drains unless main is blocked |
| ThreadLife | 3 callers, 2 raises or kills | every joiner is told and gets what the thread died of; every join returns |
| ThreadSync | 3 threads, 2 interrupts | one owner, signals passed on by waiters that gave up (until an exception strikes the `ensure` clause of a `wait`), a wanted mutex is taken |
| SizedQueue | 2 producers and 1 consumer, or 1 and 2; 3 values, `@max` 2 then 1, 1 interrupt | FIFO without nil, queue within `@max`, every push returns, every value is popped |
| Heap | 2 roots, halves of 2 cells, 2 mature cells, 3 objects | exact remember set, nothing scanned refers to the old half, survivors fit, collections invisible to the program (no mature object held by a variable buffer alone) |
| MethodCache | 2 threads, 2 classes and a mixin, 2 methods | settled names: global cache, call sites, `method_missing` sites and visibility agree with the tables |

Runs that state what a comment or a spec of the repository says, and that TLC refutes
(the texts and lines are under `findings`):

| run | what happens |
|---|---|
| ForkChildLock | a thread takes the GIL in the window before `fork()`; the child can never lock it |
| MutexInterrupted | an exception in the wait of `Mutex#lock` puts back a second token; two threads own the mutex |
| WeakBarrier | a `WeakRef` allocated in the mature space is not remembered; a young collection leaves it dangling |

The models also contain these behaviours. They explain the conditions in the properties
above and are not runs of their own (where a definition is named, TLC gives the
counterexample when it is checked as an invariant):

* `pause()` takes a stale `cIdle` for an idle compiler, and `fork()` copies a compilation in
  progress (`ForkFindsCompilerAtRest` in the Compiler instance);
* a signal between the delivery loop and `clear()` is lost (`NoneDropped`), and the main thread may
  hold `lock_` and want the GIL while another thread holds the GIL and wants `lock_`
  (`NoLockCycle`, both in the Signal instance);
* with two receivers on a channel `Thread#raise` may wake the wrong one (`Private` in
  `InterruptWakes`);
* an exception that strikes the `ensure` clause of `__run__` before the joiners are told forgets
  them (`NoForgottenJoiner` with `"ensure"` in `StrikeAt`); `alive?`, `sleeping?` and a second
  `@lock.receive` in `join` put back a token they did not get in the same way as `Mutex#lock`;
* an exception in the `ensure` clause of `ConditionVariable#wait` loses the signal that the thread received or
  missed (`SignalsKept` without `~struck` has a counterexample in the ThreadSync instance: wait, signal, `wait_signaled`, `Raise`), and leaves
  a second token in the condition's `@lock`. From then on two threads may be in sections of the condition that the model has as one
  step: what follows is a part of the interleavings of the code, and nothing is claimed of the condition any more. The mutex has no part in
  this and `Exclusion` still holds;
* an exception in the `mutex.unlock` of `wait` (`lib/thread.rb:159`) runs the `ensure` clause with the mutex still owned, and its `mutex.lock` waits
  for the thread itself: TLC reports the deadlock when `"wait_unlock"` is added to `RaiseAt`, which is why the run does not have it;
* `max=` with a larger size leaves producers asleep beside the new room (`NoStrandedProducer` with
  `NewMax > InitialMax`); a consumer that is interrupted as it takes the mutex back, after its
  signal has arrived, leaves a value beside other sleeping consumers, and so does a `push` interrupted in `@resource.signal`; a consumer
  interrupted at `@size_mutex.lock`, after `Queue#pop`, wakes no producer; a mutex whose `unlock` is interrupted stays locked. `Drained` and
  `PushReturns` fail in each of these cases, so the run has `RaiseAt = {"lock", "sleep"}` and `SizeRaiseAt = {"sleep"}`; the theorems on order and
  bound allow all of them;
* a mature collection sweeps a mature object that only a variable buffer holds: with `BufferAlone = TRUE` TLC refutes `CollectionInvisible` in four
  states (`NewMature`, `StartMature`, `FinishMature`). `IO::sysread` has such a variable, the string it reads into (`vm/builtin/io.cpp:378`); the
  buffers of `vm/builtin/channel.cpp:98` and `vm/builtin/io.cpp:492` hold `self`, which the frame of the caller has too;
* a reset does not reach a site whose backend tests for a Fixnum or a Symbol and not for
  `klass_` (`ResetIsGlobal` with `Immediate = {sub}`), though `kernel/alpha.rb:56` says "Reset the method
  cache globally for given method name"; `include` resets nothing; a public method under a private
  marker of a subclass is found by public calls once a private call has cached it;
* the branch of `saw_object` that promotes for lack of room is dead code: `SurvivorsFit`;
* after a failed `exec` the compiler is gone; the next `fork` may wait for it for ever
  (`count.execs` in `PauseReturns` and `NoLostPauseSignal`);
* with two receivers, an interrupted one uses up the signal of a value and leaves the value
  behind (`interrupts = 0` in `NoStrandedValue`; `NoValueLeftBehind` needs a private channel);
* an exception registered between the last interrupt check and `receive` is slept through;
* a signal in a trap handler makes the inner `deliver_signals()` clear the list under the
  iterator of the outer one (`undefined`);
* a signal on another thread may run a `Waiter` whose frame is gone (`dangling`), and a signal
  between `install_waiter()` and the wait does not wake the main thread (`asleep` in
  `PendingDrains`);
* `send` is said to hand the value to the first waiter (`kernel/bootstrap/channel.rb:39`); a
  thread that calls `receive` before the woken one gets the GIL takes it.

The comment on `become_independent()`, "always increments pending_threads_ at the end"
(`vm/shared_state.cpp:48`), is wrong: it decrements.

*Bounds.* Three helpers are the smallest number where one parks, one enters and one leaves
during the same stop; two Ruby threads give a collector and a thread that forks or waits for
the GIL. Two requests distinguish order from loss, two forks an old `paused_` from a new one.
Two receivers are needed for a stolen signal. Three signals allow one before, one during and one after a nested delivery. The
bounds on `WorldState` are on threads only: its runs and proofs have no bound on steps.
Three threads are an owner, a woken waiter and a thief of the mutex, or two waiters and a
signaller. The exceptions of ThreadSync strike at every receive but those of MutexInterrupted and the unlock of `wait`; two are needed
for one in the `ensure` clause and one elsewhere. Two producers and a smaller `@max` fill a queue beyond its new size; a third value is
one more than fits; a second consumer may take the value that a woken one comes for, or that one has just seen. Two producers and two
consumers together would take TLC longer than five minutes for the liveness properties, so the threads are one of two crews, each
with the third actor that one of these cases needs. Three objects make a chain from a mature object over a young one to a
third, a cycle, and sharing; two collections promote (`Lifetime` 1). Two threads give two changes
of one name between store and reset; a superclass, a subclass and a mixin give an inherited, a
hidden and a marked method. Symmetry is used in Heap and MethodCache, which check no liveness.
Compiler, Signal, SizedQueue, Heap and MethodCache end when a bound is used up, so deadlock checking is
off there; it is on for World, Channel, ThreadLife and ThreadSync.

*Fairness.* Weak fairness for what a runnable thread does next: the kernel schedules it. Weak
fairness for giving up the GIL: the preemption timer (`VM::scheduler_loop`) makes
`check_interrupts` yield. Strong fairness for a thread that keeps trying to lock the GIL:
`GlobalLock::yield` sleeps before it locks again, so that others get it. Strong fairness for an
expiring timeout: the deadline is absolute. No fairness for asking: nothing makes a thread
collect, fork, send, or raise. In the Ruby libraries weak fairness is for the next step of every thread inside a call;
only `pop` is also called again and again, as the consumers of a queue do (`SizedWork(t) \/ pop_enter(t)`). Weak fairness of
the steps that take a token suffices for what is stated: no thread keeps a token for ever. Block and trap handler are
assumed to end.

*Invariants that no run lists.* `TypeOK` of the modules other than `WorldState`, `NoLostWork` and
`NoLostPauseSignal` of the compiler, `TokenBalance` of `ThreadLife` and `ThreadSync`, and `NoLostUnlock`
hold on the same instances, and are proved (section 4). `NoStrandedItem` and `NoStrandedProducer` hold on the SizedQueue
instance and are not proved yet. All are weaker than, or steps towards, the properties listed.

## 4. Proofs

Every safety property that a passing run checks is a theorem, for every value of the constants that satisfies the
named assumptions, with one exception (`CollectionInvisible`, below). Numbers of threads, values, raises and forks are
arbitrary; the bounds of the runs appear only as constants in `Nat`. Where a module's comment says that the code
misbehaves under some condition, the theorem assumes the condition away by name and no more; the runs of section 3
that expect a violation, and the counterexamples listed after them, show that this is needed.

**WorldStateProofs** (any Ruby threads, any finite set of helpers: `RubyThreadsAssumption`,
`HelpersAssumption`). `TypeCorrect`, `CollectorIsAlone`, `PendingCountsClients`, `NoLostWakeup`;
`GateHolds`, the action property `NoEntryWhileStopping`; `Refinement`: `WorldState` implements
`StopTheWorld`. `CollectorAlone` is not inductive. A collector becomes alone when the count reaches zero, so
the count has to be exact (`PendingIsExact`); exactness depends on there being at most one
collector, which depends on who owns the GIL (`GilOwner`: a thread is inside exactly if it owns
the GIL). Once alone it must stay so: `AloneIsEmpty` says nobody is counted, and `FlagMeansStopper`
that `should_stop_` is set exactly while somebody stops the world, which closes the gate of
`become_dependent()`. The lost-wakeup properties need to know who can be asleep where
(`SleepersInLoops`). `IInv` is their conjunction. Each action changes the set of counted helpers by at most one element;
`CountStep` turns that into arithmetic on `Cardinality`, and is the only place where finiteness
of `Helpers` is used. The refinement follows action by action from `IInv` (`RubyRefines`,
`HelperRefines`): leaving while a stop is requested is `Leave`, a parked helper's return is
`Enter`, everything else is `Stop`, `Alone`, `Restart`, `Fork` or a stutter.

**BackgroundCompilerProofs** (`NoThreadAssumption`, `BoundsAssumption`). `TypeCorrect`, `NeverTogether`
(`CollectorAlone`), `WorkWakes`, `PauseWakes`, `NoRequestLost` (`RequestsKept`), and the action property
`PauseNotStale` (`HandshakeHolds`). `ControlInv` ties the compiler's place to what it has announced
(`Placed`), says what a child can be (`Childhood`: without a compiler there is only the thread that forked), who
can be in `pause()` (`Pausing`) and that a stopped compiler means a thread that keeps the GIL (`Stopping`), so that no other waits in
`pause()` for a compiler that has exited. `PauseNotStale` rests on `Placed`: `paused_` is set only in the pause block, or in
a child that has no compiler. `RequestsKept` is an equation of sequences; `Ordered` says it element by element, which is what
the prover can carry through `Append` and `Tail`.

**ChannelProofs** (any finite set of threads and any receivers among them: `ThreadsAssumption`,
`ReceiversAssumption`, `BoundsAssumption`). `TypeCorrect`, `CountExact` (`WaitersExact`), `Fifo`
(`ExactlyOnceInOrder`), `NothingStranded` (`NoStrandedValue`). The count needs `SleepersWait` (who sleeps is in
the wait of `receive`) and `GilHeld`; order is again proved element by element (`InOrder`). `NoStrandedValue` is
inductive beside these: `send` wakes one sleeper for each value, and without interrupts a woken thread leaves
the wait only with a value or because the list is empty.

**SignalDeliveryProofs** (any other threads, signals and depth: `ThreadsAssumption`, `BoundsAssumption`). `TypeCorrect`, `FlagKept` (`FlagCoversPending`), `AtMostOnce` (`HandledOnce`). `TypeOK`
bounds the iterators of nested `deliver_signals()` calls, so it already needs `Iterators` (an inner call destroys the ones around
it). `HandledOnce` needs `Fresh`: handled signals still on the list are before the iterator, and `Numbered`: a signal is at
one position of the list, or with one thread that was interrupted in `handle_signal()`.

**ThreadLifeProofs** (any callers: `LifeAssumption`). `TypeCorrect`, `TokenKept`, `JoinersServed` (`NoForgottenJoiner`), and the action
property `JoinsTellTruth` (`JoinTruthful`). They assume that no exception strikes the first receive of the `ensure`
clause (a second token), and `JoinersServed` also that none strikes before the joiners are told. `DeathRecorded` says that `@alive` and
`@exception` change with the last `ensure` clause, and `ToldLate` that nobody is told before; with `TokenBalance` a joiner that was
told gets the token only when the thread is dead. `JoinersTold` is what makes `NoForgottenJoiner` inductive.

**ThreadSyncProofs** (any finite set of threads: `SyncAssumption`). `MutualExclusion` (`Exclusion`), `TokenKept`
and `SleeperCovered` (`NoLostUnlock`) assume `RaiseAt \cap {"park", "relock"} = {}`, that no exception strikes the wait of `Mutex#lock`; the run
MutexInterrupted shows what happens otherwise. Exceptions anywhere else, the `ensure` clause of `wait` included, do no harm to the
mutex. `SignalsReach` (`SignalsKept`) has no assumption on `RaiseAt`, but says what it says only up to the first exception inside `wait` other
than in its `receive_timeout`: a waiter that timed out or was interrupted there passes its signal on. `CvInv` is therefore
`struck \/ CvSound`. `Exclusion` follows from the
token (`OneToken`) and what it protects (`OwnerStands`: who is about to take the mutex has seen it free). The queue of the
mutex needs to know that a thread in the wait is queued or woken (`QueueInv`); that of the condition that it has no
thread twice, and who is in it (`WaitersQueued`).

On these rest the theorems about the queues, with the same assumption on `RaiseAt` and, for the bound, on `SizeRaiseAt`: exceptions may strike every
other receive of `push`, `pop` and `max=`, also those that strand values or producers. `QueueIsFifo` (`PoppedInOrder`): a consumer
between `@que.empty?` and `@que.shift` holds `@mutex` (`JobsHeld`), so the value it saw is there, and the order is kept
element by element. `NeverOverfull` (the action property `Bounded`): a producer between its test of the size and its append owns
`@size_mutex` (`RoomHeld`), which keeps other producers and `max=` out, while consumers only make room. `SizeMutexInv` is
`MutexInv` for the second instance of `ThreadSync`.

**ObjectMemoryProofs** (`HeapAssumption`: any slots, objects, sizes and lifetime). All theorems assume `~WeakInMature`, that no `WeakRef` is
allocated in the mature space (the run WeakBarrier shows what happens otherwise), and `~BufferAlone`, that a mature object in a variable buffer is
also in a root that is marked (section 3 names the code that does not keep to this). `TypeCorrect`, `RememberSetExact` (`Remembered`), `NothingLeftBehind`
(`ScannedLeft`), `RoomForSurvivors` (`SurvivorsFit`), `WeakRefsKept` (`WeakRefsValid`) and `NothingDangles`, memory safety: there is a set of
existing objects with all slots and the handle in it that no reference leaves, in every state, so that whatever the program gets at by any number
of loads exists. (`MemorySafe` states reachability by a closed set, which needs no recursion.) The invariant is `HeapInv(G)` for such a
set `G`. During a young collection, `Collecting` says what each list of work is for: mature objects that refer to young ones are remembered, or still in
`todo`, `promoted` or `weak_refs` (`Crossing`), and what is in none of them has left the old half (`Left`); forwarding pointers lead to
copies (`Forwards`); what is left to copy fits (`Room`). A scan is a copy (`CopyKeeps`) and then a store through the barrier
(`FieldKeeps`), two lemmas on arbitrary memory contents, since no state of the model lies between them. When marking starts every slot is marked, the mature objects of buffers through the other slot that holds
them; at its end `Marks` makes the marked set closed.

**MethodCacheProofs** (any threads, classes, superclass chains, names, sites, slots and hash: `CacheAssumption`). `TypeCorrect`, `GlobalCacheCurrent`,
`CallSitesCurrent`, `FailuresCurrent`, `PrivateStaysHidden`, all for settled names. The four are inductive only together
(`CacheInv`): a site is filled from the global cache and the global cache by the lookup. `SameView` says which steps leave the lookup of
a name alone; `include` inserts a table into the chains, and the lookup, a least position on the chain, is followed through the insertion (`MinShift`).

Assumptions that the proofs made explicit: the set of threads is finite and `RaiseAt` names receives (`SyncAssumption`), slots
are no addresses (`HeapAssumption`).

Only model-checked:

* liveness (the prover has no fairness or `ENABLED` reasoning): all the properties with `~>`, `<>` or `[]<>`;
* `CollectionInvisible`: it compares what the program can reach before and after a step, by a recursive function
  on the contents of the heap, and what such a function computes for every input needs induction over data.
  `NothingDangles` and `WeakRefsKept` prove the part of it that says that what is reached is there;
* `NoStrandedItem` and `NoStrandedProducer` (section 6).

## 5. Not modelled

* *Threads.* Exceptions between two operations that do not block (`check_interrupts` may raise at a call or a back branch): those of
  `lib/thread.rb` and `kernel/common/thread.rb` strike at receives. The result of a timed wait for an invalid deadline, which `receive_timeout` never
  computes. `Thread.critical`, groups, priorities, thread-locals and `abort_on_exception`; blocking I/O (its
  `WaitingForSignal` sends a signal instead of signalling a condition); `Queue#clear`, an array
  operation without the mutex; `Semaphore`, mailboxes, actors, `Timeout`, `Monitor` and `Sync`,
  Ruby libraries over the modelled ones. `mutex_` of the compiler is re-initialised in the
  child, so a fork inside a critical section of the compiler is modelled as before or after it.
* *Heap.* Sizes and alignment, the large-object space, blocks, lines and evacuation of Immix (nothing
  ever marks a block for evacuation), finalisation, mark colours (`unmark_all` walks fewer
  roots than the mark phase does, `vm/gc/gc.cpp:298`), conservative details of stack
  scanning. Promoted objects are scanned in any order; the code's rounds are one of them.
* *Dispatch.* `super` sends, redefinition of `method_missing` (a site bound to it keeps the old
  one), `protected` methods (the cache skips the test on a hit), statistics, JIT deoptimisation. `InlineCache::update_and_validate` (`vm/inline_cache.cpp:185-213`), which only the instructions
  `check_serial` and `check_serial_private` call, on caches that no send uses, to compare the serial number of a method with a constant: it sets
  `klass_` before a fill that may fail, after which the next check of that class finds the method of the class before it valid. `set_visibility`
  looks a method up and stores the entry in one step, and `include` searches the chain and changes it in one; a definition by another
  thread in between is not in the model.
* *Everything sequential.* Interpreter, code generation, C API conversions, parser, bytecode
  compiler, core library and the vendored libraries (LLVM, Oniguruma, libtommath, the MRI
  standard library) are the bulk of the repository's lines. They compute without
  shared control state and are covered by the specs under `spec/`; a state machine would say
  nothing about them that a test does not. The mapped lines are therefore a small share of
  the whole repository, and nearly all of its concurrency, collection and cache control.
* The libev event loop, which nothing runs.

## 6. Plan

1. Done: all modules of section 2, and the theorems of section 4.
2. Proofs to come: that a young collection keeps the identity and the contents behind every slot and field, step by step and without
   reachability (the part of `CollectionInvisible` that needs no recursion: every copy has the `id`, `kind` and `ref` of its original);
   `NoStrandedItem` and `NoStrandedProducer` from `CvInv` of both conditions.
3. Refinements: `ThreadSync` without interrupts in `lock` as an implementation of an abstract lock, `SizedQueue` of a
   bounded FIFO, which `QueueIsFifo` and `NeverOverfull` already say in two parts.
4. Mark colours and root walks of `unmark_all`; `Timeout` over `ThreadLife`.
