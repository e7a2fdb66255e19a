------------------------------ MODULE Channel ------------------------------
(***************************************************************************)
(* Rubinius::Channel (vm/builtin/channel.cpp), the primitive under every   *)
(* blocking operation of Ruby code: Thread#join, sleep, Mutex, Queue.      *)
(*                                                                         *)
(* A channel is a list of values and a condition variable whose mutex is   *)
(* the GIL: a receiver that finds the list empty waits, giving up the GIL. *)
(* Thread#wakeup and Thread#raise reach a blocked thread through the       *)
(* Waiter it installed in its VM (vm/vm.cpp, vm/native_thread.hpp), which  *)
(* signals that same condition variable.                                   *)
(*                                                                         *)
(* An action is what a thread does between taking and giving up the GIL.   *)
(***************************************************************************)
EXTENDS Integers, Sequences, FiniteSets

CONSTANTS
    Threads,         \* Ruby threads that use the channel
    Receivers,       \* the threads that call receive
    NoThread,        \* the GIL is free
    MaxSends,        \* bound: values sent
    MaxInterrupts    \* bound: calls of Thread#wakeup and Thread#raise

ASSUME ThreadsAssumption == IsFiniteSet(Threads) /\ NoThread \notin Threads
ASSUME ReceiversAssumption == Receivers \subseteq Threads
ASSUME BoundsAssumption == MaxSends \in Nat /\ MaxInterrupts \in Nat

VARIABLES
    gil,           \* SharedState::lock_
    where,         \* where each thread is
    timed,         \* use_timed_wait of the receive each thread is in
    asleep,        \* threads in the wait set of condition_
    value,         \* value_
    waiters,       \* waiters_
    installed,     \* threads whose VM::waiter_ is set
    used,          \* Waiter::used_ of the receive each thread is in
    raised,        \* threads with an exception registered by Thread#raise
    interrupts,    \* history: how many interrupts were sent
    sent,          \* history: how many values were sent; the i-th is i
    received       \* history: the values received, in order

threadVars  == <<gil, where, timed, asleep>>
waiterVars  == <<installed, used, raised>>
historyVars == <<interrupts, sent, received>>
vars == <<threadVars, value, waiters, waiterVars, historyVars>>

\* outside: without the GIL, not in receive.  running: with it.  waiting: in the
\* loop of receive_timeout.  expired: its wait returned cTimedOut.
Places == {"outside", "running", "waiting", "expired"}

InReceive == {t \in Threads : where[t] \in {"waiting", "expired"}}

TypeOK ==
    /\ gil \in Threads \cup {NoThread}
    /\ where \in [Threads -> Places]
    /\ timed \in [Threads -> BOOLEAN]
    /\ asleep \in SUBSET Threads
    /\ value \in Seq(Nat)
    /\ waiters \in Nat
    /\ installed \in SUBSET Threads
    /\ used \in [Threads -> BOOLEAN]
    /\ raised \in SUBSET Threads
    /\ interrupts \in Nat
    /\ sent \in Nat
    /\ received \in Seq(Nat)

\* Channel::create
Init ==
    /\ gil = NoThread
    /\ where = [t \in Threads |-> "outside"]
    /\ timed = [t \in Threads |-> FALSE]
    /\ asleep = {}
    /\ value = <<>>
    /\ waiters = 0
    /\ installed = {}
    /\ used = [t \in Threads |-> FALSE]
    /\ raised = {}
    /\ interrupts = 0
    /\ sent = 0
    /\ received = <<>>

Goto(t, place) == where' = [where EXCEPT ![t] = place]

\* condition_.signal(): some sleeper leaves the wait set, not necessarily the first.
Signal ==
    IF asleep = {}
    THEN asleep' = {}
    ELSE \E t \in asleep : asleep' = asleep \ {t}

Shift ==
    /\ received' = Append(received, Head(value))
    /\ value' = Tail(value)

-----------------------------------------------------------------------------
Lock(t) ==
    /\ gil = NoThread
    /\ where[t] = "outside"
    /\ gil' = t
    /\ Goto(t, "running")
    /\ UNCHANGED <<timed, asleep, value, waiters, waiterVars, historyVars>>

Unlock(t) ==
    /\ where[t] = "running"
    /\ gil' = NoThread
    /\ Goto(t, "outside")
    /\ UNCHANGED <<timed, asleep, value, waiters, waiterVars, historyVars>>

\* Mutant: only the first value of a non-empty list is signalled.
mutant_signal_first_only(t) ==
    /\ where[t] = "running"
    /\ sent < MaxSends
    /\ sent' = sent + 1
    /\ value' = Append(value, sent + 1)
    /\ IF waiters > 0 /\ value = <<>> THEN Signal ELSE UNCHANGED asleep
    /\ UNCHANGED <<gil, where, timed, waiters, waiterVars, interrupts, received>>

\* Mutant: no signal.
mutant_send_silently(t) ==
    /\ where[t] = "running"
    /\ sent < MaxSends
    /\ sent' = sent + 1
    /\ value' = Append(value, sent + 1)
    /\ UNCHANGED <<threadVars, waiters, waiterVars, interrupts, received>>

send(t) ==
    /\ where[t] = "running"
    /\ sent < MaxSends
    /\ sent' = sent + 1
    /\ value' = Append(value, sent + 1)
    /\ IF waiters > 0 THEN Signal ELSE UNCHANGED asleep
    /\ UNCHANGED <<gil, where, timed, waiters, waiterVars, interrupts, received>>

\* try_receive, and receive_timeout when there is a value.
receive_now(t) ==
    /\ where[t] = "running"
    /\ t \in Receivers
    /\ value # <<>>
    /\ Shift
    /\ UNCHANGED <<threadVars, waiters, waiterVars, interrupts, sent>>

\* receive_timeout on an empty channel, up to its first wait.
receive_wait(t) ==
    /\ where[t] = "running"
    /\ t \in Receivers
    /\ value = <<>>
    /\ installed' = installed \cup {t}
    /\ used' = [used EXCEPT ![t] = FALSE]
    /\ waiters' = waiters + 1
    /\ \E use_timed_wait \in BOOLEAN : timed' = [timed EXCEPT ![t] = use_timed_wait]
    /\ Goto(t, "waiting")
    /\ asleep' = asleep \cup {t}
    /\ gil' = NoThread
    /\ UNCHANGED <<value, raised, historyVars>>

\* The wait of the loop returns and neither reason to stop waiting holds.
wait_again(t) ==
    /\ where[t] = "waiting"
    /\ t \notin asleep
    /\ gil = NoThread
    /\ ~used[t]
    /\ value = <<>>
    /\ asleep' = asleep \cup {t}
    /\ UNCHANGED <<gil, where, timed, value, waiters, waiterVars, historyVars>>

\* Mutant: the loop goes on after cTimedOut.
mutant_ignore_timeout(t) ==
    /\ timed[t]
    /\ t \in asleep
    /\ asleep' = asleep \ {t}
    /\ UNCHANGED <<gil, where, timed, value, waiters, waiterVars, historyVars>>

\* The third result of wait_until, for a deadline that is no valid time, cannot
\* occur: receive_timeout normalises it.
timeout(t) ==
    /\ timed[t]
    /\ t \in asleep
    /\ asleep' = asleep \ {t}
    /\ Goto(t, "expired")
    /\ UNCHANGED <<gil, timed, value, waiters, waiterVars, historyVars>>

\* Who may leave the loop of receive_timeout.
Finished(t) ==
    /\ gil = NoThread
    /\ t \notin asleep
    /\ \/ where[t] = "expired"
       \/ where[t] = "waiting" /\ (used[t] \/ value # <<>>)

\* Mutant: the value is shifted before check_async() may return NULL.
mutant_shift_first(t) ==
    /\ Finished(t)
    /\ gil' = t
    /\ Goto(t, "running")
    /\ waiters' = waiters - 1
    /\ installed' = installed \ {t}
    /\ raised' = raised \ {t}
    /\ value' = IF value = <<>> THEN value ELSE Tail(value)
    /\ received' = IF value = <<>> \/ t \in raised THEN received
                   ELSE Append(received, Head(value))
    /\ UNCHANGED <<timed, asleep, used, interrupts, sent>>

\* Mutant: an interrupted receive returns before waiters_--.
mutant_count_leak(t) ==
    /\ Finished(t)
    /\ gil' = t
    /\ Goto(t, "running")
    /\ waiters' = IF t \in raised THEN waiters ELSE waiters - 1
    /\ installed' = installed \ {t}
    /\ raised' = raised \ {t}
    /\ IF t \in raised \/ value = <<>> THEN UNCHANGED <<value, received>> ELSE Shift
    /\ UNCHANGED <<timed, asleep, used, interrupts, sent>>

\* The loop is left and receive_timeout returns: NULL if check_async() finds an
\* exception (the value, if any, stays), otherwise the first value or nil.
receive_end(t) ==
    /\ Finished(t)
    /\ gil' = t
    /\ Goto(t, "running")
    /\ waiters' = waiters - 1
    /\ installed' = installed \ {t}
    /\ raised' = raised \ {t}
    /\ IF t \in raised \/ value = <<>> THEN UNCHANGED <<value, received>> ELSE Shift
    /\ UNCHANGED <<timed, asleep, used, interrupts, sent>>

\* Mutant: Waiter::run() sets used_ and does not call wakeup().
mutant_wake_silently(u) ==
    IF u \in installed
    THEN /\ used' = [used EXCEPT ![u] = TRUE]
         /\ installed' = installed \ {u}
         /\ UNCHANGED asleep
    ELSE UNCHANGED <<used, installed, asleep>>

\* VM::wakeup() of thread u: run the Waiter, once.
Wake(u) ==
    IF u \in installed
    THEN /\ used' = [used EXCEPT ![u] = TRUE]
         /\ installed' = installed \ {u}
         /\ Signal
    ELSE UNCHANGED <<used, installed, asleep>>

Interrupt ==
    /\ interrupts < MaxInterrupts
    /\ interrupts' = interrupts + 1

\* Thread#wakeup
wakeup(t, u) ==
    /\ where[t] = "running"
    /\ Interrupt
    /\ Wake(u)
    /\ UNCHANGED <<gil, where, timed, value, waiters, raised, sent, received>>

\* Thread#raise: register_raise(), then wakeup.
raise(t, u) ==
    /\ where[t] = "running"
    /\ Interrupt
    /\ raised' = raised \cup {u}
    /\ Wake(u)
    /\ UNCHANGED <<gil, where, timed, value, waiters, sent, received>>

\* A running thread meets its exception at the next check_interrupts.
check_interrupts(t) ==
    /\ where[t] = "running"
    /\ t \in raised
    /\ raised' = raised \ {t}
    /\ UNCHANGED <<threadVars, value, waiters, installed, used, historyVars>>

spurious_wakeup ==
    /\ \E t \in asleep : asleep' = asleep \ {t}
    /\ UNCHANGED <<gil, where, timed, value, waiters, waiterVars, historyVars>>

Step(t) ==
    \/ Lock(t) \/ Unlock(t) \/ check_interrupts(t)
    \/ send(t) \/ receive_now(t) \/ receive_wait(t)
    \/ wait_again(t) \/ timeout(t) \/ receive_end(t)
    \/ \E u \in Threads \ {t} : wakeup(t, u) \/ raise(t, u)

Next == spurious_wakeup \/ \E t \in Threads : Step(t)

Spec == Init /\ [][Next]_vars

\* A running thread gives up the GIL at the next timer tick.  A deadline is an
\* absolute time, so it passes however often the wait returns early.  A thread
\* whose wait has returned gets the GIL in the end.
Fairness ==
    \A t \in Threads :
        /\ WF_vars(Unlock(t)) /\ WF_vars(check_interrupts(t)) /\ SF_vars(timeout(t))
        /\ SF_vars(wait_again(t)) /\ SF_vars(receive_end(t))

FairSpec == Spec /\ Fairness

-----------------------------------------------------------------------------
(* Properties *)

\* Threads whose wait has returned and that are about to test the list.
Woken == InReceive \ asleep

\* The channel is a FIFO that neither loses nor repeats a value, also when a
\* receiver is interrupted, times out, or finds its value taken.
ExactlyOnceInOrder ==
    received \o value = [i \in 1..sent |-> i]

\* waiters_ counts the threads in the wait, on every way out of the loop: send
\* signals only if it is positive, and has_readers_p reports it.
WaitersExact == waiters = Cardinality(InReceive)

\* As long as nobody is interrupted, a value never lies in the channel with a
\* receiver asleep and not enough threads on their way to fetch it.
NoStrandedValue ==
    interrupts = 0 /\ asleep # {} => Len(value) <= Cardinality(Woken)

\* A receive with a timeout returns, sends, interrupts and the other receivers
\* notwithstanding.
TimedReceiveReturns ==
    \A t \in Threads : t \in InReceive /\ timed[t] ~> t \notin InReceive

\* In the whole history nobody else waits on the channel of t, as with the private
\* channels that Thread#join, Mutex#lock and sleep wait on.
Private(t) == [](InReceive \subseteq {t})

\* Thread#raise and Thread#wakeup get a thread blocked on a private channel out of
\* receive.
InterruptWakes ==
    \A t \in Threads : Private(t) =>
        (t \in InReceive /\ used[t] ~> t \notin InReceive)

\* kernel/bootstrap/channel.rb, class comment: the sleeping thread is woken when
\* a value is sent.  Stated for a private channel and every history, interrupts
\* included.
NoValueLeftBehind ==
    \A t \in Threads : Private(t) =>
        (value # <<>> /\ t \in InReceive ~> value = <<>> \/ t \notin InReceive)
=============================================================================
