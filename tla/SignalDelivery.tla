--------------------------- MODULE SignalDelivery ---------------------------
(***************************************************************************)
(* SignalHandler (vm/signal.cpp) and its clients: how a POSIX signal       *)
(* becomes a call of Rubinius.received_signal on the main Ruby thread.     *)
(*                                                                         *)
(* The kernel runs handle_signal() on some thread, between any two         *)
(* instructions of it.  The main thread notices check_local_interrupts at  *)
(* a method entry, a loop or the end of a receive, and deliver_signals()   *)
(* runs the Ruby handlers with lock_ held.  lock_ is recursive: a signal   *)
(* that interrupts the main thread inside deliver_signals() gets through,  *)
(* and Ruby code of a handler may enter deliver_signals() again.           *)
(*                                                                         *)
(* Steps of the main thread are as small as the signals that fall between  *)
(* them demand, also in Channel#receive (vm/builtin/channel.cpp).          *)
(***************************************************************************)
EXTENDS Integers, Sequences

CONSTANTS
    Main,         \* the thread whose VM has run_signals_ set
    Others,       \* other Ruby threads
    NoThread,     \* the GIL is free
    MaxSignals,   \* bound: signals sent to the process
    MaxDepth      \* bound: nested calls of deliver_signals

ASSUME ThreadsAssumption == Main \notin Others /\ NoThread \notin Others \cup {Main}
ASSUME BoundsAssumption == MaxSignals \in Nat /\ MaxDepth \in Nat

VARIABLES
    gil,         \* SharedState::lock_
    main,        \* where the main thread is
    installed,   \* VM::waiter_ of the main thread is set
    used,        \* Waiter::used_ of its receive
    flag,        \* check_local_interrupts of the main thread
    pending,     \* pending_signals_; signals are numbered as they are sent
    frames,      \* the calls of deliver_signals, innermost last, each with its iterator
    stuck,       \* [Others -> 0..MaxSignals], the signal a thread cannot queue yet
    waking,      \* a thread in handle_signal() that has found waiter_ set
    sent,        \* history: how many signals were sent
    handled      \* history: the signals whose Ruby handler was called, in order

otherVars == <<stuck, waking>>
vars == <<gil, main, installed, used, flag, pending, frames, otherVars, sent, handled>>

\* ruby: runs Ruby code, that of a trap handler if frames is not empty.
\* process: in process_async(), flag cleared, lock_ not yet taken.
\* deliver: at the test of the loop.  clear: past the loop.  entering, armed: in
\* receive, before and after install_waiter().  undefined: advanced an iterator
\* whose node is gone.  dangling: another thread ran a Waiter that is gone.
MainStates == {"ruby", "outside", "process", "deliver", "clear", "entering",
               "armed", "asleep", "woken", "undefined", "dangling"}

\* An iterator is a position in the list; 0 if clear() destroyed its node.
TypeOK ==
    /\ gil \in Others \cup {Main, NoThread}
    /\ main \in MainStates
    /\ {installed, used, flag} \subseteq BOOLEAN
    /\ pending \in Seq(1..MaxSignals)
    /\ frames \in Seq(0..MaxSignals + 1)
    /\ stuck \in [Others -> 0..MaxSignals]
    /\ waking \in Others \cup {NoThread}
    /\ sent \in 0..MaxSignals
    /\ handled \in Seq(1..MaxSignals)

Init ==
    /\ gil = Main
    /\ main = "ruby"
    /\ installed = FALSE /\ used = FALSE /\ flag = FALSE
    /\ pending = <<>>
    /\ frames = <<>>
    /\ stuck = [u \in Others |-> 0]
    /\ waking = NoThread
    /\ sent = 0
    /\ handled = <<>>

Depth == Len(frames)
Locked == Depth > 0    \* lock_ is held by the main thread
LockFree == ~Locked /\ waking = NoThread

\* The stack frame of receive, with its Waiter, exists.
InReceive == main \in {"armed", "asleep", "woken"}

-----------------------------------------------------------------------------
(* Signals *)

\* Mutant: the flag goes up only for a thread that is blocked.
mutant_flag_if_blocked(sig) ==
    /\ pending' = Append(pending, sig)
    /\ flag' = (flag \/ installed)
    /\ used' = (used \/ installed)
    /\ installed' = FALSE
    /\ main' = IF installed /\ main = "asleep" THEN "woken" ELSE main

\* handle_signal() on the main thread: wakeup() runs the Waiter, whose signal on
\* the condition reaches only a thread that is asleep.
handle_signal(sig) ==
    /\ pending' = Append(pending, sig)
    /\ flag' = TRUE
    /\ used' = (used \/ installed)
    /\ installed' = FALSE
    /\ main' = IF installed /\ main = "asleep" THEN "woken" ELSE main

\* The kernel picks the main thread, that takes lock_ even if it holds it already.
signal_on_main ==
    /\ sent < MaxSignals
    /\ main \notin {"undefined", "dangling"}
    /\ waking = NoThread
    /\ sent' = sent + 1
    /\ handle_signal(sent + 1)
    /\ UNCHANGED <<gil, frames, otherVars, handled>>

\* handle_signal() on thread u, lock_ taken, up to the test of waiter_ in wakeup():
\* without the GIL nothing keeps the main thread in its receive after the test.
queue_signal(u, sig) ==
    /\ pending' = Append(pending, sig)
    /\ flag' = TRUE
    /\ waking' = IF installed THEN u ELSE NoThread

\* The kernel picks another thread, which waits for lock_ if it must.
signal_on_other(u) ==
    /\ sent < MaxSignals
    /\ stuck[u] = 0 /\ waking # u
    /\ sent' = sent + 1
    /\ \/ LockFree /\ queue_signal(u, sent + 1) /\ UNCHANGED stuck
       \/ /\ ~LockFree
          /\ stuck' = [stuck EXCEPT ![u] = sent + 1]
          /\ UNCHANGED <<pending, flag, waking>>
    /\ UNCHANGED <<gil, main, installed, used, frames, handled>>

get_lock(u) ==
    /\ stuck[u] # 0
    /\ LockFree
    /\ queue_signal(u, stuck[u])
    /\ stuck' = [stuck EXCEPT ![u] = 0]
    /\ UNCHANGED <<gil, main, installed, used, frames, sent, handled>>

\* The rest of wakeup(): waiter_->run(); waiter_ = NULL.
run_waiter(u) ==
    /\ waking = u
    /\ waking' = NoThread
    /\ installed' = FALSE
    /\ used' = (used \/ InReceive)
    /\ main' = IF ~InReceive THEN "dangling"
               ELSE IF main = "asleep" THEN "woken" ELSE main
    /\ UNCHANGED <<gil, flag, pending, frames, stuck, sent, handled>>

-----------------------------------------------------------------------------
(* The main thread *)

\* VM::process_async()
process_async ==
    /\ main = "ruby"
    /\ flag
    /\ Depth < MaxDepth
    /\ flag' = FALSE
    /\ main' = "process"
    /\ UNCHANGED <<gil, installed, used, pending, frames, otherVars, sent, handled>>

deliver_signals ==
    /\ main = "process"
    /\ waking = NoThread
    /\ frames' = Append(frames, 1)
    /\ main' = "deliver"
    /\ UNCHANGED <<gil, installed, used, flag, pending, otherVars, sent, handled>>

\* One turn of the loop calls the Ruby handler, or the loop ends.
deliver_next ==
    /\ main = "deliver"
    /\ \/ /\ frames[Depth] <= Len(pending)
          /\ handled' = Append(handled, pending[frames[Depth]])
          /\ main' = "ruby"
       \/ /\ frames[Depth] > Len(pending)
          /\ main' = "clear"
          /\ UNCHANGED handled
    /\ UNCHANGED <<gil, installed, used, flag, pending, frames, otherVars, sent>>

\* The Ruby handler returns, normally or with an exception, and i++ follows.
handler_returns ==
    /\ main = "ruby"
    /\ Locked
    /\ \/ /\ frames[Depth] = 0
          /\ main' = "undefined"
          /\ UNCHANGED frames
       \/ /\ frames[Depth] # 0
          /\ main' = "deliver"
          /\ frames' = [frames EXCEPT ![Depth] = @ + 1]
    /\ UNCHANGED <<gil, installed, used, flag, pending, otherVars, sent, handled>>

\* Mutant: the list is not cleared.
mutant_keep_pending ==
    /\ main = "clear"
    /\ frames' = [d \in 1..Depth - 1 |-> 0]
    /\ main' = "ruby"
    /\ UNCHANGED <<gil, installed, used, flag, pending, otherVars, sent, handled>>

\* pending_signals_.clear(); the guard releases lock_.  The iterators of the
\* calls around this one pointed into the list.
clear_pending ==
    /\ main = "clear"
    /\ pending' = <<>>
    /\ frames' = [d \in 1..Depth - 1 |-> 0]
    /\ main' = "ruby"
    /\ UNCHANGED <<gil, installed, used, flag, otherVars, sent, handled>>

\* The timer, Thread.pass or a blocking call.
Unlock ==
    /\ main = "ruby"
    /\ gil' = NoThread
    /\ main' = "outside"
    /\ UNCHANGED <<installed, used, flag, pending, frames, otherVars, sent, handled>>

Lock ==
    /\ main = "outside"
    /\ gil = NoThread
    /\ gil' = Main
    /\ main' = "ruby"
    /\ UNCHANGED <<installed, used, flag, pending, frames, otherVars, sent, handled>>

\* Channel#receive has found the channel empty.
receive ==
    /\ main = "ruby"
    /\ main' = "entering"
    /\ UNCHANGED <<gil, installed, used, flag, pending, frames, otherVars, sent, handled>>

install_waiter ==
    /\ main = "entering"
    /\ installed' = TRUE
    /\ used' = FALSE
    /\ main' = "armed"
    /\ UNCHANGED <<gil, flag, pending, frames, otherVars, sent, handled>>

wait ==
    /\ main = "armed"
    /\ gil' = NoThread
    /\ main' = "asleep"
    /\ UNCHANGED <<installed, used, flag, pending, frames, otherVars, sent, handled>>

\* pthread_cond_wait returns although nobody signalled; with neither a value nor
\* used_ set the loop would only wait again.
spurious_wakeup ==
    /\ main = "asleep"
    /\ used
    /\ main' = "woken"
    /\ UNCHANGED <<gil, installed, used, flag, pending, frames, otherVars, sent, handled>>

\* The end of the loop; check_async() follows when main is back in Ruby code.
wait_returns ==
    /\ main = "woken"
    /\ gil = NoThread
    /\ gil' = Main
    /\ installed' = FALSE
    /\ main' = "ruby"
    /\ UNCHANGED <<used, flag, pending, frames, otherVars, sent, handled>>

-----------------------------------------------------------------------------
(* Other threads; a thread stuck in handle_signal() does nothing else *)

OtherLock(u) ==
    /\ gil = NoThread
    /\ stuck[u] = 0 /\ waking # u
    /\ gil' = u
    /\ UNCHANGED <<main, installed, used, flag, pending, frames, otherVars, sent, handled>>

OtherUnlock(u) ==
    /\ gil = u
    /\ stuck[u] = 0 /\ waking # u
    /\ gil' = NoThread
    /\ UNCHANGED <<main, installed, used, flag, pending, frames, otherVars, sent, handled>>

\* Channel#send to the channel the main thread waits on.
send(u) ==
    /\ gil = u
    /\ stuck[u] = 0 /\ waking # u
    /\ main = "asleep"
    /\ main' = "woken"
    /\ UNCHANGED <<gil, installed, used, flag, pending, frames, otherVars, sent, handled>>

-----------------------------------------------------------------------------
MainStep ==
    \/ process_async \/ deliver_signals \/ deliver_next \/ handler_returns \/ clear_pending
    \/ Unlock \/ receive \/ install_waiter \/ wait

Next ==
    \/ signal_on_main
    \/ MainStep \/ Lock \/ spurious_wakeup \/ wait_returns
    \/ \E u \in Others : \/ signal_on_other(u) \/ get_lock(u) \/ run_waiter(u)
                         \/ OtherLock(u) \/ OtherUnlock(u) \/ send(u)

Spec == Init /\ [][Next]_vars

\* Runnable threads run, Ruby code gets to a place that looks at the flag, trap
\* handlers return, other threads give up the GIL, and whoever keeps trying to
\* lock the GIL gets it.  Nobody has to send to the channel.
Fairness ==
    /\ WF_vars(MainStep) /\ SF_vars(Lock) /\ SF_vars(wait_returns)
    /\ SF_vars(process_async) /\ SF_vars(handler_returns)
    /\ \A u \in Others : /\ WF_vars(OtherUnlock(u)) /\ WF_vars(run_waiter(u))
                         /\ SF_vars(get_lock(u))

FairSpec == Spec /\ Fairness

-----------------------------------------------------------------------------
(* Properties *)

Numbers(s) == {s[i] : i \in DOMAIN s}
Queued == Numbers(pending) \cup ({stuck[u] : u \in Others} \ {0})

\* A queued signal is never forgotten: outside of deliver_signals() the flag that
\* makes the main thread look at the list is up (or just being acted upon).
FlagCoversPending ==
    pending # <<>> /\ ~Locked => flag \/ main \in {"process", "dangling"}

\* Each signal's handler is called at most once, unless a signal interrupts a
\* handler and that handler's Ruby code enters deliver_signals() again.
HandledOnce ==
    Depth <= 1 /\ (\A d \in 1..Depth : frames[d] # 0) =>
        \A i, j \in DOMAIN handled : i # j => handled[i] # handled[j]

\* The main thread holds lock_ and wants the GIL back from a thread that holds
\* the GIL and wants lock_.
LockCycle ==
    Locked /\ main \in {"outside", "woken"} /\ \E u \in Others : gil = u /\ stuck[u] # 0

\* The list is emptied in the end, whatever signals come in between, unless the
\* main thread sleeps in a receive or cannot go on at all.
PendingDrains ==
    pending # <<>> ~> \/ pending = <<>>
                      \/ main \in {"asleep", "undefined", "dangling"}
                      \/ LockCycle

\* signal.cpp: "We run all handlers": no signal is taken off the list unhandled.
NoneDropped == \A s \in 1..sent : s \in Numbers(handled) \cup Queued

\* signal.cpp: "We run all handlers": the main thread never gets stuck between
\* two of them, waiting for the GIL with lock_ held.
NoLockCycle == ~LockCycle
=============================================================================
