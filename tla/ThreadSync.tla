----------------------------- MODULE ThreadSync -----------------------------
(* Mutex and ConditionVariable of lib/thread.rb, written in Ruby over         *)
(* Channels: the channel @lock holds one token, which a thread receives to    *)
(* enter the object's internal section and sends back to leave it; a waiting  *)
(* thread receives on a channel of its own that is queued in @waiters.        *)
(* The global lock may change hands anywhere between two Ruby operations. A   *)
(* section that never tests and then sets is one step, taken if a token is    *)
(* there; the section of Mutex#lock is several.                               *)
EXTENDS Naturals, FiniteSets, SequencesExt

CONSTANTS Threads,
          Waiters,       \* the threads that call ConditionVariable#wait
          Nobody,        \* no owner; in @waiters, a channel nobody receives on
          RaiseAt,       \* the receives at which Thread#raise may strike, and "ensure" if it may
                         \* strike those that wait's ensure clause calls
          MaxRaises      \* bound: exceptions raised

Receives == {"lock", "park", "relock", "unlock", "wait", "wait_unlock", "sleep", "wait_relock", "signal", "broadcast"}
ASSUME SyncAssumption == /\ IsFiniteSet(Threads) /\ Waiters \subseteq Threads /\ Nobody \notin Threads
                         /\ RaiseAt \subseteq Receives \cup {"ensure"} /\ MaxRaises \in Nat

VARIABLES pc,            \* the next step of every thread
          holding,       \* the threads whose Mutex#lock, try_lock or wait returned with the mutex
          tokens,        \* Mutex: values in @lock
          owner,         \* Mutex: @owner
          queue,         \* Mutex: @waiters
          woken,         \* threads whose channel of Mutex#lock holds a value
          cvtokens,      \* ConditionVariable: values in @lock
          cvqueue,       \* ConditionVariable: @waiters
          sent,          \* threads whose channel of wait holds true
          signaled,      \* threads in wait with signaled = true
          waiting,       \* threads between the start and the end of wait
          raises,        \* exceptions raised so far
          owed,          \* ghost: signals that took a waiter off the queue and are still to be received
          struck         \* ghost: an exception has struck inside wait, outside of its receive_timeout
mutex == <<tokens, owner, queue, woken>>
cv    == <<cvtokens, cvqueue, sent, signaled, waiting, owed, struck>>
vars  == <<pc, holding, mutex, cv, raises>>

Steps == {"out", "lock", "test", "take", "park", "relock", "unlock",
          "wait", "wait_unlock", "sleep", "wait_relock", "signal", "broadcast"}
Goto(t, step) == pc' = [pc EXCEPT ![t] = step]

(* Types. *)
TypeOK ==
  /\ pc \in [Threads -> Steps] /\ holding \subseteq Threads
  /\ tokens \in 0..(1 + MaxRaises) /\ owner \in Threads \cup {Nobody}
  /\ queue \in Seq(Threads \cup {Nobody}) /\ woken \subseteq Threads
  /\ cvtokens \in 0..(1 + MaxRaises) /\ cvqueue \in Seq(Threads \cup {Nobody})
  /\ \A i, j \in DOMAIN cvqueue : cvqueue[i] = cvqueue[j] => i = j \/ cvqueue[i] = Nobody
  /\ sent \subseteq Threads /\ signaled \subseteq waiting /\ waiting \subseteq Waiters
  /\ raises \in 0..MaxRaises /\ struck \in BOOLEAN /\ (~struck => owed \in 0..Cardinality(Waiters))

Init ==
  /\ pc = [t \in Threads |-> "out"] /\ holding = {} /\ raises = 0
  /\ tokens = 1 /\ owner = Nobody /\ queue = << >> /\ woken = {}
  /\ cvtokens = 1 /\ cvqueue = << >> /\ sent = {} /\ signaled = {} /\ waiting = {} /\ owed = 0 /\ struck = FALSE

(* The program: what a thread may call, outside of any call. *)
Call(t) ==
  /\ pc[t] = "out"
  /\ \E op \in {"signal", "broadcast"} \cup (IF t \in holding THEN {"unlock"} ELSE {"lock"})
              \cup (IF t \in holding \cap Waiters THEN {"wait"} ELSE {}) : Goto(t, op)
  /\ UNCHANGED <<holding, mutex, cv, raises>>

-----------------------------------------------------------------------------
(* Mutex.                                                                     *)

try_lock(t) ==
  /\ pc[t] = "out" /\ t \notin holding /\ tokens > 0 /\ owner = Nobody
  /\ owner' = t /\ holding' = holding \cup {t}
  /\ UNCHANGED <<pc, tokens, queue, woken, cv, raises>>

(* @lock.receive, on entry and again after the wait *)
lock_receive(t) ==
  /\ pc[t] \in {"lock", "relock"} /\ tokens > 0
  /\ tokens' = tokens - 1 /\ Goto(t, "test")
  /\ UNCHANGED <<holding, owner, queue, woken, cv, raises>>

(* while @owner: queue a new channel, put the token back *)
lock_test(t) ==
  /\ pc[t] = "test"
  /\ IF owner = Nobody
     THEN Goto(t, "take") /\ UNCHANGED <<queue, tokens>>
     ELSE Goto(t, "park") /\ queue' = Append(queue, t) /\ tokens' = tokens + 1
  /\ UNCHANGED <<holding, owner, woken, cv, raises>>

mutant_no_recheck(t) ==
  /\ pc[t] = "park" /\ t \in woken /\ tokens > 0
  /\ tokens' = tokens - 1 /\ woken' = woken \ {t} /\ Goto(t, "take")
  /\ UNCHANGED <<holding, owner, queue, cv, raises>>
lock_park(t) ==
  /\ pc[t] = "park" /\ t \in woken
  /\ woken' = woken \ {t} /\ Goto(t, "relock")
  /\ UNCHANGED <<holding, tokens, owner, queue, cv, raises>>

(* the end of lock; in wait it is followed by @lock.receive of the condition *)
lock_take(t) ==
  /\ pc[t] = "take"
  /\ owner' = t /\ tokens' = tokens + 1
  /\ IF t \in waiting THEN Goto(t, "wait_relock") /\ UNCHANGED holding
     ELSE Goto(t, "out") /\ holding' = holding \cup {t}
  /\ UNCHANGED <<queue, woken, cv, raises>>

mutant_release_silently ==
  /\ owner' = Nobody /\ UNCHANGED <<queue, woken>>
Release == /\ owner' = Nobody
           /\ queue' = IF queue = << >> THEN queue ELSE Tail(queue)
           /\ woken' = IF queue = << >> THEN woken ELSE woken \cup ({Head(queue)} \ {Nobody})

unlock(t) ==
  /\ pc[t] = "unlock" /\ tokens > 0 /\ owner = t
  /\ Release /\ holding' = holding \ {t} /\ Goto(t, "out")
  /\ UNCHANGED <<tokens, cv, raises>>

-----------------------------------------------------------------------------
(* ConditionVariable.                                                         *)

wait(t) ==
  /\ pc[t] = "wait" /\ cvtokens > 0
  /\ cvtokens' = cvtokens - 1 /\ waiting' = waiting \cup {t} /\ Goto(t, "wait_unlock")
  /\ UNCHANGED <<holding, mutex, cvqueue, sent, signaled, owed, struck, raises>>

(* mutex.unlock; the channel is queued before the token goes back *)
wait_unlock(t) ==
  /\ pc[t] = "wait_unlock" /\ tokens > 0 /\ owner = t
  /\ Release /\ holding' = holding \ {t}
  /\ cvqueue' = Append(cvqueue, t) /\ cvtokens' = cvtokens + 1 /\ Goto(t, "sleep")
  /\ UNCHANGED <<tokens, sent, signaled, waiting, owed, struck, raises>>

(* wchan.receive_timeout returns true *)
wait_signaled(t) ==
  /\ pc[t] = "sleep" /\ t \in sent
  /\ signaled' = signaled \cup {t} /\ sent' = sent \ {t} /\ Goto(t, "lock")
  /\ UNCHANGED <<holding, mutex, cvtokens, cvqueue, waiting, owed, struck, raises>>

(* it returns nil, for a wait with a timeout *)
wait_timeout(t) ==
  /\ pc[t] = "sleep" /\ Goto(t, "lock")
  /\ UNCHANGED <<holding, mutex, cv, raises>>

(* the ensure clause, after mutex.lock: a timed-out thread that is no longer  *)
(* in @waiters has been signalled since, and passes the signal on             *)
mutant_signal_dropped(t) ==
  /\ pc[t] = "wait_relock" /\ cvtokens > 0
  /\ cvqueue' = SelectSeq(cvqueue, LAMBDA u : u # t) /\ sent' = sent \ {t}
  /\ owed' = IF t \in signaled \/ (t \notin ToSet(cvqueue) /\ cvqueue = << >>) THEN owed - 1 ELSE owed
  /\ signaled' = signaled \ {t} /\ waiting' = waiting \ {t}
  /\ holding' = holding \cup {t} /\ Goto(t, "out")
  /\ UNCHANGED <<mutex, cvtokens, struck, raises>>
wait_relock(t) ==
  /\ pc[t] = "wait_relock" /\ cvtokens > 0
  /\ LET late == t \notin signaled /\ t \notin ToSet(cvqueue)
     IN  /\ cvqueue' = IF t \in signaled THEN cvqueue
                       ELSE IF late THEN SubSeq(cvqueue, 2, Len(cvqueue)) ELSE RemoveFirst(cvqueue, t)
         /\ sent' = (sent \ {t}) \cup (IF late /\ cvqueue # << >> THEN {Head(cvqueue)} \ {Nobody} ELSE {})
         /\ owed' = IF t \in signaled \/ (late /\ cvqueue = << >>) THEN owed - 1 ELSE owed
  /\ signaled' = signaled \ {t} /\ waiting' = waiting \ {t}
  /\ holding' = holding \cup {t} /\ Goto(t, "out")
  /\ UNCHANGED <<mutex, cvtokens, struck, raises>>

(* signal and broadcast: the first n channels of @waiters get true *)
Notify(t, n) ==
  /\ cvtokens > 0 /\ owed' = owed + n /\ Goto(t, "out")
  /\ cvqueue' = SubSeq(cvqueue, n + 1, Len(cvqueue)) /\ sent' = sent \cup (ToSet(SubSeq(cvqueue, 1, n)) \ {Nobody})
  /\ UNCHANGED <<holding, mutex, cvtokens, signaled, waiting, struck, raises>>
signal(t)    == pc[t] = "signal" /\ Notify(t, IF cvqueue = << >> THEN 0 ELSE 1)
broadcast(t) == pc[t] = "broadcast" /\ Notify(t, Len(cvqueue))

-----------------------------------------------------------------------------
(* An exception raised by another thread ends a blocking receive, with the    *)
(* ensure clauses around it: nothing at the first receive of a method, a      *)
(* token at the last two of lock. The wait of wait goes on as after a         *)
(* timeout, its unlock with a lock of the mutex that is still owned.          *)
(* The ensure clause of wait is not protected in its turn: struck in its own  *)
(* mutex.lock or @lock.receive, it is cut short. The signal that the thread   *)
(* received or missed is not passed on, its channel stays in @waiters if it   *)
(* was there, and the outer ensure sends a token that was not received. From  *)
(* then on two threads may be in sections of the condition that are one step  *)
(* here; the mutex has no part in that.                                       *)
InEnsure(t) == t \in waiting /\ pc[t] \notin {"wait_unlock", "sleep"}
Raise(t) ==
  /\ raises < MaxRaises /\ pc[t] \in RaiseAt /\ raises' = raises + 1
  /\ Goto(t, IF pc[t] \in {"wait_unlock", "sleep"} THEN "lock" ELSE "out")
  /\ tokens' = IF pc[t] \in {"park", "relock"} THEN tokens + 1 ELSE tokens
  /\ queue' = [i \in DOMAIN queue |-> IF pc[t] = "park" /\ queue[i] = t THEN Nobody ELSE queue[i]]
  /\ woken' = woken \ {t}
  /\ \/ ~InEnsure(t) /\ UNCHANGED <<cvtokens, cvqueue, sent, signaled, waiting, holding>>
     \/ /\ InEnsure(t) /\ "ensure" \in RaiseAt
        /\ cvtokens' = cvtokens + 1
        /\ cvqueue' = [i \in DOMAIN cvqueue |-> IF cvqueue[i] = t THEN Nobody ELSE cvqueue[i]]
        /\ sent' = sent \ {t} /\ signaled' = signaled \ {t} /\ waiting' = waiting \ {t}
        /\ holding' = IF pc[t] = "wait_relock" THEN holding \cup {t} ELSE holding
  /\ struck' = (struck \/ (t \in waiting /\ pc[t] # "sleep"))
  /\ UNCHANGED <<owner, owed>>

Step(t) == \/ lock_receive(t) \/ lock_test(t) \/ lock_park(t) \/ lock_take(t) \/ unlock(t)
           \/ wait(t) \/ wait_unlock(t) \/ wait_signaled(t) \/ wait_relock(t) \/ signal(t) \/ broadcast(t)
Next == \E t \in Threads : Call(t) \/ try_lock(t) \/ Step(t) \/ wait_timeout(t) \/ Raise(t)
Spec == Init /\ [][Next]_vars
FairSpec == Spec /\ \A t \in Threads : WF_vars(Step(t))

-----------------------------------------------------------------------------
(* Properties.                                                                *)

(* Mutual exclusion: when lock, try_lock and ConditionVariable#wait have      *)
(* returned, their thread is @owner, and so no two threads hold the mutex.    *)
Exclusion == \A t \in holding : owner = t

(* The internal section of Mutex#lock has at most one thread in it, and the   *)
(* channel has its token again when it is empty: the ensure clauses send one  *)
(* token for each that was received, on every way out.                        *)
TokenBalance == tokens + Cardinality({t \in Threads : pc[t] \in {"test", "take"}}) = 1

(* No lost wakeup: if the mutex is free and a thread sleeps in its queue,     *)
(* another one is on its way to take it (and will wake the sleeper later).    *)
OnItsWay(t) == pc[t] \in {"lock", "test", "take", "relock"} \/ (pc[t] = "park" /\ t \in woken)
NoLostUnlock ==
  owner = Nobody /\ ToSet(queue) \cap Threads # {} => \E t \in Threads : OnItsWay(t)

(* A signal reaches a waiter: one sent to a thread whose receive_timeout has  *)
(* timed out or was interrupted is passed on as long as another thread waits. *)
(* It holds until an exception strikes elsewhere in wait, above all in its    *)
(* ensure clause, where the code does lose the signal.                        *)
InFlight == {t \in waiting : pc[t] # "wait_unlock" /\ t \notin ToSet(cvqueue)}
SignalsKept == ~struck => owed = Cardinality(InFlight)

(* A mutex that is wanted is taken: no combination of waiters, timeouts and   *)
(* interrupts leaves it free for ever with threads in Mutex#lock.             *)
Wanted     == \E t \in Threads : pc[t] \in {"lock", "test", "take", "relock", "park"}
MutexTaken == Wanted ~> (owner # Nobody \/ ~Wanted)
=============================================================================
