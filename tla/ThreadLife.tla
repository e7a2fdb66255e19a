----------------------------- MODULE ThreadLife ------------------------------
(* The life of a Ruby thread and the threads that join and interrupt it       *)
(* (kernel/common/thread.rb): __run__, join, value, raise and kill over the   *)
(* Channel @lock, whose one token guards @alive and @joins. The token is      *)
(* first sent by the new thread itself. A section between receive and send    *)
(* that does not block is one step, taken if a token is there.                *)
EXTENDS Naturals, FiniteSets

CONSTANTS Callers,      \* the other threads
          StrikeAt,     \* where in __run__ an exception of Thread#raise may strike
          MaxRaises     \* bound: calls of raise and kill

Places == {"new", "block", "ensure", "tell", "told", "rescue", "dead"}
ASSUME LifeAssumption == StrikeAt \subseteq {"block", "ensure", "tell", "told"} /\ MaxRaises \in Nat

VARIABLES run,          \* where __run__ is
          tokens,       \* values in @lock
          alive,        \* @alive
          exception,    \* @exception: "nil", or "set"
          ending,       \* the exception on its way out of __run__: "none", "Die", "other"
          pending,      \* the exception registered by raise_prim and not yet delivered
          joins,        \* callers whose channel is in @joins
          told,         \* callers whose channel holds a value
          pc,           \* the next step of every caller
          excs,         \* the exception every caller is raising in the thread
          returned,     \* history: what the last join of every caller gave
          raises        \* calls of raise and kill so far
thread == <<run, alive, exception, ending>>
caller == <<pc, excs, returned, raises>>
vars   == <<thread, tokens, pending, joins, told, caller>>

Exceptions == {"none", "Die", "other"}

(* Types: in particular @lock never holds two tokens. *)
TypeOK ==
  /\ run \in Places /\ tokens \in 0..1
  /\ alive \in BOOLEAN /\ exception \in {"nil", "set"}
  /\ ending \in Exceptions /\ pending \in Exceptions
  /\ joins \subseteq Callers /\ told \subseteq Callers
  /\ pc \in [Callers -> {"out", "join", "wait", "rejoin", "abandoned", "raise", "prim"}]
  /\ excs \in [Callers -> Exceptions]
  /\ returned \in [Callers -> {"nothing", "self", "nil", "exception"}] /\ raises \in 0..MaxRaises

Init ==
  /\ run = "new" /\ tokens = 0 /\ alive = TRUE /\ exception = "nil"
  /\ ending = "none" /\ pending = "none" /\ joins = {} /\ told = {} /\ raises = 0
  /\ pc = [c \in Callers |-> "out"] /\ excs = [c \in Callers |-> "none"]
  /\ returned = [c \in Callers |-> "nothing"]

-----------------------------------------------------------------------------
(* __run__.                                                                   *)

(* the new thread has the global lock: @lock.send nil *)
start ==
  /\ run = "new" /\ run' = "block" /\ tokens' = tokens + 1
  /\ UNCHANGED <<alive, exception, ending, pending, joins, told, caller>>

(* the block returns, raises an exception of its own, or kills its thread *)
block_ends ==
  /\ run = "block" /\ run' = "ensure" /\ ending' \in Exceptions
  /\ UNCHANGED <<tokens, alive, exception, pending, joins, told, caller>>

(* the ensure clause: @lock.receive ... *)
ensure_receive ==
  /\ run = "ensure" /\ tokens > 0 /\ tokens' = tokens - 1 /\ run' = "tell"
  /\ UNCHANGED <<alive, exception, ending, pending, joins, told, caller>>

(* Mutant: the channels are told only if the block ended without exception. *)
mutant_tell_if_normal ==
  /\ run = "tell" /\ run' = "told"
  /\ told' = IF ending = "none" THEN told \cup joins ELSE told
  /\ UNCHANGED <<alive, exception, ending, pending, tokens, joins, caller>>

(* ... and every channel of @joins gets a value *)
ensure_tell ==
  /\ run = "tell" /\ run' = "told" /\ told' = told \cup joins
  /\ UNCHANGED <<alive, exception, ending, pending, tokens, joins, caller>>

(* An exception registered for the thread is raised where it is: from the     *)
(* block it runs the ensure clause, from the ensure clause it ends that.      *)
strike ==
  /\ run \in StrikeAt /\ pending # "none"
  /\ ending' = pending /\ pending' = "none"
  /\ run' = IF run = "block" THEN "ensure" ELSE "rescue"
  /\ UNCHANGED <<alive, exception, tokens, joins, told, caller>>

(* Mutant: the token is back before @alive is false. *)
mutant_token_first ==
  \/ /\ run \in {"told", "rescue"} /\ tokens = 0 /\ tokens' = tokens + 1
     /\ UNCHANGED <<thread, pending, joins, told, caller>>
  \/ /\ run \in {"told", "rescue"} /\ tokens = 1 /\ run' = "dead" /\ alive' = FALSE
     /\ exception' = (IF ending = "other" THEN "set" ELSE "nil")
     /\ UNCHANGED <<ending, tokens, pending, joins, told, caller>>

(* rescue, and the last ensure clause *)
finish ==
  /\ run \in {"told", "rescue"} /\ run' = "dead"
  /\ exception' = (IF ending = "other" THEN "set" ELSE "nil")
  /\ alive' = FALSE /\ tokens' = tokens + 1
  /\ UNCHANGED <<ending, pending, joins, told, caller>>

-----------------------------------------------------------------------------
(* The other threads.                                                         *)

At(c, step) == pc[c] = step
Goto(c, step) == pc' = [pc EXCEPT ![c] = step]

Call(c) ==
  /\ At(c, "out")
  /\ \/ Goto(c, "join") /\ UNCHANGED <<raises, excs>>
     \/ /\ raises < MaxRaises /\ raises' = raises + 1 /\ Goto(c, "raise")
        /\ \E e \in Exceptions \ {"none"} : excs' = [excs EXCEPT ![c] = e]
  /\ returned' = [returned EXCEPT ![c] = "nothing"]
  /\ UNCHANGED <<thread, tokens, pending, joins, told>>

(* the end of join_inner, with the token: @exception is raised, or the block  *)
(* of join run                                                                *)
Return(c) ==
  /\ Goto(c, "out")
  /\ returned' = [returned EXCEPT ![c] =
       IF exception = "set" THEN "exception" ELSE IF alive THEN "nil" ELSE "self"]

(* Mutant: @alive is read before the token is taken. *)
mutant_join_unlocked(c) ==
  /\ At(c, "join")
  /\ \/ alive /\ joins' = joins \cup {c} /\ Goto(c, "wait") /\ UNCHANGED returned
     \/ ~alive /\ Return(c) /\ UNCHANGED joins
  /\ UNCHANGED <<thread, tokens, pending, told, excs, raises>>

join(c) ==
  /\ At(c, "join") /\ tokens > 0
  /\ \/ alive /\ joins' = joins \cup {c} /\ Goto(c, "wait") /\ UNCHANGED returned
     \/ ~alive /\ Return(c) /\ UNCHANGED joins
  /\ UNCHANGED <<thread, tokens, pending, told, excs, raises>>

join_told(c) ==
  /\ At(c, "wait") /\ c \in told
  /\ told' = told \ {c} /\ Goto(c, "rejoin")
  /\ UNCHANGED <<thread, tokens, pending, joins, excs, returned, raises>>

(* receive_timeout returns nil, or the joiner is itself interrupted *)
join_gives_up(c) ==
  /\ At(c, "wait") /\ Goto(c, "abandoned")
  /\ UNCHANGED <<thread, tokens, pending, joins, told, excs, returned, raises>>

(* the ensure clause around the wait takes the token again; an abandoned      *)
(* channel stays in @joins, but what is sent to it is seen by nobody          *)
rejoin(c) ==
  /\ pc[c] \in {"rejoin", "abandoned"} /\ tokens > 0 /\ Return(c)
  /\ joins' = joins \ {c} /\ told' = told \ {c}
  /\ UNCHANGED <<thread, tokens, pending, excs, raises>>

(* raise and kill: the test of @alive with the token ... *)
raise(c) ==
  /\ At(c, "raise") /\ tokens > 0 /\ Goto(c, IF alive THEN "prim" ELSE "out")
  /\ excs' = IF alive THEN excs ELSE [excs EXCEPT ![c] = "none"]
  /\ UNCHANGED <<thread, tokens, pending, joins, told, returned, raises>>

(* ... and raise_prim without it, when the thread may be dead *)
raise_prim(c) ==
  /\ At(c, "prim") /\ Goto(c, "out")
  /\ pending' = IF run = "dead" THEN pending ELSE excs[c]
  /\ excs' = [excs EXCEPT ![c] = "none"]
  /\ UNCHANGED <<thread, tokens, joins, told, returned, raises>>

Run == start \/ block_ends \/ ensure_receive \/ ensure_tell \/ strike \/ finish
Serve(c) == join(c) \/ join_told(c) \/ rejoin(c) \/ raise(c) \/ raise_prim(c)
Next == Run \/ \E c \in Callers : Call(c) \/ Serve(c) \/ join_gives_up(c)

(* The block ends, and a thread that can run does in the end; no caller keeps *)
(* the token from one step to the next, so nothing has to be repeated.        *)
Fairness == WF_vars(Run) /\ \A c \in Callers : WF_vars(Serve(c))
Spec == Init /\ [][Next]_vars /\ Fairness

-----------------------------------------------------------------------------
(* Properties.                                                                *)

(* The token is with the thread from the end of its block until @alive is     *)
(* false and in the channel otherwise, however its block ends.                *)
TokenBalance == tokens = (IF run \in {"new", "tell", "told", "rescue"} THEN 0 ELSE 1)

(* No joiner is forgotten: when the thread is dead every channel that was     *)
(* registered for it has its value, also one registered as the block ended.   *)
NoForgottenJoiner == run = "dead" => \A c \in Callers : pc[c] = "wait" => c \in told

(* A join that was told of the end returns the thread, or raises the          *)
(* exception it died of, never nil: @alive is false by the time the joiner    *)
(* has the token again.                                                       *)
JoinTruthful ==
  [][\A c \in Callers : pc[c] \in {"join", "rejoin"} /\ pc'[c] = "out" =>
       returned'[c] = (IF ending = "other" THEN "exception" ELSE "self")]_vars

(* Every join returns, once the block of the thread ends.                     *)
JoinReturns == \A c \in Callers : pc[c] = "join" ~> pc[c] = "out"
==============================================================================
