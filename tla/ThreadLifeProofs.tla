-------------------------- MODULE ThreadLifeProofs --------------------------
(***************************************************************************)
(* Theorems about ThreadLife, for every set of callers and any number of   *)
(* raises.  Where an exception strikes decides what holds: one in the      *)
(* first receive of the ensure clause ("ensure") makes a second token, one *)
(* before the joiners are told ("tell") forgets them.  Each theorem        *)
(* excludes no more than it must.                                          *)
(***************************************************************************)
EXTENDS ThreadLife, TLAPS

Late == {"told", "rescue", "dead"}   \* the places behind ensure_tell

\* @alive and @exception are those of a live thread until the last ensure clause,
\* and then say what the thread died of.
DeathRecorded ==
    /\ alive <=> run # "dead"
    /\ exception = (IF run = "dead" /\ ending = "other" THEN "set" ELSE "nil")

\* A channel has its value only after ensure_tell.
ToldLate == \A c \in Callers : c \in told \/ pc[c] = "rejoin" => run \in Late

LifeInv == TypeOK /\ TokenBalance /\ DeathRecorded /\ ToldLate

\* A joiner that waits has its channel in @joins until it is told, and has
\* been told once the thread is past ensure_tell.
JoinersTold ==
    \A c \in Callers : pc[c] = "wait" => c \in joins /\ (run \in Late => c \in told)

-----------------------------------------------------------------------------
\* The initial state satisfies both invariants.
LEMMA InitLife == Init => LifeInv /\ JoinersTold
  <1> SUFFICES ASSUME Init PROVE LifeInv /\ JoinersTold
    OBVIOUS
  <1> USE DEF Init
  <1>1. TypeOK
    BY LifeAssumption DEF TypeOK, Places, Exceptions
  <1>2. TokenBalance /\ DeathRecorded /\ ToldLate /\ JoinersTold
    BY DEF TokenBalance, DeathRecorded, ToldLate, JoinersTold, Late
  <1> QED
    BY <1>1, <1>2 DEF LifeInv

\* A step of __run__ keeps the token balanced and records the death of the thread.
LEMMA RunLife ==
    ASSUME "ensure" \notin StrikeAt, LifeInv, Run
    PROVE  LifeInv'
  <1> USE LifeAssumption DEF LifeInv, TypeOK, TokenBalance, DeathRecorded, ToldLate,
                             Late, Places, Exceptions, caller
  <1>1. CASE start
    BY <1>1 DEF start
  <1>2. CASE block_ends
    BY <1>2 DEF block_ends
  <1>3. CASE ensure_receive
    BY <1>3 DEF ensure_receive
  <1>4. CASE ensure_tell
    BY <1>4 DEF ensure_tell
  <1>5. CASE strike
    BY <1>5 DEF strike
  <1>6. CASE finish
    <2>1. alive' \in BOOLEAN
      BY <1>6, Zenon DEF finish
    <2> QED
      BY <1>6, <2>1 DEF finish
  <1> QED
    BY <1>1, <1>2, <1>3, <1>4, <1>5, <1>6 DEF Run

\* So does a step of a caller.
LEMMA CallerLife ==
    ASSUME LifeInv, NEW c \in Callers, Call(c) \/ Serve(c) \/ join_gives_up(c)
    PROVE  LifeInv'
  <1> USE LifeAssumption DEF LifeInv, TypeOK, TokenBalance, DeathRecorded, ToldLate,
                             Late, Places, Exceptions, thread, At, Goto, Return
  <1>1. CASE Call(c)
    BY <1>1 DEF Call
  <1>2. CASE join(c)
    BY <1>2 DEF join
  <1>3. CASE join_told(c)
    BY <1>3 DEF join_told
  <1>4. CASE join_gives_up(c)
    BY <1>4 DEF join_gives_up
  <1>5. CASE rejoin(c)
    BY <1>5 DEF rejoin
  <1>6. CASE raise(c)
    BY <1>6 DEF raise
  <1>7. CASE raise_prim(c)
    BY <1>7 DEF raise_prim
  <1> QED
    BY <1>1, <1>2, <1>3, <1>4, <1>5, <1>6, <1>7 DEF Serve

\* LifeInv is inductive.
LEMMA LifeStep ==
    ASSUME "ensure" \notin StrikeAt, LifeInv, [Next]_vars
    PROVE  LifeInv'
  <1>1. CASE UNCHANGED vars
    BY <1>1 DEF vars, thread, caller, LifeInv, TypeOK, TokenBalance, DeathRecorded, ToldLate
  <1> QED
    BY <1>1, RunLife, CallerLife DEF Next

\* JoinersTold is inductive where no exception strikes before the joiners are told.
LEMMA JoinersStep ==
    ASSUME StrikeAt \cap {"ensure", "tell"} = {}, LifeInv, JoinersTold, [Next]_vars
    PROVE  JoinersTold'
  <1> USE DEF JoinersTold, Late
  <1>1. CASE UNCHANGED vars
    BY <1>1 DEF vars, thread, caller
  <1>2. CASE Run
    BY <1>2, LifeAssumption
    DEF LifeInv, TypeOK, ToldLate, Run, start, block_ends, ensure_receive, ensure_tell, strike,
        finish, caller
  <1>3. ASSUME NEW c \in Callers, Call(c) \/ Serve(c) \/ join_gives_up(c)
        PROVE  JoinersTold'
    <2> USE DEF LifeInv, TypeOK, TokenBalance, DeathRecorded, thread, At, Goto, Return
    <2>1. CASE Call(c) \/ join_gives_up(c)
      BY <2>1 DEF Call, join_gives_up
    <2>2. CASE join(c)
      \* with the token in the channel and @alive true, __run__ has still to come to ensure_tell
      BY <2>2 DEF join
    <2>3. CASE join_told(c) \/ rejoin(c)
      BY <2>3 DEF join_told, rejoin
    <2>4. CASE raise(c) \/ raise_prim(c)
      BY <2>4 DEF raise, raise_prim
    <2> QED
      BY <1>3, <2>1, <2>2, <2>3, <2>4 DEF Serve
  <1> QED
    BY <1>1, <1>2, <1>3 DEF Next

-----------------------------------------------------------------------------
\* The variables of ThreadLife keep their types (@lock holds at most one token), unless
\* an exception strikes the first receive of the ensure clause.
THEOREM TypeCorrect ==
    ASSUME "ensure" \notin StrikeAt
    PROVE  Spec => []TypeOK
  <1>1. LifeInv => TypeOK
    BY DEF LifeInv
  <1> QED
    BY <1>1, InitLife, LifeStep, PTL DEF Spec

\* The token is never lost and never doubled, however the block ends and whoever
\* raises in the thread, unless an exception strikes the receive that takes it.
THEOREM TokenKept ==
    ASSUME "ensure" \notin StrikeAt
    PROVE  Spec => []TokenBalance
  <1>1. LifeInv => TokenBalance
    BY DEF LifeInv
  <1> QED
    BY <1>1, InitLife, LifeStep, PTL DEF Spec

\* No joiner is forgotten, however many threads join, time out, raise and kill.
THEOREM JoinersServed ==
    ASSUME StrikeAt \cap {"ensure", "tell"} = {}
    PROVE  Spec => []NoForgottenJoiner
  <1>1. JoinersTold => NoForgottenJoiner
    BY DEF JoinersTold, NoForgottenJoiner, Late
  <1>2. LifeInv /\ JoinersTold /\ [Next]_vars => (LifeInv /\ JoinersTold)'
    BY LifeStep, JoinersStep
  <1> QED
    BY <1>1, <1>2, InitLife, PTL DEF Spec

\* A join that returns after the end of the thread was announced, or that finds the
\* thread dead, gives its true end.  Here an exception may strike before the joiners
\* are told as well: those it forgets do not return, and the others are not misled.
THEOREM JoinsTellTruth ==
    ASSUME "ensure" \notin StrikeAt
    PROVE  Spec => JoinTruthful
  <1> DEFINE Truth == \A c \in Callers : pc[c] \in {"join", "rejoin"} /\ pc'[c] = "out" =>
                        returned'[c] = (IF ending = "other" THEN "exception" ELSE "self")
  <1>1. LifeInv /\ [Next]_vars => [Truth]_vars
    <2> SUFFICES ASSUME LifeInv, Next, NEW d \in Callers,
                        pc[d] \in {"join", "rejoin"}, pc'[d] = "out"
                 PROVE  returned'[d] = (IF ending = "other" THEN "exception" ELSE "self")
      OBVIOUS
    <2> USE DEF LifeInv, TypeOK, TokenBalance, DeathRecorded, ToldLate, Late, At, Goto
    <2>1. ~Run
      BY DEF Run, start, block_ends, ensure_receive, ensure_tell, strike, finish, caller
    <2>2. PICK c \in Callers : Call(c) \/ Serve(c) \/ join_gives_up(c)
      BY <2>1 DEF Next
    <2>3. c = d /\ (join(d) \/ rejoin(d))
      BY <2>2 DEF Call, Serve, join, join_told, join_gives_up, rejoin, raise, raise_prim, Return
    <2>4. ~alive
      \* the token is in the channel: before the start, or after the death of the thread
      BY <2>3 DEF join, rejoin, Return
    <2> QED
      BY <2>3, <2>4 DEF join, rejoin, Return
  <1> QED
    BY <1>1, InitLife, LifeStep, PTL DEF Spec, JoinTruthful
=============================================================================
