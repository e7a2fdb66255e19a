---------------------------- MODULE StopTheWorld ----------------------------
(***************************************************************************)
(* What the garbage collector is promised.  VM::collect and                *)
(* VM::collect_maybe (vm/vm.cpp) construct a StopTheWorld guard and then   *)
(* move objects; that is sound only if, from the moment the guard is built *)
(* to the moment it is destroyed, no background thread is working on       *)
(* managed memory.  This module says so with two variables and without any *)
(* counter, mutex or condition variable.                                   *)
(***************************************************************************)
CONSTANT Helpers   \* threads that announce their use of managed memory

VARIABLES
    world,   \* "running", "stopping" (a collector waits) or "stopped" (it collects)
    inside   \* the helpers that are using managed memory

vars == <<world, inside>>

Init == world = "running" /\ inside = {}

\* A helper starts using managed memory: never once a stop has been requested.
Enter(h) ==
    /\ world = "running"
    /\ h \in Helpers \ inside
    /\ inside' = inside \cup {h}
    /\ UNCHANGED world

Leave(h) ==
    /\ h \in inside
    /\ inside' = inside \ {h}
    /\ UNCHANGED world

\* The collector asks the world to stop, and is alone at once if nobody is inside.
Stop ==
    /\ world = "running"
    /\ world' = IF inside = {} THEN "stopped" ELSE "stopping"
    /\ UNCHANGED inside

Alone ==
    /\ world = "stopping"
    /\ inside = {}
    /\ world' = "stopped"
    /\ UNCHANGED inside

Restart ==
    /\ world = "stopped"
    /\ world' = "running"
    /\ UNCHANGED inside

\* A forked child has no helper until it starts one.
Fork ==
    /\ world = "running"
    /\ inside' = {}
    /\ UNCHANGED world

Next ==
    \/ \E h \in Helpers : Enter(h) \/ Leave(h)
    \/ Stop \/ Alone \/ Restart \/ Fork

Spec == Init /\ [][Next]_vars
=============================================================================
