---------------------------- MODULE ObjectMemory ----------------------------
(* The generational heap of vm/objectmemory.* and vm/gc/*: a nursery of two   *)
(* halves that BakerGC copies between, a mature space that ImmixGC marks,     *)
(* the write barrier with its remember set, WeakRef objects and weak handles. *)
(* The world is stopped during a collection (module WorldState), so no        *)
(* mutator step comes between the steps of a collection. An object fills one  *)
(* cell and has one reference field: enough for chains, sharing and cycles.   *)
EXTENDS Naturals, Sequences, FiniteSets

CONSTANTS Slots,        \* root slots: roots, strong handles, call frames, variable buffers
          Nil,          \* Qnil and every other immediate
          YoungSize,    \* cells of a nursery half
          Mature,       \* bound: the cells of mature memory (immix grows at need)
          Ids,          \* bound: the objects a behaviour may create
          Lifetime,     \* gc.lifetime, the age at which an object is promoted
          WeakInMature, \* may WeakRef.new meet a full nursery
          BufferAlone   \* may a variable buffer be all that holds a mature object, as in IO::sysread

Young(h) == {h} \X (1..YoungSize)
Addr     == Young(0) \cup Young(1) \cup Mature

ASSUME HeapAssumption ==
  /\ YoungSize \in Nat \ {0} /\ Lifetime \in Nat /\ {WeakInMature, BufferAlone} \subseteq BOOLEAN
  /\ Nil \notin Addr \cup Ids /\ Mature \cap (Young(0) \cup Young(1)) = {}
  /\ Slots \cap Addr = {}

VARIABLES mem,       \* contents of every cell
          current,   \* the half the program allocates in
          root,      \* [Slots -> address or Nil]
          unborn,    \* ghost: identities not yet given to an object
          handle,    \* a weak C-API handle, or what a GlobalCache entry refers to
          rs,        \* remember_set; entries set to NULL are left out
          phase,     \* "run", or the part of a collection under way
          todo,      \* remembered objects and slots still to be looked at
          promoted,  \* the objects of promoted_ still to be scanned
          scan,      \* scan_ of the next half
          weak_refs, \* WeakRefs met by this collection
          marked, grey           \* mark bits and mark stack of ImmixGC

mutator == <<current, root, handle, unborn>>
baker   == <<todo, promoted, scan>>
immix   == <<marked, grey>>
vars    == <<mem, mutator, rs, phase, baker, weak_refs, immix>>

Free == [kind |-> "free", id |-> Nil, ref |-> Nil, age |-> 0, fwd |-> Nil, rem |-> FALSE]
next == 1 - current
Used(h) == Cardinality({a \in Young(h) : mem[a].kind # "free"})
FreeMature == {a \in Mature : mem[a].kind = "free"}
IsYoung(a) == a # Nil /\ a \notin Mature

(* Types. *)
TypeOK ==
  /\ mem \in [Addr -> [kind : {"free", "obj", "weak"}, id : Ids \cup {Nil}, ref : Addr \cup {Nil},
                       age : 0..Lifetime, fwd : Addr \cup {Nil}, rem : BOOLEAN]]
  /\ current \in {0, 1} /\ root \in [Slots -> Addr \cup {Nil}] /\ handle \in Addr \cup {Nil}
  /\ unborn \subseteq Ids /\ rs \subseteq Mature /\ todo \subseteq Mature \cup Slots /\ promoted \subseteq Mature
  /\ phase \in {"run", "scan", "copy", "mark"}
  /\ scan \in 0..YoungSize
  /\ weak_refs \subseteq Addr /\ marked \subseteq Addr /\ grey \subseteq marked

Init ==
  /\ mem = [a \in Addr |-> Free] /\ current = 0
  /\ root = [s \in Slots |-> Nil] /\ handle = Nil /\ unborn = Ids /\ rs = {} /\ phase = "run"
  /\ todo = {} /\ promoted = {} /\ scan = 0
  /\ weak_refs = {} /\ marked = {} /\ grey = {}

-----------------------------------------------------------------------------
(* The program: allocation, loads, and stores through the write barrier.      *)

(* write_barrier(target, val), as the condition on which it remembers target *)
write_barrier(target, val) == ~mem[target].rem /\ ~IsYoung(target) /\ IsYoung(val)

(* allocate_object: the nursery if it has room, the mature space otherwise *)
allocate_object == IF Used(current) < YoungSize THEN {<<current, Used(current) + 1>>} ELSE FreeMature

Allocate(s, a, kind, ref, rem) ==
  /\ phase = "run"
  /\ \E i \in unborn : /\ mem' = [mem EXCEPT ![a] = [Free EXCEPT !.kind = kind, !.id = i,
                                                                 !.ref = ref, !.rem = rem]]
                       /\ unborn' = unborn \ {i}
  /\ rs' = IF rem THEN rs \cup {a} ELSE rs
  /\ root' = [root EXCEPT ![s] = a]
  /\ UNCHANGED <<current, handle, phase, baker, weak_refs, immix>>

NewObject(s) == \E a \in allocate_object : Allocate(s, a, "obj", Nil, FALSE)

(* new_object_typed_mature, for objects that must not move *)
NewMature(s) == \E a \in FreeMature : Allocate(s, a, "obj", Nil, FALSE)

(* WeakRef::create: set_object stores without a write barrier *)
NewWeak(s, t) == \E a \in allocate_object :
  /\ root[t] # Nil /\ (a \in Mature => WeakInMature)
  /\ Allocate(s, a, "weak", root[t], FALSE)

(* dup: Object::copy_object copies the fields without a barrier, and          *)
(* remembers a copy that is in the mature space whatever it holds.            *)
Dup(s, t) == \E a \in allocate_object :
  /\ root[t] # Nil
  /\ Allocate(s, a, mem[root[t]].kind, mem[root[t]].ref, a \in Mature)

(* a field store: the assignment and its write_barrier *)
Store(s, t) ==
  /\ phase = "run" /\ root[s] # Nil /\ mem[root[s]].kind = "obj"
  /\ LET remember == write_barrier(root[s], root[t]) IN
       /\ mem' = [mem EXCEPT ![root[s]].ref = root[t], ![root[s]].rem = @ \/ remember]
       /\ rs' = IF remember THEN rs \cup {root[s]} ELSE rs
  /\ UNCHANGED <<mutator, phase, baker, weak_refs, immix>>

(* a load from a field, WeakRef#object included, or from the handle *)
Load(s) ==
  /\ phase = "run"
  /\ \E v \in {Nil, handle} \cup {mem[root[t]].ref : t \in {u \in Slots : root[u] # Nil}} :
       root' = [root EXCEPT ![s] = v]
  /\ UNCHANGED <<mem, current, handle, unborn, rs, phase, baker, weak_refs, immix>>

(* a C-API handle keeps its object for life *)
MakeHandle(s) ==
  /\ phase = "run" /\ root[s] # Nil /\ handle = Nil
  /\ handle' = root[s]
  /\ UNCHANGED <<mem, current, root, unborn, rs, phase, baker, weak_refs, immix>>

-----------------------------------------------------------------------------
(* The young collection, BakerGC::collect.                                    *)

(* The remember set is set aside. Each of its objects loses its Remember bit  *)
(* before it is scanned; no barrier looks at the bit of another object, so    *)
(* the bits are cleared here together.                                        *)
mutant_bits_kept ==
  /\ phase = "run" /\ phase' = "scan" /\ todo' = rs \cup Slots /\ rs' = {}
  /\ UNCHANGED <<mem, mutator, promoted, scan, weak_refs, immix>>
StartYoung ==
  /\ phase = "run"
  /\ Cardinality({a \in Young(current) : mem[a].age >= Lifetime}) <= Cardinality(FreeMature)  \* bound: Mature
  /\ mem' = [a \in Addr |-> [mem[a] EXCEPT !.rem = FALSE]]
  /\ phase' = "scan" /\ todo' = rs \cup Slots /\ rs' = {}
  /\ UNCHANGED <<mutator, promoted, scan, weak_refs, immix>>

(* saw_object: an object of the current half that has not been seen is copied *)
(* to the other half, or promoted for its age or for lack of room there       *)
mutant_copied_twice(a) == IsYoung(a) /\ a[1] = current
Moves(a) == IsYoung(a) /\ a[1] = current /\ mem[a].fwd = Nil
Promotes(a) == Moves(a) /\ (mem[a].age >= Lifetime \/ Used(next) >= YoungSize)
forward(a) == IF IsYoung(a) /\ a[1] = current THEN mem[a].fwd ELSE a
saw_object(a) == IF Promotes(a) THEN FreeMature
                 ELSE IF Moves(a) THEN {<<next, Used(next) + 1>>} ELSE {forward(a)}

Copied(a, to) ==
  IF ~Moves(a) THEN mem
  ELSE [mem EXCEPT ![to] = [mem[a] EXCEPT !.age = IF Promotes(a) THEN 0 ELSE @ + 1],
                   ![a].fwd = to]

(* promoted_push: an array with two iterators, here the set still to be scanned *)
mutant_not_pushed(a, to) == {}
promoted_push(a, to) == IF Promotes(a) THEN {to} ELSE {}

(* scan_object: a WeakRef is noted, any other field updated through the barrier *)
scan_object(obj) ==
  \/ /\ mem[obj].kind = "weak"
     /\ weak_refs' = IF mem[obj].ref # Nil THEN weak_refs \cup {obj} ELSE weak_refs
     /\ promoted' = promoted \ {obj} /\ UNCHANGED <<mem, rs>>
  \/ /\ mem[obj].kind # "weak"
     /\ \E to \in saw_object(mem[obj].ref) :
          LET remember == write_barrier(obj, to) IN
          /\ mem' = [Copied(mem[obj].ref, to) EXCEPT ![obj].ref = to, ![obj].rem = @ \/ remember]
          /\ rs' = IF remember THEN rs \cup {obj} ELSE rs
          /\ promoted' = (promoted \ {obj}) \cup promoted_push(mem[obj].ref, to)
     /\ UNCHANGED weak_refs

ScanRemembered == \E obj \in todo \ Slots :
  /\ phase = "scan" /\ scan_object(obj) /\ todo' = todo \ {obj}
  /\ UNCHANGED <<mutator, phase, scan, immix>>

ScanRoot == \E s \in todo :
  /\ phase = "scan" /\ todo \subseteq Slots
  /\ \E to \in saw_object(root[s]) :
       /\ mem' = Copied(root[s], to) /\ promoted' = promoted \cup promoted_push(root[s], to)
       /\ root' = [root EXCEPT ![s] = to]
  /\ todo' = todo \ {s}
  /\ UNCHANGED <<current, handle, unborn, rs, phase, scan, weak_refs, immix>>

(* The list is scanned in any order and at any moment between the scans of    *)
(* copied objects; the code takes rounds, what is promoted in one waiting for *)
(* the next behind copy_unscanned.                                            *)
ScanPromoted == \E obj \in promoted :
  /\ phase = "scan" /\ todo = {} /\ scan_object(obj)
  /\ UNCHANGED <<mutator, phase, todo, scan, immix>>

(* copy_unscanned: the scan of the half the survivors are copied to *)
CopyUnscanned ==
  /\ phase = "copy" /\ scan < Used(next)
  /\ scan_object(<<next, scan + 1>>) /\ scan' = scan + 1
  /\ UNCHANGED <<mutator, phase, todo, immix>>

(* the turns of the loop that ends when both kinds of work are done *)
TurnLoop ==
  /\ \/ phase = "scan" /\ todo = {} /\ promoted = {} /\ phase' = "copy"
     \/ phase = "copy" /\ scan = Used(next) /\ promoted # {} /\ phase' = "scan"
  /\ UNCHANGED <<mem, mutator, rs, baker, weak_refs, immix>>

(* the end: clean_weakrefs(true), the halves are swapped, and prune_handles   *)
(* and prune_young then follow the forwarding pointers left in the old half   *)
mutant_weak_not_forwarded(w) == IF forward(mem[w].ref) = Nil THEN [mem[w] EXCEPT !.ref = Nil] ELSE mem[w]
clean_weakrefs(w) == [mem[w] EXCEPT !.ref = forward(@),
                                    !.rem = @ \/ write_barrier(w, forward(mem[w].ref))]
FinishYoung ==
  /\ phase = "copy" /\ scan = Used(next) /\ promoted = {}
  /\ mem' = [a \in Addr |-> IF a \in Young(current) THEN Free
                            ELSE IF a \in weak_refs THEN clean_weakrefs(a) ELSE mem[a]]
  /\ rs' = rs \cup {w \in weak_refs : write_barrier(w, forward(mem[w].ref))}
  /\ handle' = forward(handle) /\ current' = next /\ scan' = 0
  /\ phase' = "run" /\ weak_refs' = {}
  /\ UNCHANGED <<root, unborn, todo, promoted, immix>>

-----------------------------------------------------------------------------
(* The mature collection, ImmixGC::collect and ObjectMemory::collect_mature.  *)

(* Some of the slots are variables of a variable buffer (OnStack); of those   *)
(* only the ones that refer to young objects are marked. A mature object in a *)
(* buffer is kept if the caller's frame has it too, as it has the receiver of *)
(* the call; in IO::sysread the string read into is in the buffer alone.      *)
StartMature == \E buffered \in SUBSET Slots :
  /\ phase = "run" /\ phase' = "mark"
  /\ BufferAlone \/ \A s \in buffered : root[s] \in Mature => \E u \in Slots \ buffered : root[u] = root[s]
  /\ marked' = {root[s] : s \in {u \in Slots : u \in buffered => IsYoung(root[u])}} \ {Nil} /\ grey' = marked'
  /\ UNCHANGED <<mem, mutator, rs, baker, weak_refs>>

MarkObject == \E obj \in grey :
  /\ phase = "mark"
  /\ IF mem[obj].kind = "weak"
     THEN /\ grey' = grey \ {obj} /\ UNCHANGED marked
          /\ weak_refs' = IF mem[obj].ref # Nil THEN weak_refs \cup {obj} ELSE weak_refs
     ELSE LET new == {mem[obj].ref} \ (marked \cup {Nil})
          IN marked' = marked \cup new /\ grey' = (grey \ {obj}) \cup new /\ UNCHANGED weak_refs
  /\ UNCHANGED <<mem, mutator, rs, phase, baker>>

FinishMature ==
  /\ phase = "mark" /\ grey = {}
  /\ mem' = [a \in Addr |-> IF a \in Mature \ marked THEN Free
                            ELSE IF a \in weak_refs /\ mem[a].ref \notin marked
                                 THEN [mem[a] EXCEPT !.ref = Nil] ELSE mem[a]]
  /\ rs' = rs \cap marked
  /\ handle' = IF handle \in marked THEN handle ELSE Nil
  /\ phase' = "run" /\ marked' = {} /\ weak_refs' = {}
  /\ UNCHANGED <<current, root, unborn, baker, grey>>

-----------------------------------------------------------------------------
Mutate ==
  \/ \E s \in Slots : NewObject(s) \/ NewMature(s) \/ MakeHandle(s) \/ Load(s)
  \/ \E s, t \in Slots : NewWeak(s, t) \/ Dup(s, t) \/ Store(s, t)
Collect == \/ ScanRemembered \/ ScanRoot \/ ScanPromoted \/ CopyUnscanned \/ TurnLoop \/ FinishYoung
           \/ MarkObject \/ FinishMature
Next == Mutate \/ StartYoung \/ StartMature \/ Collect
Spec == Init /\ [][Next]_vars

-----------------------------------------------------------------------------
(* Properties.                                                                *)

(* A mature object that refers to a young one is in the remember set, and the *)
(* Remember bit says exactly who is in it: an object the barrier takes for    *)
(* remembered when it is not would be skipped by the next young collection.   *)
Remembered ==
  phase = "run" => \A a \in Mature :
    /\ (mem[a].rem /\ mem[a].kind # "free") <=> a \in rs
    /\ (mem[a].kind # "free" /\ IsYoung(mem[a].ref)) => a \in rs

(* While BakerGC runs, what it has scanned no longer refers to the half that  *)
(* is about to be given up: slots it has seen, copies behind the scan pointer *)
(* and mature objects that are neither remembered nor waiting in promoted_.   *)
ScannedLeft ==
  phase \in {"scan", "copy"} =>
    LET Old(a) == IsYoung(a) /\ a[1] = current
        Done == {<<next, i>> : i \in 1..scan}
                \cup {a \in Mature : mem[a].kind # "free" /\ a \notin todo \cup promoted}
    IN /\ \A s \in Slots \ todo : ~Old(root[s])
       /\ \A a \in Done : (mem[a].kind = "weak" /\ a \in weak_refs) \/ ~Old(mem[a].ref)

(* The half the survivors go to has room for all of them: no object is copied *)
(* twice, and the last branch of saw_object, promotion for lack of room, is   *)
(* never taken.                                                               *)
SurvivorsFit ==
  phase \in {"scan", "copy"} =>
    Used(next) + Cardinality({a \in Young(current) : Moves(a) /\ mem[a].kind # "free"}) <= YoungSize

(* What the comment in BakerGC::collect says of weak references ("replace     *)
(* dead objects with nil"): a WeakRef the program holds is nil or refers to   *)
(* an object that still exists. It is stated for WeakRefs created in the      *)
(* mature space as well, which WeakRef::create does not remember.             *)
WeakRefsValid ==
  phase = "run" => \A s \in Slots :
    LET w == root[s]
    IN w # Nil /\ mem[w].kind = "weak" /\ mem[w].ref # Nil => mem[mem[w].ref].kind # "free"

(* The heap m as the program sees it: contents by identity, not by address.   *)
IdIn(m, a) == IF a = Nil THEN Nil ELSE m[a].id
Contents(m) ==
  LET Held == {a \in Addr : m[a].kind # "free" /\ m[a].fwd = Nil}
  IN [i \in {m[a].id : a \in Held} |-> LET c == m[CHOOSE a \in Held : m[a].id = i]
                                       IN [kind |-> c.kind, ref |-> IdIn(m, c.ref)]]
Reach(h, S) ==
  LET R[n \in Nat] == IF n = 0 THEN S ELSE LET T == R[n - 1]
                                           IN T \cup {h[i].ref : i \in T \cap DOMAIN h}
  IN  R[Cardinality(Ids)] \ {Nil}

(* Collections are invisible to the program: through copying, promotion in    *)
(* the middle of a collection, remembered objects and marking, every slot,    *)
(* field and weak reference keeps denoting the same object with the same      *)
(* contents. Only weak references are cleared, all those to an object at      *)
(* once, and only if the program can then no longer reach it.                 *)
CollectionInvisible ==
  [][phase # "run" =>
       \A h \in {Contents(mem)}, g \in {Contents(mem')} :
       \A after \in {Reach(g, {IdIn(mem', a) : a \in {root'[s] : s \in Slots} \cup {handle'}})} :
         LET Clear(v) == IF v \in after THEN v ELSE Nil
         IN /\ \A s \in Slots : IdIn(mem', root'[s]) = IdIn(mem, root[s])
            /\ IdIn(mem', handle') = Clear(IdIn(mem, handle))
            /\ \A i \in after :
                 /\ i \in DOMAIN g
                 /\ g[i] = IF h[i].kind = "weak" THEN [h[i] EXCEPT !.ref = Clear(@)] ELSE h[i]
    ]_<<mem, root, handle>>
=============================================================================
