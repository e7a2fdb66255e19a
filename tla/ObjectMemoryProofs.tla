------------------------- MODULE ObjectMemoryProofs -------------------------
(***************************************************************************)
(* Theorems about ObjectMemory, for any number of slots, objects, nursery  *)
(* and mature cells, and any lifetime: the heap never has a dangling       *)
(* reference, the remember set is exact, and a young collection leaves     *)
(* nothing behind in the half it gives up.                                 *)
(*                                                                         *)
(* The parts of the invariant are operators of the memory contents m, the  *)
(* slots rt, the remember set R and the lists of work, because a step that *)
(* scans an object is two: the object referred to is copied, and then the  *)
(* field is updated.  The half of the nursery in use, current, and the     *)
(* handle are the same before and after such a step.                       *)
(***************************************************************************)
EXTENDS ObjectMemory, FiniteSetTheorems, TLAPS

\* Where objects are that the young collection does not move any more.
Space == Mature \cup Young(next)

Cell  == [kind : {"free", "obj", "weak"}, id : Ids \cup {Nil}, ref : Addr \cup {Nil},
          age : 0..Lifetime, fwd : Addr \cup {Nil}, rem : BOOLEAN]
Cells == [Addr -> Cell]

\* A half is filled from its first cell on.
FilledTo(m, h, n) == \A i \in 1..YoungSize : m[<<h, i>>].kind # "free" <=> i <= n

\* G is a set of existing objects that has all the program can get at, and all of
\* Space; garbage in the current half is what it leaves out.
Sound(m, rt, G) ==
    /\ G \subseteq Addr
    /\ \A s \in Slots : rt[s] \in G \cup {Nil}
    /\ handle \in G \cup {Nil}
    /\ \A a \in G : m[a].kind # "free" /\ m[a].ref \in G \cup {Nil}
    /\ \A a \in Space : m[a].kind # "free" => a \in G

Forwards(m) ==
    \A a \in Addr : m[a].fwd # Nil =>
        a \in Young(current) /\ m[a].fwd \in Space /\ m[m[a].fwd].kind # "free"

\* The Remember bit says who is in the remember set.
Bits(m, R) ==
    /\ R \subseteq Mature
    /\ \A a \in R : m[a].kind # "free"
    /\ \A a \in Addr : m[a].rem <=> a \in R

\* Mature objects that refer to young ones are remembered, or in S.
Crossing(m, R, S) ==
    \A a \in Mature : m[a].kind # "free" /\ IsYoung(m[a].ref) => a \in R \cup S

\* What has been scanned does not refer to the current half.
Left(m, rt, td, pr, sc, wr) ==
    /\ \A s \in Slots : s \notin td => rt[s] \notin Young(current)
    /\ \A a \in Mature : m[a].kind # "free" /\ a \notin td \cup pr =>
           (m[a].kind = "weak" /\ a \in wr) \/ m[a].ref \notin Young(current)
    /\ \A i \in 1..sc :
           (m[<<next, i>>].kind = "weak" /\ <<next, i>> \in wr) \/ m[<<next, i>>].ref \notin Young(current)

Work(m, td, pr, wr) ==
    /\ td \subseteq Mature \cup Slots /\ pr \subseteq Mature /\ wr \subseteq Space
    /\ \A a \in (td \ Slots) \cup pr \cup wr : m[a].kind # "free"

\* The objects that have not been copied yet fit into the rest of the next half.
Unmoved(m) == {a \in Young(current) : m[a].kind # "free" /\ m[a].fwd = Nil}
Room(m, sc) ==
    \E n \in 0..YoungSize : /\ FilledTo(m, next, n) /\ sc \in 0..n
                            /\ n + Cardinality(Unmoved(m)) <= YoungSize

Base(m, rt, R, G) ==
    /\ m \in Cells /\ rt \in [Slots -> Addr \cup {Nil}]
    /\ Sound(m, rt, G) /\ Forwards(m) /\ Bits(m, R)
    /\ \E n \in 0..YoungSize : FilledTo(m, current, n)

Collecting(m, rt, R, td, pr, sc, wr, G) ==
    /\ Base(m, rt, R, G)
    /\ Work(m, td, pr, wr)
    /\ Crossing(m, R, td \cup pr \cup wr)
    /\ Left(m, rt, td, pr, sc, wr)
    /\ Room(m, sc)

\* Between young collections: the next half is empty.
Settled ==
    /\ todo = {} /\ promoted = {} /\ scan = 0
    /\ \A a \in Young(next) : mem[a].kind = "free"
    /\ \A a \in Addr : mem[a].fwd = Nil
    /\ Crossing(mem, rs, {})

\* The marks of ImmixGC: what is marked and not grey has its referent marked.
Marks(G) ==
    /\ marked \subseteq G /\ grey \subseteq marked /\ weak_refs \subseteq Addr
    /\ \A s \in Slots : root[s] \in marked \cup {Nil}
    /\ \A a \in marked \ grey :
           IF mem[a].kind = "weak" THEN mem[a].ref # Nil => a \in weak_refs
                                   ELSE mem[a].ref \in marked \cup {Nil}

HeapInv(G) ==
    /\ current \in {0, 1} /\ unborn \subseteq Ids
    /\ phase \in {"run", "scan", "copy", "mark"}
    /\ Base(mem, root, rs, G)
    /\ phase \in {"run", "mark"} => Settled
    /\ phase = "run" => weak_refs = {}
    /\ phase = "mark" => Marks(G)
    /\ phase # "mark" => marked = {} /\ grey = {}
    /\ phase = "copy" => todo = {}
    /\ phase \in {"scan", "copy"} => Collecting(mem, root, rs, todo, promoted, scan, weak_refs, G)

Inv == \E G \in SUBSET Addr : HeapInv(G)
-----------------------------------------------------------------------------
(* Addresses *)

\* The nursery halves and the mature space are apart, and the tests of the code on
\* an address tell them apart.
LEMMA Addresses ==
  ASSUME current \in {0, 1}
  PROVE  /\ next \in {0, 1} /\ 1 - next = current
         /\ Addr = Mature \cup Young(current) \cup Young(next)
         /\ Young(current) \cap Young(next) = {}
         /\ Young(current) \cap Mature = {} /\ Young(next) \cap Mature = {}
         /\ Nil \notin Addr
         /\ \A a \in Addr \cup {Nil} : IsYoung(a) /\ a[1] = current <=> a \in Young(current)
         /\ \A a \in Addr \cup {Nil} : IsYoung(a) <=> a \in Young(current) \cup Young(next)
<1>1. next \in {0, 1} /\ 1 - next = current /\ next # current
  BY DEF next
<1>2. Addr = Mature \cup Young(current) \cup Young(next)
  BY <1>1 DEF Addr
<1>3. Young(current) \cap Mature = {} /\ Young(next) \cap Mature = {}
  BY <1>1, HeapAssumption
<1>4. Nil \notin Addr
  BY HeapAssumption
<1>5. /\ \A a \in Young(current) : a[1] = current
      /\ \A a \in Young(next) : a[1] = next
  BY DEF Young
<1>6. Young(current) \cap Young(next) = {}
  BY <1>1, <1>5
<1> QED
  BY <1>1, <1>2, <1>3, <1>4, <1>5, <1>6 DEF IsYoung

LEMMA CellsOfHalf ==
  ASSUME NEW h \in {0, 1}
  PROVE  /\ \A i \in 1..YoungSize : <<h, i>> \in Young(h)
         /\ \A a \in Young(h) : \E i \in 1..YoungSize : a = <<h, i>>
         /\ Young(h) \subseteq Addr
<1>1. Young(h) \subseteq Addr
  BY DEF Addr
<1> QED
  BY <1>1 DEF Young

LEMMA HalfFinite ==
  ASSUME NEW h \in {0, 1}, NEW n \in 0..YoungSize
  PROVE  /\ IsFiniteSet({<<h, i>> : i \in 1..n})
         /\ Cardinality({<<h, i>> : i \in 1..n}) = n
<1> DEFINE f == [i \in 1..n |-> <<h, i>>]
           S == {<<h, i>> : i \in 1..n}
<1>1. n \in Nat
  BY HeapAssumption
<1>2. f \in Bijection(1..n, S)
  <2>1. f \in [1..n -> S]
    OBVIOUS
  <2>2. \A i, j \in 1..n : f[i] = f[j] => i = j
    OBVIOUS
  <2>3. \A a \in S : \E i \in 1..n : f[i] = a
    OBVIOUS
  <2> HIDE DEF f, S
  <2> QED
    BY <2>1, <2>2, <2>3 DEF Bijection, Injection, Surjection, IsInjective
<1>3. IsFiniteSet(1..n) /\ Cardinality(1..n) = n
  <2>1. IsFiniteSet(1..n) /\ Cardinality(1..n) = IF 1 > n THEN 0 ELSE n - 1 + 1
    BY <1>1, FS_Interval
  <2> QED
    BY <1>1, <2>1
<1> HIDE DEF f, S
<1>4. IsFiniteSet(S) /\ Cardinality(S) = n
  <2>1. ExistsBijection(1..n, S)
    BY <1>2 DEF ExistsBijection
  <2> QED
    BY <1>3, <2>1, FS_Bijection
<1> QED
  BY <1>4 DEF S

\* Used(h) is where the filled part of a half ends.
LEMMA UsedIs ==
  ASSUME NEW h \in {0, 1}, NEW n \in 0..YoungSize, FilledTo(mem, h, n)
  PROVE  Used(h) = n
<1>1. YoungSize \in Nat /\ n \in Nat /\ n <= YoungSize
  BY HeapAssumption
<1>2. {a \in Young(h) : mem[a].kind # "free"} = {<<h, i>> : i \in 1..n}
  <2>1. ASSUME NEW a \in Young(h), mem[a].kind # "free"
        PROVE  a \in {<<h, i>> : i \in 1..n}
    <3>1. PICK i \in 1..YoungSize : a = <<h, i>>
      BY CellsOfHalf
    <3>2. i <= n
      BY <2>1, <3>1 DEF FilledTo
    <3>3. i \in 1..n
      BY <1>1, <3>2
    <3> QED
      BY <3>1, <3>3
  <2>2. ASSUME NEW i \in 1..n
        PROVE  <<h, i>> \in Young(h) /\ mem[<<h, i>>].kind # "free"
    <3>1. i \in 1..YoungSize /\ i <= n
      BY <1>1
    <3> QED
      BY <3>1, CellsOfHalf DEF FilledTo
  <2> QED
    BY <2>1, <2>2
<1> QED
  BY <1>2, HalfFinite DEF Used

LEMMA YoungFinite ==
  ASSUME NEW h \in {0, 1}
  PROVE  IsFiniteSet(Young(h)) /\ Cardinality(Young(h)) = YoungSize
<1>1. YoungSize \in 0..YoungSize
  BY HeapAssumption
<1>2. Young(h) = {<<h, i>> : i \in 1..YoungSize}
  BY CellsOfHalf
<1> QED
  BY <1>1, <1>2, HalfFinite

-----------------------------------------------------------------------------
(* Copying an object *)

\* m1 is m with the object at r copied to the free cell to.
CopyOf(m, m1, r, to) ==
    /\ m1 \in Cells
    /\ m1[to].kind = m[r].kind /\ m1[to].ref = m[r].ref /\ ~m1[to].rem /\ m1[to].fwd = Nil
    /\ m1[r].kind = m[r].kind /\ m1[r].ref = m[r].ref /\ m1[r].rem = m[r].rem /\ m1[r].fwd = to
    /\ \A a \in Addr \ {r, to} : m1[a] = m[a]

\* to is a mature cell, which then is in pu, or the next one of the next half.
Destination(m, to, pu) ==
    \/ to \in Mature /\ pu = {to}
    \/ /\ pu = {} /\ to \in Young(next)
       /\ \A n \in 0..YoungSize : FilledTo(m, next, n) => n < YoungSize /\ to = <<next, n + 1>>

LEMMA CopyKeeps ==
  ASSUME current \in {0, 1},
         NEW m, NEW rt, NEW R, NEW td, NEW pr, NEW sc, NEW wr, NEW G,
         NEW m1, NEW r, NEW to, NEW pu,
         Collecting(m, rt, R, td, pr, sc, wr, G),
         CopyOf(m, m1, r, to), Destination(m, to, pu),
         r \in Young(current), r \in G, m[r].fwd = Nil, to \in Space, m[to].kind = "free"
  PROVE  Collecting(m1, rt, R, td, pr \cup pu, sc, wr, G \cup {to})
<1>1. /\ Addr = Mature \cup Young(current) \cup Young(next)
      /\ Young(current) \cap Young(next) = {} /\ Young(current) \cap Mature = {}
      /\ Young(next) \cap Mature = {} /\ Nil \notin Addr
  BY Addresses
<1>2. /\ r \in Addr /\ to \in Addr /\ r # to /\ to # Nil /\ r \notin Space
      /\ Space \subseteq Addr /\ Mature \subseteq Space /\ Young(next) \subseteq Space
  BY <1>1 DEF Space
<1>3. Base(m, rt, R, G) /\ Sound(m, rt, G) /\ Forwards(m) /\ Bits(m, R)
  BY DEF Collecting, Base
<1>4. m[r].kind # "free" /\ to \notin G
  BY <1>3 DEF Sound
<1>5. \A a \in Addr : a # to => m1[a].kind = m[a].kind /\ m1[a].ref = m[a].ref /\ m1[a].rem = m[a].rem
  BY <1>2 DEF CopyOf
<1>6. \A a \in Addr : a # r /\ a # to => m1[a].fwd = m[a].fwd
  BY DEF CopyOf
<1>7. /\ m1[to].kind = m[r].kind /\ m1[to].ref = m[r].ref /\ ~m1[to].rem /\ m1[to].fwd = Nil
      /\ m1[r].fwd = to /\ m1 \in Cells
  BY DEF CopyOf
<1>8. Sound(m1, rt, G \cup {to})
  BY <1>2, <1>3, <1>4, <1>5, <1>7 DEF Sound
<1>9. Forwards(m1)
  <2> SUFFICES ASSUME NEW a \in Addr, m1[a].fwd # Nil
               PROVE  a \in Young(current) /\ m1[a].fwd \in Space /\ m1[m1[a].fwd].kind # "free"
    BY DEF Forwards
  <2>1. CASE a = r
    BY <2>1, <1>4, <1>7
  <2>2. CASE a # r
    <3>1. a # to
      BY <1>7
    <3>2. m1[a].fwd = m[a].fwd
      BY <1>6, <2>2, <3>1
    <3>3. a \in Young(current) /\ m[a].fwd \in Space /\ m[m[a].fwd].kind # "free"
      BY <1>3, <3>2 DEF Forwards
    <3>4. m1[m[a].fwd].kind = m[m[a].fwd].kind
      BY <1>2, <1>5, <3>3
    <3> QED
      BY <3>2, <3>3, <3>4
  <2> QED
    BY <2>1, <2>2
<1>10. Bits(m1, R)
  BY <1>1, <1>2, <1>3, <1>5, <1>7 DEF Bits
<1>11. \A n : FilledTo(m, current, n) => FilledTo(m1, current, n)
  <2>1. \A i \in 1..YoungSize : <<current, i>> \in Young(current)
    BY CellsOfHalf
  <2>2. to \notin Young(current)
    BY <1>1 DEF Space
  <2>3. \A i \in 1..YoungSize : m1[<<current, i>>].kind = m[<<current, i>>].kind
    BY <1>1, <1>5, <2>1, <2>2
  <2> QED
    BY <2>3 DEF FilledTo
<1>12. Base(m1, rt, R, G \cup {to})
  BY <1>3, <1>7, <1>8, <1>9, <1>10, <1>11 DEF Base
<1>13. Work(m1, td, pr \cup pu, wr)
  <2>1. Work(m, td, pr, wr) /\ pu \subseteq Mature
    BY DEF Collecting, Destination
  <2>2. \A a \in (td \ Slots) \cup pr \cup wr : a \in Addr /\ a # to
    BY <1>2, <2>1 DEF Work
  <2>3. \A a \in (td \ Slots) \cup pr \cup wr : m1[a].kind # "free"
    BY <1>5, <2>1, <2>2 DEF Work
  <2>4. \A a \in pu : a = to
    BY DEF Destination
  <2> QED
    BY <1>4, <1>7, <2>1, <2>3, <2>4 DEF Work
<1>14. Crossing(m1, R, td \cup (pr \cup pu) \cup wr)
  <2> SUFFICES ASSUME NEW a \in Mature, m1[a].kind # "free", IsYoung(m1[a].ref)
               PROVE  a \in R \cup (td \cup (pr \cup pu) \cup wr)
    BY DEF Crossing
  <2>1. CASE a = to
    BY <1>1, <2>1 DEF Destination
  <2>2. CASE a # to
    <3>1. m[a].kind # "free" /\ IsYoung(m[a].ref)
      BY <1>2, <1>5, <2>2
    <3> QED
      BY <3>1 DEF Collecting, Crossing
  <2> QED
    BY <2>1, <2>2
<1>15. PICK n \in 0..YoungSize : /\ FilledTo(m, next, n) /\ sc \in 0..n
                                 /\ n + Cardinality(Unmoved(m)) <= YoungSize
  BY DEF Collecting, Room
<1>16. \A i \in 1..sc : <<next, i>> \in Addr /\ <<next, i>> # to
  <2> SUFFICES ASSUME NEW i \in 1..sc
               PROVE  <<next, i>> \in Addr /\ <<next, i>> # to
    OBVIOUS
  <2>1. i \in 1..YoungSize /\ i <= n
    BY <1>15, HeapAssumption
  <2>2. <<next, i>> \in Young(next) /\ m[<<next, i>>].kind # "free"
    BY <1>15, <2>1, Addresses, CellsOfHalf DEF FilledTo
  <2> QED
    BY <1>1, <2>2
<1>17. Left(m1, rt, td, pr \cup pu, sc, wr)
  <2>1. Left(m, rt, td, pr, sc, wr)
    BY DEF Collecting
  <2>2. ASSUME NEW a \in Mature, m1[a].kind # "free", a \notin td \cup (pr \cup pu)
        PROVE  (m1[a].kind = "weak" /\ a \in wr) \/ m1[a].ref \notin Young(current)
    <3>1. a # to
      BY <1>1, <2>2 DEF Destination
    <3>2. m1[a].kind = m[a].kind /\ m1[a].ref = m[a].ref
      BY <1>2, <1>5, <3>1
    <3> QED
      BY <2>1, <2>2, <3>2 DEF Left
  <2>3. ASSUME NEW i \in 1..sc
        PROVE  (m1[<<next, i>>].kind = "weak" /\ <<next, i>> \in wr)
               \/ m1[<<next, i>>].ref \notin Young(current)
    <3>1. m1[<<next, i>>].kind = m[<<next, i>>].kind /\ m1[<<next, i>>].ref = m[<<next, i>>].ref
      BY <1>5, <1>16
    <3> QED
      BY <2>1, <3>1 DEF Left
  <2> QED
    BY <2>1, <2>2, <2>3 DEF Left
<1>18. Room(m1, sc)
  <2>1. n \in Nat /\ YoungSize \in Nat /\ sc \in Nat /\ sc <= n
    BY <1>15, HeapAssumption
  <2>2. Unmoved(m1) = Unmoved(m) \ {r} /\ r \in Unmoved(m)
    <3>1. to \notin Young(current)
      BY <1>1 DEF Space
    <3>2. \A a \in Young(current) : /\ m1[a].kind = m[a].kind
                                    /\ a # r => m1[a].fwd = m[a].fwd
      BY <1>1, <1>5, <1>6, <3>1
    <3> QED
      BY <1>2, <1>4, <1>7, <3>2 DEF Unmoved
  <2>3. IsFiniteSet(Unmoved(m))
    <3>1. Unmoved(m) \in SUBSET Young(current)
      BY DEF Unmoved
    <3> QED
      BY <3>1, YoungFinite, FS_Subset
  <2>4. PICK k \in Nat : k = Cardinality(Unmoved(m))
    BY <2>3, FS_CardinalityType
  <2>5. Cardinality(Unmoved(m1)) = k - 1
    BY <2>2, <2>3, <2>4, FS_RemoveElement
  <2>6. n + k <= YoungSize
    BY <1>15, <2>4
  <2>7. CASE to \in Mature
    <3>1. \A i \in 1..YoungSize : <<next, i>> \in Addr /\ <<next, i>> # to
      BY <1>1, <2>7, Addresses, CellsOfHalf
    <3>2. FilledTo(m1, next, n)
      BY <1>5, <1>15, <3>1 DEF FilledTo
    <3>3. n + (k - 1) <= YoungSize
      BY <2>1, <2>6
    <3> QED
      BY <1>15, <2>5, <3>2, <3>3 DEF Room
  <2>8. CASE to \in Young(next)
    <3>1. n < YoungSize /\ to = <<next, n + 1>>
      BY <1>1, <1>15, <2>8 DEF Destination
    <3>2. FilledTo(m1, next, n + 1)
      <4> SUFFICES ASSUME NEW i \in 1..YoungSize
                   PROVE  m1[<<next, i>>].kind # "free" <=> i <= n + 1
        BY DEF FilledTo
      <4>1. CASE i = n + 1
        BY <1>4, <1>7, <2>1, <3>1, <4>1
      <4>2. CASE i # n + 1
        <5>1. <<next, i>> \in Addr /\ <<next, i>> # to
          BY <3>1, <4>2, Addresses, CellsOfHalf
        <5>2. m1[<<next, i>>].kind = m[<<next, i>>].kind
          BY <1>5, <5>1
        <5>3. m[<<next, i>>].kind # "free" <=> i <= n
          BY <1>15 DEF FilledTo
        <5> QED
          BY <2>1, <4>2, <5>2, <5>3
      <4> QED
        BY <4>1, <4>2
    <3>3. n + 1 \in 0..YoungSize /\ sc \in 0..n + 1 /\ (n + 1) + (k - 1) <= YoungSize
      BY <2>1, <2>6, <3>1
    <3> QED
      BY <2>5, <3>2, <3>3 DEF Room
  <2> QED
    BY <2>7, <2>8 DEF Space
<1> QED
  BY <1>12, <1>13, <1>14, <1>17, <1>18 DEF Collecting

-----------------------------------------------------------------------------
(* The second half of a scan: the field, the slot or the list of WeakRefs *)

\* The scan pointer stays, or moves over obj.
Advance(obj, sc, sc2) ==
    sc2 = sc \/ (sc2 = sc + 1 /\ obj = <<next, sc + 1>> /\ obj \in Young(next))

LEMMA AdvanceFits ==
  ASSUME current \in {0, 1}, NEW m, NEW obj, NEW sc, NEW sc2,
         m[obj].kind # "free", Room(m, sc), Advance(obj, sc, sc2)
  PROVE  /\ Room(m, sc2)
         /\ \A i \in 1..sc2 : i \in 1..sc \/ <<next, i>> = obj
         /\ \A i \in 1..sc2 : <<next, i>> \in Young(next)
<1>1. PICK n \in 0..YoungSize : /\ FilledTo(m, next, n) /\ sc \in 0..n
                                /\ n + Cardinality(Unmoved(m)) <= YoungSize
  BY DEF Room
<1>2. n \in Nat /\ sc \in Nat /\ sc <= n /\ n <= YoungSize /\ YoungSize \in Nat
  BY <1>1, HeapAssumption
<1>3. next \in {0, 1}
  BY Addresses
<1>4. sc2 \in 0..n /\ \A i \in 1..sc2 : i \in 1..sc \/ <<next, i>> = obj
  <2>1. CASE sc2 = sc
    BY <1>1, <2>1
  <2>2. CASE sc2 = sc + 1 /\ obj = <<next, sc + 1>> /\ obj \in Young(next)
    <3>1. PICK i \in 1..YoungSize : obj = <<next, i>>
      BY <1>3, <2>2, CellsOfHalf
    <3>2. i <= n
      BY <1>1, <3>1 DEF FilledTo
    <3>3. i = sc + 1
      BY <2>2, <3>1
    <3>4. sc2 \in 0..n
      BY <1>2, <2>2, <3>2, <3>3
    <3>5. \A j \in 1..sc2 : j \in 1..sc \/ j = sc + 1
      BY <1>2, <2>2
    <3> QED
      BY <2>2, <3>4, <3>5
  <2> QED
    BY <2>1, <2>2 DEF Advance
<1>5. \A i \in 1..sc2 : <<next, i>> \in Young(next)
  <2>1. \A i \in 1..sc2 : i \in 1..YoungSize
    BY <1>2, <1>4
  <2> QED
    BY <1>3, <2>1, CellsOfHalf
<1> QED
  BY <1>1, <1>4, <1>5 DEF Room

\* A store through the barrier, and what it does field by field.
Stored(m, m2, obj, to, remember) ==
    m2 = [m EXCEPT ![obj].ref = to, ![obj].rem = @ \/ remember]
Updated(m, m2, obj, to, remember) ==
    /\ m2 \in Cells
    /\ \A a \in Addr \ {obj} : m2[a] = m[a]
    /\ m2[obj].kind = m[obj].kind /\ m2[obj].fwd = m[obj].fwd /\ m2[obj].ref = to
    /\ m2[obj].rem <=> m[obj].rem \/ remember
Barrier(m, obj, to, remember) ==
    remember <=> ~m[obj].rem /\ ~IsYoung(obj) /\ IsYoung(to)

\* The field of obj is set to an object of Space, through the barrier.
LEMMA FieldKeeps ==
  ASSUME current \in {0, 1},
         NEW m, NEW rt, NEW R, NEW td, NEW pr, NEW sc, NEW wr, NEW G,
         NEW obj \in Space, NEW to \in Space \cup {Nil}, NEW sc2, NEW R2, NEW m2,
         NEW remember \in BOOLEAN,
         Collecting(m, rt, R, td, pr, sc, wr, G), Advance(obj, sc, sc2),
         m[obj].kind # "free", to # Nil => m[to].kind # "free",
         Barrier(m, obj, to, remember), Updated(m, m2, obj, to, remember),
         R2 = IF remember THEN R \cup {obj} ELSE R
  PROVE  Collecting(m2, rt, R2, td \ {obj}, pr \ {obj}, sc2, wr, G)
<1>   /\ remember <=> ~m[obj].rem /\ ~IsYoung(obj) /\ IsYoung(to)
      /\ m2 \in Cells /\ \A a \in Addr \ {obj} : m2[a] = m[a]
      /\ m2[obj].kind = m[obj].kind /\ m2[obj].fwd = m[obj].fwd /\ m2[obj].ref = to
      /\ m2[obj].rem <=> m[obj].rem \/ remember
  BY DEF Barrier, Updated
<1>1. /\ Addr = Mature \cup Young(current) \cup Young(next)
      /\ Young(current) \cap Young(next) = {} /\ Young(current) \cap Mature = {}
      /\ Young(next) \cap Mature = {} /\ Nil \notin Addr
      /\ \A a \in Addr \cup {Nil} : IsYoung(a) <=> a \in Young(current) \cup Young(next)
  BY Addresses
<1>2. /\ Space \subseteq Addr /\ obj \in Addr /\ obj \notin Young(current)
      /\ to \notin Young(current) /\ to \in Addr \cup {Nil}
      /\ Mature \subseteq Space
  BY <1>1 DEF Space
<1>3. Base(m, rt, R, G) /\ Sound(m, rt, G) /\ Forwards(m) /\ Bits(m, R)
  BY DEF Collecting, Base
<1>4. \A a \in Addr : /\ m2[a].kind = m[a].kind /\ m2[a].fwd = m[a].fwd
                      /\ a # obj => m2[a].ref = m[a].ref /\ m2[a].rem = m[a].rem
  OBVIOUS
<1>5. remember => obj \in Mature
  BY <1>1, <1>2 DEF Space
<1>6. obj \in G /\ (to # Nil => to \in G)
  BY <1>3 DEF Sound
<1>7. Sound(m2, rt, G)
  <2>1. \A a \in G : m2[a].kind # "free" /\ m2[a].ref \in G \cup {Nil}
    BY <1>3, <1>4, <1>6 DEF Sound
  <2>2. \A a \in Space : m2[a].kind # "free" => a \in G
    BY <1>2, <1>3, <1>4 DEF Sound
  <2> QED
    BY <1>3, <2>1, <2>2 DEF Sound
<1>8. Forwards(m2)
  BY <1>2, <1>3, <1>4 DEF Forwards
<1>9. Bits(m2, R2)
  <2>1. R2 \subseteq Mature
    BY <1>3, <1>5 DEF Bits
  <2>2. \A a \in R2 : a \in Addr /\ m2[a].kind # "free"
    BY <1>2, <1>3, <1>4, <2>1 DEF Bits
  <2>3. \A a \in Addr : m2[a].rem <=> a \in R2
    BY <1>3, <1>4 DEF Bits
  <2> QED
    BY <2>1, <2>2, <2>3 DEF Bits
<1>10. \A h \in {0, 1} : \A n : FilledTo(m, h, n) => FilledTo(m2, h, n)
  <2>1. \A h \in {0, 1} : \A i \in 1..YoungSize : m2[<<h, i>>].kind = m[<<h, i>>].kind
    BY <1>4, CellsOfHalf
  <2> QED
    BY <2>1 DEF FilledTo
<1>11. Base(m2, rt, R2, G)
  BY <1>3, <1>7, <1>8, <1>9, <1>10 DEF Base
<1>12. Work(m2, td \ {obj}, pr \ {obj}, wr)
  <2>1. Work(m, td, pr, wr)
    BY DEF Collecting
  <2>2. \A a \in (td \ Slots) \cup pr \cup wr : a \in Addr
    BY <1>2, <2>1 DEF Work
  <2> QED
    BY <1>4, <2>1, <2>2 DEF Work
<1>13. Crossing(m2, R2, (td \ {obj}) \cup (pr \ {obj}) \cup wr)
  <2> SUFFICES ASSUME NEW a \in Mature, m2[a].kind # "free", IsYoung(m2[a].ref)
               PROVE  a \in R2 \cup ((td \ {obj}) \cup (pr \ {obj}) \cup wr)
    BY DEF Crossing
  <2>1. CASE a = obj
    <3>1. ~IsYoung(obj)
      BY <1>1, <2>1 DEF IsYoung
    <3>2. m[obj].rem \/ remember
      BY <2>1, <3>1
    <3> QED
      BY <1>2, <1>3, <2>1, <3>2 DEF Bits
  <2>2. CASE a # obj
    <3>1. m[a].kind # "free" /\ IsYoung(m[a].ref)
      BY <1>2, <1>4, <2>2
    <3> QED
      BY <2>2, <3>1 DEF Collecting, Crossing
  <2> QED
    BY <2>1, <2>2
<1>14. /\ Room(m, sc2)
       /\ \A i \in 1..sc2 : i \in 1..sc \/ <<next, i>> = obj
       /\ \A i \in 1..sc2 : <<next, i>> \in Young(next)
  BY AdvanceFits DEF Collecting
<1>15. Left(m2, rt, td \ {obj}, pr \ {obj}, sc2, wr)
  <2>1. Left(m, rt, td, pr, sc, wr)
    BY DEF Collecting
  <2>2. ASSUME NEW s \in Slots, s \notin td \ {obj}
        PROVE  rt[s] \notin Young(current)
    <3>1. s # obj
      BY <1>2, HeapAssumption
    <3> QED
      BY <2>1, <2>2, <3>1 DEF Left
  <2>3. ASSUME NEW a \in Mature, m2[a].kind # "free", a \notin (td \ {obj}) \cup (pr \ {obj})
        PROVE  (m2[a].kind = "weak" /\ a \in wr) \/ m2[a].ref \notin Young(current)
    <3>1. CASE a = obj
      BY <1>2, <3>1
    <3>2. CASE a # obj
      <4>1. m2[a].kind = m[a].kind /\ m2[a].ref = m[a].ref
        BY <1>2, <1>4, <3>2
      <4> QED
        BY <2>1, <2>3, <3>2, <4>1 DEF Left
    <3> QED
      BY <3>1, <3>2
  <2>4. ASSUME NEW i \in 1..sc2
        PROVE  (m2[<<next, i>>].kind = "weak" /\ <<next, i>> \in wr)
               \/ m2[<<next, i>>].ref \notin Young(current)
    <3>1. CASE <<next, i>> = obj
      BY <1>2, <3>1
    <3>2. CASE <<next, i>> # obj
      <4>1. i \in 1..sc /\ <<next, i>> \in Addr
        BY <1>1, <1>14, <3>2
      <4>2. m2[<<next, i>>].kind = m[<<next, i>>].kind /\ m2[<<next, i>>].ref = m[<<next, i>>].ref
        BY <1>4, <3>2, <4>1
      <4> QED
        BY <2>1, <4>1, <4>2 DEF Left
    <3> QED
      BY <3>1, <3>2
  <2> QED
    BY <2>2, <2>3, <2>4 DEF Left
<1>16. Room(m2, sc2)
  <2>1. Unmoved(m2) = Unmoved(m)
    BY <1>1, <1>4 DEF Unmoved
  <2> QED
    BY <1>10, <1>14, <2>1, Addresses DEF Room
<1> QED
  BY <1>11, <1>12, <1>13, <1>15, <1>16 DEF Collecting

\* A WeakRef is noted for clean_weakrefs.
LEMMA WeakKeeps ==
  ASSUME current \in {0, 1},
         NEW m, NEW rt, NEW R, NEW td, NEW pr, NEW sc, NEW wr, NEW G,
         NEW obj \in Space, NEW sc2, NEW wr2,
         Collecting(m, rt, R, td, pr, sc, wr, G), Advance(obj, sc, sc2),
         m[obj].kind = "weak",
         wr2 = IF m[obj].ref # Nil THEN wr \cup {obj} ELSE wr
  PROVE  Collecting(m, rt, R, td \ {obj}, pr \ {obj}, sc2, wr2, G)
<1>1. /\ Addr = Mature \cup Young(current) \cup Young(next)
      /\ Young(current) \cap Mature = {} /\ Young(next) \cap Mature = {} /\ Nil \notin Addr
      /\ \A a \in Addr \cup {Nil} : IsYoung(a) <=> a \in Young(current) \cup Young(next)
  BY Addresses
<1>2. wr \subseteq wr2 /\ wr2 \subseteq wr \cup {obj} /\ (m[obj].ref # Nil => obj \in wr2)
  OBVIOUS
<1>3. obj \in Addr /\ Nil \notin Young(current) /\ ~IsYoung(Nil) /\ m[obj].kind # "free"
  BY <1>1 DEF Space, IsYoung
<1>4. Work(m, td \ {obj}, pr \ {obj}, wr2)
  BY <1>2, <1>3 DEF Collecting, Work
<1>5. Crossing(m, R, (td \ {obj}) \cup (pr \ {obj}) \cup wr2)
  BY <1>2, <1>3 DEF Collecting, Crossing
<1>6. /\ Room(m, sc2)
      /\ \A i \in 1..sc2 : i \in 1..sc \/ <<next, i>> = obj
  BY <1>3, AdvanceFits DEF Collecting
<1>7. Left(m, rt, td \ {obj}, pr \ {obj}, sc2, wr2)
  <2>1. Left(m, rt, td, pr, sc, wr)
    BY DEF Collecting
  <2>2. (m[obj].kind = "weak" /\ obj \in wr2) \/ m[obj].ref \notin Young(current)
    BY <1>2, <1>3
  <2>3. ASSUME NEW s \in Slots, s \notin td \ {obj}
        PROVE  rt[s] \notin Young(current)
    <3>1. s # obj
      BY <1>3, HeapAssumption
    <3> QED
      BY <2>1, <2>3, <3>1 DEF Left
  <2>4. ASSUME NEW a \in Mature, m[a].kind # "free", a \notin (td \ {obj}) \cup (pr \ {obj})
        PROVE  (m[a].kind = "weak" /\ a \in wr2) \/ m[a].ref \notin Young(current)
    BY <1>2, <2>1, <2>2, <2>4 DEF Left
  <2>5. ASSUME NEW i \in 1..sc2
        PROVE  (m[<<next, i>>].kind = "weak" /\ <<next, i>> \in wr2)
               \/ m[<<next, i>>].ref \notin Young(current)
    <3>1. CASE <<next, i>> = obj
      BY <2>2, <3>1
    <3>2. CASE <<next, i>> # obj
      <4>1. i \in 1..sc
        BY <1>6, <3>2
      <4> QED
        BY <1>2, <2>1, <4>1 DEF Left
    <3> QED
      BY <3>1, <3>2
  <2> QED
    BY <2>3, <2>4, <2>5 DEF Left
<1> QED
  BY <1>4, <1>5, <1>6, <1>7 DEF Collecting

\* A slot is updated.
LEMMA SlotKeeps ==
  ASSUME current \in {0, 1},
         NEW m, NEW rt, NEW R, NEW td, NEW pr, NEW sc, NEW wr, NEW G,
         NEW s \in Slots, NEW to \in Space \cup {Nil}, NEW rt2,
         Collecting(m, rt, R, td, pr, sc, wr, G),
         to # Nil => m[to].kind # "free",
         rt2 = [rt EXCEPT ![s] = to]
  PROVE  Collecting(m, rt2, R, td \ {s}, pr, sc, wr, G)
<1>1. /\ Addr = Mature \cup Young(current) \cup Young(next)
      /\ Young(current) \cap Young(next) = {} /\ Young(current) \cap Mature = {} /\ Nil \notin Addr
  BY Addresses
<1>2. to \in Addr \cup {Nil} /\ to \notin Young(current) /\ s \notin Mature
  BY <1>1, HeapAssumption DEF Space
<1>3. Base(m, rt, R, G) /\ Sound(m, rt, G) /\ rt \in [Slots -> Addr \cup {Nil}]
  BY DEF Collecting, Base
<1>4. /\ rt2 \in [Slots -> Addr \cup {Nil}] /\ rt2[s] = to
      /\ \A u \in Slots : u # s => rt2[u] = rt[u]
  BY <1>2, <1>3
<1>5. to \in G \cup {Nil}
  BY <1>3 DEF Sound
<1>6. Sound(m, rt2, G)
  BY <1>3, <1>4, <1>5 DEF Sound
<1>7. Base(m, rt2, R, G)
  BY <1>3, <1>4, <1>6 DEF Base
<1>8. Work(m, td \ {s}, pr, wr)
  BY DEF Collecting, Work
<1>9. Crossing(m, R, (td \ {s}) \cup pr \cup wr)
  BY <1>2 DEF Collecting, Crossing
<1>10. Left(m, rt2, td \ {s}, pr, sc, wr)
  <2>1. Left(m, rt, td, pr, sc, wr)
    BY DEF Collecting
  <2>2. \A u \in Slots : u \notin td \ {s} => rt2[u] \notin Young(current)
    BY <1>2, <1>4, <2>1 DEF Left
  <2>3. \A a \in Mature : m[a].kind # "free" /\ a \notin (td \ {s}) \cup pr =>
           (m[a].kind = "weak" /\ a \in wr) \/ m[a].ref \notin Young(current)
    BY <1>2, <2>1 DEF Left
  <2> QED
    BY <2>1, <2>2, <2>3 DEF Left
<1> QED
  BY <1>7, <1>8, <1>9, <1>10 DEF Collecting

-----------------------------------------------------------------------------
(* saw_object, Copied and promoted_push as one step *)

LEMMA SawObject ==
  ASSUME current \in {0, 1}, NEW G, NEW r, NEW to \in saw_object(r), NEW m1,
         Collecting(mem, root, rs, todo, promoted, scan, weak_refs, G),
         r \in G \cup {Nil}, m1 = Copied(r, to)
  PROVE  \/ /\ m1 = mem /\ promoted_push(r, to) = {} /\ to \in Space \cup {Nil}
            /\ to # Nil => mem[to].kind # "free"
         \/ /\ CopyOf(mem, m1, r, to) /\ Destination(mem, to, promoted_push(r, to))
            /\ r \in Young(current) /\ r \in G /\ mem[r].fwd = Nil
            /\ to \in Space /\ mem[to].kind = "free"
<1>1. /\ Addr = Mature \cup Young(current) \cup Young(next)
      /\ Young(current) \cap Young(next) = {} /\ Young(current) \cap Mature = {} /\ Nil \notin Addr
      /\ Young(next) \cap Mature = {} /\ next \in {0, 1}
      /\ \A a \in Addr \cup {Nil} : IsYoung(a) /\ a[1] = current <=> a \in Young(current)
  BY Addresses
<1>2. /\ Sound(mem, root, G) /\ Forwards(mem) /\ Bits(mem, rs) /\ mem \in Cells
      /\ Room(mem, scan)
  BY DEF Collecting, Base
<1>3. r \in Addr \cup {Nil} /\ (IsYoung(r) /\ r[1] = current <=> r \in Young(current))
  BY <1>1, <1>2 DEF Sound
<1>4. CASE ~Moves(r)
  <2>1. m1 = mem /\ promoted_push(r, to) = {} /\ to = forward(r)
    BY <1>4 DEF Copied, promoted_push, Promotes, saw_object
  <2>2. CASE r \in Young(current)
    <3>1. mem[r].fwd # Nil /\ to = mem[r].fwd
      BY <1>3, <1>4, <2>1, <2>2 DEF Moves, forward
    <3> QED
      BY <1>1, <1>2, <2>1, <2>2, <3>1 DEF Forwards
  <2>3. CASE r \notin Young(current)
    <3>1. to = r
      BY <1>3, <2>1, <2>3 DEF forward
    <3> QED
      BY <1>1, <1>2, <1>3, <2>1, <2>3, <3>1 DEF Sound, Space
  <2> QED
    BY <2>2, <2>3
<1>5. CASE Moves(r)
  <2>1. r \in Young(current) /\ r \in Addr /\ mem[r].fwd = Nil /\ r # Nil
    BY <1>1, <1>3, <1>5 DEF Moves, IsYoung
  <2>2. r \in G
    BY <2>1
  <2>3. PICK n \in 0..YoungSize : FilledTo(mem, next, n)
    BY <1>2 DEF Room
  <2>4. Used(next) = n /\ n \in Nat /\ YoungSize \in Nat
    BY <1>1, <2>3, UsedIs, HeapAssumption
  <2>5. \A k \in 0..YoungSize : FilledTo(mem, next, k) => k = n
    BY <1>1, <2>4, UsedIs
  <2>6. to \in Space /\ mem[to].kind = "free" /\ Destination(mem, to, promoted_push(r, to))
    <3>1. CASE Promotes(r)
      BY <3>1 DEF saw_object, FreeMature, promoted_push, Destination, Space
    <3>2. CASE ~Promotes(r)
      <4>1. to = <<next, n + 1>> /\ n < YoungSize /\ promoted_push(r, to) = {}
        BY <1>5, <2>4, <3>2 DEF saw_object, Promotes, promoted_push
      <4>2. n + 1 \in 1..YoungSize /\ ~(n + 1 <= n)
        BY <2>4, <4>1
      <4>3. to \in Young(next)
        BY <1>1, <4>1, <4>2, CellsOfHalf
      <4>4. mem[to].kind = "free"
        BY <2>3, <4>1, <4>2 DEF FilledTo
      <4>5. Destination(mem, to, promoted_push(r, to))
        BY <2>5, <4>1, <4>3 DEF Destination
      <4> QED
        BY <4>3, <4>4, <4>5 DEF Space
    <3> QED
      BY <3>1, <3>2
  <2>7. CopyOf(mem, m1, r, to)
    <3>1. to \in Addr /\ to # r
      BY <1>1, <2>1, <2>6 DEF Space
    <3> DEFINE age == IF Promotes(r) THEN 0 ELSE mem[r].age + 1
    <3>2. age \in 0..Lifetime
      <4>1. mem[r].age \in 0..Lifetime /\ Lifetime \in Nat
        BY <1>2, <2>1, HeapAssumption DEF Cells, Cell
      <4>2. ~Promotes(r) => ~(mem[r].age >= Lifetime)
        BY <1>5 DEF Promotes
      <4> QED
        BY <4>1, <4>2
    <3>3. m1 = [mem EXCEPT ![to] = [mem[r] EXCEPT !.age = age], ![r].fwd = to]
      BY <1>5 DEF Copied
    <3>4. ~mem[r].rem
      BY <1>1, <1>2, <2>1 DEF Bits
    <3> HIDE DEF age
    <3>5. m1 \in Cells
      BY <1>2, <2>1, <3>1, <3>2, <3>3 DEF Cells, Cell
    <3>6. m1[to] = [mem[r] EXCEPT !.age = age] /\ m1[r] = [mem[r] EXCEPT !.fwd = to]
      BY <1>2, <2>1, <3>1, <3>3 DEF Cells, Cell
    <3>7. \A a \in Addr \ {r, to} : m1[a] = mem[a]
      BY <1>2, <3>3 DEF Cells, Cell
    <3>8. /\ m1[to].kind = mem[r].kind /\ m1[to].ref = mem[r].ref /\ m1[to].rem = mem[r].rem
          /\ m1[to].fwd = mem[r].fwd
          /\ m1[r].kind = mem[r].kind /\ m1[r].ref = mem[r].ref /\ m1[r].rem = mem[r].rem
          /\ m1[r].fwd = to
      BY <1>2, <2>1, <3>6 DEF Cells, Cell
    <3> QED
      BY <2>1, <3>4, <3>5, <3>7, <3>8 DEF CopyOf
  <2> QED
    BY <2>1, <2>2, <2>6, <2>7
<1> QED
  BY <1>4, <1>5

-----------------------------------------------------------------------------
(* scan_object *)

LEMMA CellSet ==
  ASSUME NEW m \in Cells, NEW m2, NEW obj \in Addr, NEW d \in Cell, m2 = [m EXCEPT ![obj] = d]
  PROVE m2 \in Cells
  BY DEF Cells, Cell

LEMMA CellIn ==
  ASSUME NEW c \in Cell, NEW to \in Addr \cup {Nil}, NEW b \in BOOLEAN
  PROVE [c EXCEPT !.ref = to, !.rem = b] \in Cell
  BY DEF Cell

\* The field store of ObjectMemory, seen field by field.
LEMMA BarrierUpdate ==
  ASSUME NEW m \in Cells, NEW obj \in Addr, NEW to \in Addr \cup {Nil}, NEW remember \in BOOLEAN,
         NEW m2, Stored(m, m2, obj, to, remember)
  PROVE  Updated(m, m2, obj, to, remember)
<1>1. PICK b \in BOOLEAN : b = (m[obj].rem \/ remember)
  BY Zenon
<1>2. m2 = [m EXCEPT ![obj].ref = to, ![obj].rem = b]
  BY <1>1, Zenon DEF Stored
<1>4. \A a \in Addr \ {obj} : m2[a] = m[a]
  BY <1>2 DEF Cells, Cell
<1>5. PICK c \in Cell : c = m[obj]
  BY DEF Cells, Cell
<1>7. PICK d : d = [c EXCEPT !.ref = to, !.rem = b]
  OBVIOUS
<1>6. m2[obj] = [m[obj] EXCEPT !.ref = to, !.rem = b]
  BY <1>2 DEF Cells, Cell
<1>8. m2[obj] = d
  BY <1>6, <1>5, <1>7, Zenon
<1>9. d.kind = c.kind /\ d.fwd = c.fwd /\ d.ref = to
  BY <1>5, <1>7 DEF Cell
<1>10. d.rem = b
  BY <1>5, <1>7 DEF Cell
<1>3. m2 \in Cells
  <2>1. d \in Cell
    BY <1>5, <1>7, CellIn, Zenon
  <2>2. m2 = [m EXCEPT ![obj] = d]
    BY <1>2, <1>5, <1>7, Zenon DEF Cells, Cell
  <2> QED
    BY <2>1, <2>2, CellSet, Zenon
<1>11. m2[obj].rem <=> m[obj].rem \/ remember
  BY <1>1, <1>8, <1>10, Zenon
<1>12. m2[obj].kind = m[obj].kind /\ m2[obj].fwd = m[obj].fwd /\ m2[obj].ref = to
  BY <1>5, <1>8, <1>9, Zenon
<1> QED
  BY <1>3, <1>4, <1>11, <1>12, Zenon DEF Updated

LEMMA ScanKeeps ==
  ASSUME current \in {0, 1}, NEW G, NEW obj \in Space, NEW sc2,
         Collecting(mem, root, rs, todo, promoted, scan, weak_refs, G),
         mem[obj].kind # "free", scan_object(obj), Advance(obj, scan, sc2)
  PROVE  \E G2 \in SUBSET Addr :
            Collecting(mem', root, rs', todo \ {obj}, promoted', sc2, weak_refs', G2)
<1>1. /\ Addr = Mature \cup Young(current) \cup Young(next)
      /\ Young(current) \cap Young(next) = {} /\ Young(current) \cap Mature = {} /\ Nil \notin Addr
  BY Addresses
<1>2. Sound(mem, root, G) /\ mem \in Cells /\ G \in SUBSET Addr
  BY DEF Collecting, Base, Sound
<1>3. obj \in Addr /\ obj \in G /\ obj \notin Young(current) /\ Space \subseteq Addr
  BY <1>1, <1>2 DEF Space, Sound
<1>4. PICK m2, R2, pr2, wr2 : m2 = mem' /\ R2 = rs' /\ pr2 = promoted' /\ wr2 = weak_refs'
  OBVIOUS
<1>5. SUFFICES \E G2 \in SUBSET Addr : Collecting(m2, root, R2, todo \ {obj}, pr2, sc2, wr2, G2)
  BY <1>4
<1>6. CASE mem[obj].kind = "weak"
  <2>1. /\ wr2 = IF mem[obj].ref # Nil THEN weak_refs \cup {obj} ELSE weak_refs
        /\ pr2 = promoted \ {obj} /\ m2 = mem /\ R2 = rs
    BY <1>4, <1>6 DEF scan_object
  <2>2. Collecting(mem, root, rs, todo \ {obj}, promoted \ {obj}, sc2, wr2, G)
    BY <1>6, <2>1, WeakKeeps
  <2> QED
    BY <1>2, <2>1, <2>2
<1>7. CASE mem[obj].kind # "weak"
  <2>1. PICK r : r = mem[obj].ref
    OBVIOUS
  <2>2. PICK to \in saw_object(r) :
          /\ mem' = [Copied(r, to) EXCEPT ![obj].ref = to, ![obj].rem = @ \/ write_barrier(obj, to)]
          /\ rs' = IF write_barrier(obj, to) THEN rs \cup {obj} ELSE rs
          /\ promoted' = (promoted \ {obj}) \cup promoted_push(r, to)
          /\ weak_refs' = weak_refs
    BY <1>7, <2>1 DEF scan_object
  <2>3. PICK m1, pu : m1 = Copied(r, to) /\ pu = promoted_push(r, to)
    OBVIOUS
  <2>4. PICK remember \in BOOLEAN : remember = write_barrier(obj, to)
    BY DEF write_barrier
  <2>5. /\ Stored(m1, m2, obj, to, remember)
        /\ R2 = IF remember THEN rs \cup {obj} ELSE rs
        /\ pr2 = (promoted \ {obj}) \cup pu /\ wr2 = weak_refs
    BY <1>4, <2>2, <2>3, <2>4, Zenon DEF Stored
  <2>6. r \in G \cup {Nil}
    BY <1>2, <1>3, <2>1 DEF Sound
  <2>7. Barrier(mem, obj, to, remember)
    BY <2>4 DEF write_barrier, Barrier
  <2>8. CASE /\ m1 = mem /\ pu = {} /\ to \in Space \cup {Nil}
             /\ to # Nil => mem[to].kind # "free"
    <3>1. to \in Addr \cup {Nil} /\ Stored(mem, m2, obj, to, remember)
      BY <1>3, <2>5, <2>8
    <3>2. Updated(mem, m2, obj, to, remember)
      BY <1>2, <1>3, <3>1, BarrierUpdate
    <3>3. Collecting(m2, root, R2, todo \ {obj}, promoted \ {obj}, sc2, weak_refs, G)
      BY <2>5, <2>7, <2>8, <3>2, FieldKeeps
    <3>4. pr2 = promoted \ {obj}
      BY <2>5, <2>8
    <3> QED
      BY <1>2, <2>5, <3>3, <3>4
  <2>9. CASE /\ CopyOf(mem, m1, r, to) /\ Destination(mem, to, pu)
             /\ r \in Young(current) /\ r \in G /\ mem[r].fwd = Nil
             /\ to \in Space /\ mem[to].kind = "free"
    <3>1. Collecting(m1, root, rs, todo, promoted \cup pu, scan, weak_refs, G \cup {to})
      BY <2>9, CopyKeeps
    <3>2. m1 \in Cells /\ m1[obj] = mem[obj] /\ m1[to].kind = mem[r].kind /\ obj # to
      BY <1>3, <2>9 DEF CopyOf
    <3>3. m1[obj].kind # "free" /\ m1[to].kind # "free"
      BY <1>2, <2>9, <3>2 DEF Sound
    <3>4. to \in Addr \cup {Nil}
      BY <1>3, <2>9
    <3>5. Updated(m1, m2, obj, to, remember)
      BY <1>3, <2>5, <3>2, <3>4, BarrierUpdate
    <3>6. Barrier(m1, obj, to, remember)
      BY <2>7, <3>2 DEF Barrier
    <3>7. Collecting(m2, root, R2, todo \ {obj}, (promoted \cup pu) \ {obj}, sc2, weak_refs, G \cup {to})
      BY <2>5, <2>9, <3>1, <3>3, <3>5, <3>6, FieldKeeps
    <3>8. pr2 = (promoted \cup pu) \ {obj}
      <4>1. obj \notin pu
        BY <2>9, <3>2 DEF Destination
      <4> QED
        BY <2>5, <4>1
    <3>9. G \cup {to} \in SUBSET Addr
      BY <1>2, <1>3, <2>9
    <3> QED
      BY <2>5, <3>7, <3>8, <3>9
  <2>10. \/ /\ m1 = mem /\ promoted_push(r, to) = {} /\ to \in Space \cup {Nil}
            /\ to # Nil => mem[to].kind # "free"
         \/ /\ CopyOf(mem, m1, r, to) /\ Destination(mem, to, promoted_push(r, to))
            /\ r \in Young(current) /\ r \in G /\ mem[r].fwd = Nil
            /\ to \in Space /\ mem[to].kind = "free"
    BY <2>3, <2>6, SawObject
  <2> QED
    BY <2>3, <2>8, <2>9, <2>10
<1> QED
  BY <1>6, <1>7

-----------------------------------------------------------------------------
(* The steps of a young collection *)

\* A step that changes neither the half in use nor the handle.
LEMMA CarryOver ==
  ASSUME current' = current, handle' = handle, NEW G,
         Collecting(mem', root', rs', todo', promoted', scan', weak_refs', G)
  PROVE  /\ Collecting(mem, root, rs, todo, promoted, scan, weak_refs, G)'
         /\ Base(mem, root, rs, G)'
<1>1. \A h : Young(h) = Young(h)' /\ next' = next /\ Space' = Space
  BY DEF next, Space
<1>2. Sound(mem, root, G)'
  BY <1>1 DEF Collecting, Base, Sound
<1>3. Forwards(mem)'
  BY <1>1 DEF Collecting, Base, Forwards
<1>4. Bits(mem, rs)'
  BY DEF Collecting, Base, Bits
<1>5. (\E n \in 0..YoungSize : FilledTo(mem, current, n))'
  BY DEF Collecting, Base, FilledTo
<1>6. (mem \in Cells /\ root \in [Slots -> Addr \cup {Nil}])'
  BY DEF Collecting, Base
<1>7. Base(mem, root, rs, G)'
  BY <1>2, <1>3, <1>4, <1>5, <1>6 DEF Base
<1>8. Work(mem, todo, promoted, weak_refs)'
  BY <1>1 DEF Collecting, Work
<1>9. Crossing(mem, rs, todo \cup promoted \cup weak_refs)'
  BY DEF Collecting, Crossing
<1>10. Left(mem, root, todo, promoted, scan, weak_refs)'
  BY <1>1 DEF Collecting, Left
<1>11. Room(mem, scan)'
  BY <1>1 DEF Collecting, Room, FilledTo, Unmoved
<1> QED
  BY <1>7, <1>8, <1>9, <1>10, <1>11 DEF Collecting

LEMMA CollectStep ==
  ASSUME NEW G, HeapInv(G), NEW G2 \in SUBSET Addr,
         phase \in {"scan", "copy"}, phase' \in {"scan", "copy"},
         current' = current, handle' = handle, unborn' = unborn, marked' = marked, grey' = grey,
         phase' = "copy" => todo' = {},
         Collecting(mem', root', rs', todo', promoted', scan', weak_refs', G2)
  PROVE  Inv'
<1>1. /\ Collecting(mem, root, rs, todo, promoted, scan, weak_refs, G2)'
      /\ Base(mem, root, rs, G2)'
  BY CarryOver
<1>2. HeapInv(G2)'
  BY <1>1 DEF HeapInv
<1> QED
  BY <1>2 DEF Inv

LEMMA StepScanRemembered ==
  ASSUME NEW G, HeapInv(G), ScanRemembered
  PROVE  Inv'
<1>1. PICK obj \in todo \ Slots :
        /\ phase = "scan" /\ scan_object(obj) /\ todo' = todo \ {obj}
        /\ UNCHANGED <<mutator, phase, scan, immix>>
  BY DEF ScanRemembered
<1>2. current \in {0, 1} /\ Collecting(mem, root, rs, todo, promoted, scan, weak_refs, G)
  BY <1>1 DEF HeapInv
<1>3. obj \in Space /\ mem[obj].kind # "free"
  BY <1>2 DEF Collecting, Work, Space
<1>4. PICK G2 \in SUBSET Addr :
        Collecting(mem', root, rs', todo \ {obj}, promoted', scan, weak_refs', G2)
  BY <1>1, <1>2, <1>3, ScanKeeps DEF Advance
<1>5. Collecting(mem', root', rs', todo', promoted', scan', weak_refs', G2)
  BY <1>1, <1>4 DEF mutator
<1> QED
  BY <1>1, <1>5, CollectStep DEF mutator, immix

LEMMA StepScanPromoted ==
  ASSUME NEW G, HeapInv(G), ScanPromoted
  PROVE  Inv'
<1>1. PICK obj \in promoted :
        /\ phase = "scan" /\ todo = {} /\ scan_object(obj)
        /\ UNCHANGED <<mutator, phase, todo, scan, immix>>
  BY DEF ScanPromoted
<1>2. current \in {0, 1} /\ Collecting(mem, root, rs, todo, promoted, scan, weak_refs, G)
  BY <1>1 DEF HeapInv
<1>3. obj \in Space /\ mem[obj].kind # "free"
  BY <1>2 DEF Collecting, Work, Space
<1>4. PICK G2 \in SUBSET Addr :
        Collecting(mem', root, rs', todo \ {obj}, promoted', scan, weak_refs', G2)
  BY <1>1, <1>2, <1>3, ScanKeeps DEF Advance
<1>5. Collecting(mem', root', rs', todo', promoted', scan', weak_refs', G2)
  <2>1. todo' = todo \ {obj} /\ root' = root /\ scan' = scan
    BY <1>1 DEF mutator
  <2> QED
    BY <1>4, <2>1
<1> QED
  BY <1>1, <1>5, CollectStep DEF mutator, immix

LEMMA StepCopyUnscanned ==
  ASSUME NEW G, HeapInv(G), CopyUnscanned
  PROVE  Inv'
<1>1. /\ phase = "copy" /\ scan < Used(next)
      /\ scan_object(<<next, scan + 1>>) /\ scan' = scan + 1
      /\ UNCHANGED <<mutator, phase, todo, immix>>
  BY DEF CopyUnscanned
<1>2. /\ current \in {0, 1} /\ Collecting(mem, root, rs, todo, promoted, scan, weak_refs, G)
      /\ todo = {}
  BY <1>1 DEF HeapInv
<1>3. PICK obj : obj = <<next, scan + 1>>
  OBVIOUS
<1>4. obj \in Young(next) /\ mem[obj].kind # "free"
  <2>1. PICK n \in 0..YoungSize : FilledTo(mem, next, n) /\ scan \in 0..n
    BY <1>2 DEF Collecting, Room
  <2>2. next \in {0, 1}
    BY <1>2, Addresses
  <2>3. Used(next) = n
    BY <2>1, <2>2, UsedIs
  <2>4. YoungSize \in Nat
    BY HeapAssumption
  <2>5. scan + 1 \in 1..YoungSize /\ scan + 1 <= n
    BY <1>1, <2>1, <2>3, <2>4
  <2> QED
    BY <1>3, <2>1, <2>2, <2>5, CellsOfHalf DEF FilledTo
<1>5. obj \in Space /\ Advance(obj, scan, scan') /\ scan_object(obj)
  BY <1>1, <1>3, <1>4 DEF Space, Advance
<1>6. PICK G2 \in SUBSET Addr :
        Collecting(mem', root, rs', todo \ {obj}, promoted', scan', weak_refs', G2)
  BY <1>2, <1>4, <1>5, ScanKeeps
<1>7. Collecting(mem', root', rs', todo', promoted', scan', weak_refs', G2)
  <2>1. todo' = todo \ {obj} /\ root' = root
    BY <1>1, <1>2 DEF mutator
  <2> QED
    BY <1>6, <2>1
<1> QED
  BY <1>1, <1>2, <1>7, CollectStep DEF mutator, immix

LEMMA StepScanRoot ==
  ASSUME NEW G, HeapInv(G), ScanRoot
  PROVE  Inv'
<1>0. PICK s \in todo : \E to \in saw_object(root[s]) :
        /\ phase = "scan" /\ todo \subseteq Slots
        /\ mem' = Copied(root[s], to) /\ promoted' = promoted \cup promoted_push(root[s], to)
        /\ root' = [root EXCEPT ![s] = to]
        /\ todo' = todo \ {s}
        /\ UNCHANGED <<current, handle, unborn, rs, phase, scan, weak_refs, immix>>
  BY Zenon DEF ScanRoot
<1>1. PICK to \in saw_object(root[s]) :
        /\ phase = "scan" /\ todo \subseteq Slots
        /\ mem' = Copied(root[s], to) /\ promoted' = promoted \cup promoted_push(root[s], to)
        /\ root' = [root EXCEPT ![s] = to]
        /\ todo' = todo \ {s}
        /\ UNCHANGED <<current, handle, unborn, rs, phase, scan, weak_refs, immix>>
  BY <1>0
<1>2. /\ current \in {0, 1} /\ Collecting(mem, root, rs, todo, promoted, scan, weak_refs, G)
      /\ s \in Slots
  BY <1>1 DEF HeapInv
<1>3. PICK r, m1, pu, rt2 : /\ r = root[s] /\ m1 = mem' /\ pu = promoted_push(root[s], to)
                            /\ rt2 = root'
  OBVIOUS
<1>4. /\ r \in G \cup {Nil} /\ m1 = Copied(r, to) /\ to \in saw_object(r) /\ G \in SUBSET Addr
      /\ rt2 = [root EXCEPT ![s] = to]
  BY <1>1, <1>2, <1>3 DEF Collecting, Base, Sound
<1>5. SUFFICES \E G2 \in SUBSET Addr :
                 Collecting(m1, rt2, rs, todo \ {s}, promoted \cup pu, scan, weak_refs, G2)
  <2>1. ASSUME NEW G2 \in SUBSET Addr,
               Collecting(m1, rt2, rs, todo \ {s}, promoted \cup pu, scan, weak_refs, G2)
        PROVE  Inv'
    <3>1. Collecting(mem', root', rs', todo', promoted', scan', weak_refs', G2)
      BY <1>1, <1>3, <2>1
    <3> QED
      BY <1>1, <3>1, CollectStep DEF immix
  <2> QED
    BY <2>1
<1>6. CASE /\ m1 = mem /\ pu = {} /\ to \in Space \cup {Nil}
           /\ to # Nil => mem[to].kind # "free"
  <2>1. Collecting(mem, rt2, rs, todo \ {s}, promoted, scan, weak_refs, G)
    BY <1>2, <1>4, <1>6, SlotKeeps
  <2>2. promoted \cup pu = promoted
    BY <1>6
  <2> QED
    BY <1>4, <1>6, <2>1, <2>2
<1>7. CASE /\ CopyOf(mem, m1, r, to) /\ Destination(mem, to, pu)
           /\ r \in Young(current) /\ r \in G /\ mem[r].fwd = Nil
           /\ to \in Space /\ mem[to].kind = "free"
  <2>1. Collecting(m1, root, rs, todo, promoted \cup pu, scan, weak_refs, G \cup {to})
    BY <1>2, <1>7, CopyKeeps
  <2>2. m1[to].kind # "free"
    <3>1. m1[to].kind = mem[r].kind
      BY <1>7 DEF CopyOf
    <3> QED
      BY <1>2, <1>7, <3>1 DEF Collecting, Base, Sound
  <2>3. Collecting(m1, rt2, rs, todo \ {s}, promoted \cup pu, scan, weak_refs, G \cup {to})
    BY <1>2, <1>4, <1>7, <2>1, <2>2, SlotKeeps
  <2>4. G \cup {to} \in SUBSET Addr
    BY <1>2, <1>4, <1>7, Addresses DEF Space
  <2> QED
    BY <2>3, <2>4
<1>8. \/ /\ m1 = mem /\ promoted_push(r, to) = {} /\ to \in Space \cup {Nil}
         /\ to # Nil => mem[to].kind # "free"
      \/ /\ CopyOf(mem, m1, r, to) /\ Destination(mem, to, promoted_push(r, to))
         /\ r \in Young(current) /\ r \in G /\ mem[r].fwd = Nil
         /\ to \in Space /\ mem[to].kind = "free"
  BY <1>2, <1>4, SawObject
<1> QED
  BY <1>3, <1>6, <1>7, <1>8

LEMMA StepTurnLoop ==
  ASSUME NEW G, HeapInv(G), TurnLoop
  PROVE  Inv'
<1>1. /\ \/ phase = "scan" /\ todo = {} /\ phase' = "copy"
         \/ phase = "copy" /\ phase' = "scan"
      /\ UNCHANGED <<mem, mutator, rs, baker, weak_refs, immix>>
  BY DEF TurnLoop
<1>2. Collecting(mem, root, rs, todo, promoted, scan, weak_refs, G) /\ G \in SUBSET Addr
  BY <1>1 DEF HeapInv, Base, Sound
<1>3. Collecting(mem', root', rs', todo', promoted', scan', weak_refs', G)
  BY <1>1, <1>2 DEF mutator, baker
<1> QED
  BY <1>1, <1>2, <1>3, CollectStep DEF mutator, baker, immix

LEMMA StepStartYoung ==
  ASSUME NEW G, HeapInv(G), StartYoung
  PROVE  Inv'
<1>1. PICK m2 : m2 = mem'
  OBVIOUS
<1>2. /\ phase = "run" /\ m2 = [a \in Addr |-> [mem[a] EXCEPT !.rem = FALSE]]
      /\ phase' = "scan" /\ todo' = rs \cup Slots /\ rs' = {}
      /\ UNCHANGED <<mutator, promoted, scan, weak_refs, immix>>
  BY <1>1, Zenon DEF StartYoung
<1>3. /\ current \in {0, 1} /\ Base(mem, root, rs, G) /\ Settled /\ weak_refs = {}
      /\ marked = {} /\ grey = {} /\ unborn \subseteq Ids
  BY <1>2 DEF HeapInv
<1>4. /\ Addr = Mature \cup Young(current) \cup Young(next)
      /\ Young(current) \cap Young(next) = {} /\ Young(current) \cap Mature = {} /\ Nil \notin Addr
      /\ \A a \in Addr \cup {Nil} : IsYoung(a) <=> a \in Young(current) \cup Young(next)
      /\ next \in {0, 1}
  BY <1>3, Addresses
<1>5. /\ mem \in Cells /\ root \in [Slots -> Addr \cup {Nil}] /\ Sound(mem, root, G)
      /\ Bits(mem, rs)
  BY <1>3 DEF Base
<1>6. m2 \in Cells
  <2>1. \A a \in Addr : mem[a] \in Cell
    BY <1>5 DEF Cells
  <2>2. \A c \in Cell : [c EXCEPT !.rem = FALSE] \in Cell
    BY DEF Cell
  <2> QED
    BY <1>2, <2>1, <2>2 DEF Cells
<1>7. \A a \in Addr : /\ m2[a].kind = mem[a].kind /\ m2[a].ref = mem[a].ref
                      /\ m2[a].fwd = mem[a].fwd /\ ~m2[a].rem
  BY <1>2, <1>5 DEF Cells, Cell
<1>8. G \in SUBSET Addr /\ Space \subseteq Addr
  BY <1>4, <1>5 DEF Sound, Space
<1>9. Sound(m2, root, G)
  BY <1>5, <1>7, <1>8 DEF Sound
<1>10. Forwards(m2)
  BY <1>3, <1>7 DEF Settled, Forwards
<1>11. Bits(m2, {})
  BY <1>7 DEF Bits
<1>12. \A h \in {0, 1} : \A n : FilledTo(mem, h, n) => FilledTo(m2, h, n)
  <2>1. \A h \in {0, 1} : \A k \in 1..YoungSize : m2[<<h, k>>].kind = mem[<<h, k>>].kind
    BY <1>7, CellsOfHalf
  <2> QED
    BY <2>1 DEF FilledTo
<1>13. Base(m2, root, {}, G)
  BY <1>3, <1>5, <1>6, <1>9, <1>10, <1>11, <1>12 DEF Base
<1>14. Work(m2, rs \cup Slots, {}, {})
  BY <1>4, <1>5, <1>7 DEF Work, Bits
<1>15. \A a \in Mature : m2[a].kind # "free" /\ IsYoung(m2[a].ref) => a \in rs
  BY <1>3, <1>4, <1>7 DEF Settled, Crossing
<1>16. Crossing(m2, {}, (rs \cup Slots) \cup {} \cup {})
  BY <1>15 DEF Crossing
<1>17. Left(m2, root, rs \cup Slots, {}, 0, {})
  <2>1. \A a \in Mature : m2[a].ref \in Addr \cup {Nil}
    BY <1>4, <1>6 DEF Cells, Cell
  <2>2. \A a \in Mature : m2[a].kind # "free" /\ a \notin rs => m2[a].ref \notin Young(current)
    BY <1>4, <1>15, <2>1
  <2>3. \A k \in 1..0 : FALSE
    OBVIOUS
  <2> QED
    BY <2>2, <2>3 DEF Left
<1>18. Room(m2, 0)
  <2>1. YoungSize \in Nat
    BY HeapAssumption
  <2>2. FilledTo(m2, next, 0)
    <3>1. \A k \in 1..YoungSize : m2[<<next, k>>].kind = "free"
      BY <1>3, <1>4, <1>7, CellsOfHalf DEF Settled
    <3>2. \A k \in 1..YoungSize : ~(k <= 0)
      BY <2>1
    <3> QED
      BY <3>1, <3>2 DEF FilledTo
  <2>3. Unmoved(m2) \in SUBSET Young(current)
    BY DEF Unmoved
  <2>4. /\ IsFiniteSet(Unmoved(m2))
        /\ Cardinality(Unmoved(m2)) <= Cardinality(Young(current))
    BY <1>3, <2>3, YoungFinite, FS_Subset
  <2>5. Cardinality(Young(current)) = YoungSize
    BY <1>3, YoungFinite
  <2>6. PICK k \in Nat : k = Cardinality(Unmoved(m2))
    BY <2>4, FS_CardinalityType
  <2>7. 0 + k <= YoungSize
    BY <2>4, <2>5, <2>6
  <2>8. 0 \in 0..YoungSize /\ 0 \in 0..0
    BY <2>1
  <2> QED
    BY <2>2, <2>6, <2>7, <2>8 DEF Room
<1>19. Collecting(m2, root, {}, rs \cup Slots, {}, 0, {}, G)
  BY <1>13, <1>14, <1>16, <1>17, <1>18 DEF Collecting
<1>20. /\ current' = current /\ handle' = handle /\ root' = root /\ unborn' = unborn
       /\ promoted' = {} /\ scan' = 0 /\ weak_refs' = {} /\ marked' = {} /\ grey' = {}
  BY <1>2, <1>3 DEF mutator, immix, Settled
<1>21. Collecting(mem', root', rs', todo', promoted', scan', weak_refs', G)
  BY <1>1, <1>2, <1>19, <1>20
<1>22. /\ Collecting(mem, root, rs, todo, promoted, scan, weak_refs, G)'
       /\ Base(mem, root, rs, G)'
  BY <1>20, <1>21, CarryOver
<1>23. HeapInv(G)'
  BY <1>2, <1>3, <1>20, <1>22 DEF HeapInv
<1> QED
  BY <1>8, <1>23 DEF Inv

\* What a forwarding pointer leads to once everything is scanned.
LEMMA ForwardLeaves ==
  ASSUME current \in {0, 1}, NEW G, NEW a \in G \cup {Nil},
         Sound(mem, root, G), Forwards(mem)
  PROVE  /\ forward(a) \in Space \cup {Nil}
         /\ forward(a) # Nil => mem[forward(a)].kind # "free"
<1>1. /\ Addr = Mature \cup Young(current) \cup Young(next) /\ Nil \notin Addr
      /\ Young(current) \cap Young(next) = {} /\ Young(current) \cap Mature = {}
      /\ \A x \in Addr \cup {Nil} : IsYoung(x) /\ x[1] = current <=> x \in Young(current)
  BY Addresses
<1>2. a \in Addr \cup {Nil}
  BY DEF Sound
<1>3. CASE a \in Young(current)
  <2>1. forward(a) = mem[a].fwd /\ a \in Addr
    BY <1>1, <1>2, <1>3 DEF forward
  <2> QED
    BY <2>1 DEF Forwards
<1>4. CASE a \notin Young(current)
  <2>1. forward(a) = a
    BY <1>1, <1>2, <1>4 DEF forward
  <2> QED
    BY <1>1, <1>2, <1>4, <2>1 DEF Sound, Space
<1> QED
  BY <1>3, <1>4

LEMMA Cleaned ==
  ASSUME mem \in Cells, NEW w \in Addr, NEW to \in Addr \cup {Nil}, to = forward(mem[w].ref),
         NEW d, d = clean_weakrefs(w)
  PROVE  /\ d \in Cell
         /\ d.kind = mem[w].kind /\ d.fwd = mem[w].fwd /\ d.ref = to
         /\ d.rem <=> mem[w].rem \/ write_barrier(w, to)
<1>1. PICK b \in BOOLEAN : b = (mem[w].rem \/ write_barrier(w, to))
  BY Zenon
<1>2. PICK c \in Cell : c = mem[w]
  BY DEF Cells
<1>3. d = [c EXCEPT !.ref = to, !.rem = b]
  BY <1>1, <1>2, Zenon DEF clean_weakrefs
<1>4. d \in Cell
  <2>1. [c EXCEPT !.ref = to, !.rem = b] \in Cell
    BY CellIn, Zenon
  <2> QED
    BY <1>3, <2>1, Zenon
<1>5. d.kind = c.kind /\ d.fwd = c.fwd /\ d.ref = to
  BY <1>2, <1>3 DEF Cell
<1>6. d.rem = b
  BY <1>2, <1>3 DEF Cell
<1>7. d.rem <=> mem[w].rem \/ write_barrier(w, to)
  BY <1>1, <1>6, Zenon
<1>8. d.kind = mem[w].kind /\ d.fwd = mem[w].fwd
  BY <1>2, <1>5, Zenon
<1> QED
  BY <1>4, <1>5, <1>7, <1>8, Zenon

\* The memory after a young collection: the half given up is free, a WeakRef that was
\* noted is forwarded through the barrier, everything else stays.
LEMMA AfterYoung ==
  ASSUME current \in {0, 1}, mem \in Cells, NEW G, Sound(mem, root, G), Forwards(mem),
         weak_refs \subseteq Space, \A w \in weak_refs : mem[w].kind # "free",
         NEW m2, m2 = [a \in Addr |-> IF a \in Young(current) THEN Free
                                      ELSE IF a \in weak_refs THEN clean_weakrefs(a) ELSE mem[a]]
  PROVE  /\ m2 \in Cells
         /\ \A a \in Young(current) : m2[a].kind = "free" /\ m2[a].fwd = Nil /\ ~m2[a].rem
         /\ \A a \in Space : m2[a].kind = mem[a].kind /\ m2[a].fwd = mem[a].fwd
         /\ \A a \in Space \ weak_refs : m2[a].ref = mem[a].ref /\ m2[a].rem = mem[a].rem
         /\ \A a \in weak_refs : /\ m2[a].ref = forward(mem[a].ref)
                                 /\ forward(mem[a].ref) \in Space \cup {Nil}
                                 /\ forward(mem[a].ref) # Nil => mem[forward(mem[a].ref)].kind # "free"
                                 /\ m2[a].rem <=> mem[a].rem \/ write_barrier(a, forward(mem[a].ref))
<1>1. /\ Addr = Mature \cup Young(current) \cup Young(next) /\ Nil \notin Addr
      /\ Young(current) \cap Young(next) = {} /\ Young(current) \cap Mature = {}
  BY Addresses
<1>2. Space \subseteq Addr /\ Space \cap Young(current) = {} /\ Young(current) \subseteq Addr
  BY <1>1 DEF Space
<1>3. \A a \in Young(current) : m2[a] = Free
  BY <1>2
<1>4. \A a \in weak_refs : m2[a] = clean_weakrefs(a)
  BY <1>2
<1>5. \A a \in Space \ weak_refs : m2[a] = mem[a]
  BY <1>2
<1>6. Free \in Cell /\ Free.kind = "free" /\ Free.fwd = Nil /\ ~Free.rem
  <2>1. 0 \in 0..Lifetime
    BY HeapAssumption
  <2> QED
    BY <2>1 DEF Free, Cell
<1>7. ASSUME NEW a \in weak_refs
      PROVE  /\ clean_weakrefs(a) \in Cell
             /\ m2[a].kind = mem[a].kind /\ m2[a].fwd = mem[a].fwd
             /\ m2[a].ref = forward(mem[a].ref)
             /\ forward(mem[a].ref) \in Space \cup {Nil}
             /\ forward(mem[a].ref) # Nil => mem[forward(mem[a].ref)].kind # "free"
             /\ m2[a].rem <=> mem[a].rem \/ write_barrier(a, forward(mem[a].ref))
  <2>1. a \in G /\ a \in Addr
    BY <1>2 DEF Sound
  <2>2. PICK r \in G \cup {Nil} : r = mem[a].ref
    BY <2>1 DEF Sound
  <2>3. PICK to : to = forward(mem[a].ref)
    OBVIOUS
  <2>4. to \in Space \cup {Nil} /\ (to # Nil => mem[to].kind # "free")
    BY <2>2, <2>3, ForwardLeaves
  <2>5. to \in Addr \cup {Nil}
    BY <1>2, <2>4
  <2>6. PICK d : d = clean_weakrefs(a)
    OBVIOUS
  <2>7. /\ d \in Cell
        /\ d.kind = mem[a].kind /\ d.fwd = mem[a].fwd /\ d.ref = to
        /\ d.rem <=> mem[a].rem \/ write_barrier(a, to)
    BY <2>1, <2>3, <2>5, <2>6, Cleaned
  <2>8. m2[a] = d
    BY <1>4, <2>6
  <2>9. forward(mem[a].ref) # Nil => mem[forward(mem[a].ref)].kind # "free"
    BY <2>3, <2>4, Zenon
  <2>10. m2[a].rem <=> mem[a].rem \/ write_barrier(a, forward(mem[a].ref))
    BY <2>3, <2>7, <2>8, Zenon
  <2>11. m2[a].kind = mem[a].kind /\ m2[a].fwd = mem[a].fwd /\ m2[a].ref = forward(mem[a].ref)
    BY <2>3, <2>7, <2>8, Zenon
  <2> QED
    BY <2>3, <2>4, <2>6, <2>7, <2>9, <2>10, <2>11, Zenon
<1>8. m2 \in Cells
  <2>1. \A a \in Addr : m2[a] \in Cell
    <3> SUFFICES ASSUME NEW a \in Addr PROVE m2[a] \in Cell
      OBVIOUS
    <3>1. CASE a \in Young(current)
      BY <1>3, <1>6, <3>1
    <3>2. CASE a \in weak_refs
      BY <1>4, <1>7, <3>2
    <3>3. CASE a \in Space \ weak_refs
      BY <1>2, <1>5, <3>3 DEF Cells
    <3> QED
      BY <1>1, <3>1, <3>2, <3>3 DEF Space
  <2>2. m2 = [a \in Addr |-> m2[a]]
    OBVIOUS
  <2> QED
    BY <2>1, <2>2, Zenon DEF Cells
<1>9. \A a \in Space : m2[a].kind = mem[a].kind /\ m2[a].fwd = mem[a].fwd
  BY <1>5, <1>7
<1>10. \A a \in Young(current) : m2[a].kind = "free" /\ m2[a].fwd = Nil /\ ~m2[a].rem
  BY <1>3, <1>6
<1> QED
  BY <1>5, <1>7, <1>8, <1>9, <1>10, Zenon

LEMMA StepFinishYoung ==
  ASSUME NEW G, HeapInv(G), FinishYoung
  PROVE  Inv'
<1>1. PICK m2, R2, c2 : m2 = mem' /\ R2 = rs' /\ c2 = current'
  OBVIOUS
<1>2. /\ phase = "copy" /\ scan = Used(next) /\ promoted = {}
      /\ m2 = [a \in Addr |-> IF a \in Young(current) THEN Free
                              ELSE IF a \in weak_refs THEN clean_weakrefs(a) ELSE mem[a]]
      /\ R2 = rs \cup {w \in weak_refs : write_barrier(w, forward(mem[w].ref))}
      /\ handle' = forward(handle) /\ c2 = next /\ scan' = 0
      /\ phase' = "run" /\ weak_refs' = {}
      /\ UNCHANGED <<root, unborn, todo, promoted, immix>>
  BY <1>1, Zenon DEF FinishYoung
<1>3. /\ current \in {0, 1} /\ todo = {} /\ unborn \subseteq Ids /\ marked = {} /\ grey = {}
      /\ Collecting(mem, root, rs, todo, promoted, scan, weak_refs, G)
  BY <1>2 DEF HeapInv
<1>4. /\ Addr = Mature \cup Young(current) \cup Young(next) /\ Nil \notin Addr
      /\ Young(current) \cap Young(next) = {} /\ Young(current) \cap Mature = {}
      /\ Young(next) \cap Mature = {}
      /\ next \in {0, 1} /\ 1 - next = current
      /\ \A a \in Addr \cup {Nil} : IsYoung(a) <=> a \in Young(current) \cup Young(next)
  BY <1>3, Addresses
<1>5. /\ mem \in Cells /\ root \in [Slots -> Addr \cup {Nil}] /\ Sound(mem, root, G)
      /\ Forwards(mem) /\ Bits(mem, rs)
      /\ Work(mem, {}, {}, weak_refs) /\ Crossing(mem, rs, {} \cup {} \cup weak_refs)
      /\ Left(mem, root, {}, {}, scan, weak_refs) /\ Room(mem, scan)
  BY <1>2, <1>3 DEF Collecting, Base
<1>6. /\ Space \subseteq Addr /\ Space \cap Young(current) = {} /\ Mature \subseteq Space
      /\ Young(next) \subseteq Space /\ weak_refs \subseteq Space
      /\ \A w \in weak_refs : mem[w].kind # "free"
  BY <1>4, <1>5 DEF Space, Work
<1>7. /\ m2 \in Cells
      /\ \A a \in Young(current) : m2[a].kind = "free" /\ m2[a].fwd = Nil /\ ~m2[a].rem
      /\ \A a \in Space : m2[a].kind = mem[a].kind /\ m2[a].fwd = mem[a].fwd
      /\ \A a \in Space \ weak_refs : m2[a].ref = mem[a].ref /\ m2[a].rem = mem[a].rem
      /\ \A a \in weak_refs : /\ m2[a].ref = forward(mem[a].ref)
                              /\ forward(mem[a].ref) \in Space \cup {Nil}
                              /\ forward(mem[a].ref) # Nil => mem[forward(mem[a].ref)].kind # "free"
                              /\ m2[a].rem <=> mem[a].rem \/ write_barrier(a, forward(mem[a].ref))
  BY <1>2, <1>3, <1>5, <1>6, AfterYoung
<1>   PICK H : H = {a \in Space : mem[a].kind # "free"}
  OBVIOUS
<1>8. \A a \in G \cup {Nil} : a \notin Young(current) => a \in H \cup {Nil}
  BY <1>4, <1>5 DEF Sound, Space
<1>9. \A i \in 1..YoungSize : mem[<<next, i>>].kind # "free" => i \in 1..scan
  <2>1. PICK n \in 0..YoungSize : FilledTo(mem, next, n)
    BY <1>5 DEF Room
  <2>2. scan = n
    BY <1>2, <1>4, <2>1, UsedIs
  <2>3. n \in Nat /\ YoungSize \in Nat
    BY <2>1, HeapAssumption
  <2>4. \A i \in 1..YoungSize : i <= n => i \in 1..n
    BY <2>3
  <2> QED
    BY <2>1, <2>2, <2>4 DEF FilledTo
<1>10. \A a \in H \ weak_refs : mem[a].ref \notin Young(current)
  <2> SUFFICES ASSUME NEW a \in H \ weak_refs
               PROVE  mem[a].ref \notin Young(current)
    OBVIOUS
  <2>1. CASE a \in Mature
    BY <1>5, <2>1 DEF Left
  <2>2. CASE a \in Young(next)
    <3>1. PICK i \in 1..YoungSize : a = <<next, i>>
      BY <1>4, <2>2, CellsOfHalf
    <3>2. i \in 1..scan
      BY <1>9, <3>1
    <3> QED
      BY <1>5, <3>1, <3>2 DEF Left
  <2> QED
    BY <2>1, <2>2 DEF Space
<1>11. H \in SUBSET Addr /\ \A a \in H : m2[a].kind # "free" /\ m2[a].ref \in H \cup {Nil}
  <2> SUFFICES ASSUME NEW a \in H
               PROVE  m2[a].kind # "free" /\ m2[a].ref \in H \cup {Nil}
    BY <1>6
  <2>1. m2[a].kind # "free" /\ a \in Addr
    BY <1>6, <1>7
  <2>2. CASE a \in weak_refs
    BY <1>7, <2>1, <2>2
  <2>3. CASE a \notin weak_refs
    <3>1. mem[a].ref \in G \cup {Nil}
      BY <1>5 DEF Sound
    <3>2. m2[a].ref = mem[a].ref
      BY <1>7, <2>3
    <3> QED
      BY <1>8, <1>10, <2>1, <2>3, <3>1, <3>2
  <2> QED
    BY <2>2, <2>3
<1>12. \A s \in Slots : root[s] \in H \cup {Nil}
  <2>1. \A s \in Slots : root[s] \in G \cup {Nil} /\ root[s] \notin Young(current)
    BY <1>5 DEF Sound, Left
  <2> QED
    BY <1>8, <2>1
<1>13. forward(handle) \in H \cup {Nil}
  <2>1. handle \in G \cup {Nil}
    BY <1>5 DEF Sound
  <2>2. /\ forward(handle) \in Space \cup {Nil}
        /\ forward(handle) # Nil => mem[forward(handle)].kind # "free"
    BY <1>3, <1>5, <2>1, ForwardLeaves
  <2> QED
    BY <2>2
<1>14. \A a \in Mature : m2[a].kind # "free" => a \in H
  BY <1>6, <1>7
<1>15. \A a \in Addr : m2[a].fwd = Nil
  <2>1. \A a \in Space : mem[a].fwd = Nil
    BY <1>5, <1>6 DEF Forwards
  <2> QED
    BY <1>4, <1>7, <2>1 DEF Space
<1>16. \A a \in weak_refs : write_barrier(a, forward(mem[a].ref)) <=>
                              ~mem[a].rem /\ a \in Mature /\ IsYoung(forward(mem[a].ref))
  BY <1>4, <1>6 DEF write_barrier, Space
<1>17. Bits(m2, R2)
  <2>1. R2 \subseteq Mature
    BY <1>2, <1>5, <1>16 DEF Bits
  <2>2. \A a \in R2 : mem[a].kind # "free"
    BY <1>2, <1>5, <1>6 DEF Bits
  <2>3. \A a \in R2 : m2[a].kind # "free"
    BY <1>6, <1>7, <2>1, <2>2
  <2>4. \A a \in Space : mem[a].rem <=> a \in rs
    BY <1>5, <1>6 DEF Bits
  <2>5. \A a \in Space \ weak_refs : m2[a].rem <=> a \in R2
    BY <1>2, <1>7, <2>4
  <2>6. \A a \in weak_refs : m2[a].rem <=> a \in R2
    BY <1>2, <1>6, <1>7, <2>4
  <2>7. \A a \in Young(current) : m2[a].rem <=> a \in R2
    BY <1>4, <1>7, <2>1
  <2>8. \A a \in Addr : m2[a].rem <=> a \in R2
    BY <1>4, <2>5, <2>6, <2>7 DEF Space
  <2> QED
    BY <2>1, <2>3, <2>8 DEF Bits
<1>18. \E n \in 0..YoungSize : FilledTo(m2, next, n)
  <2>1. PICK n \in 0..YoungSize : FilledTo(mem, next, n)
    BY <1>5 DEF Room
  <2>2. \A i \in 1..YoungSize : m2[<<next, i>>].kind = mem[<<next, i>>].kind
    BY <1>4, <1>6, <1>7, CellsOfHalf
  <2> QED
    BY <2>1, <2>2 DEF FilledTo
<1>19. \A a \in Mature : m2[a].kind # "free" /\ IsYoung(m2[a].ref) => a \in R2
  <2> SUFFICES ASSUME NEW a \in Mature, m2[a].kind # "free", IsYoung(m2[a].ref)
               PROVE  a \in R2
    OBVIOUS
  <2>1. a \in Space /\ mem[a].kind # "free" /\ (mem[a].rem <=> a \in rs)
    BY <1>5, <1>6, <1>7 DEF Bits
  <2>2. CASE a \in weak_refs
    BY <1>2, <1>7, <1>16, <2>1, <2>2
  <2>3. CASE a \notin weak_refs
    BY <1>2, <1>5, <1>7, <2>1, <2>3 DEF Crossing
  <2> QED
    BY <2>2, <2>3
<1>20. next' = current /\ current' = next /\ Space' = Mature \cup Young(current)
  BY <1>1, <1>2, <1>4 DEF next, Space
<1>21. Sound(mem, root, H)'
  <2>1. \A a \in Mature \cup Young(current) : m2[a].kind # "free" => a \in H
    BY <1>7, <1>14
  <2>2. root' = root /\ handle' = forward(handle) /\ mem' = m2
    BY <1>1, <1>2
  <2> QED
    BY <1>11, <1>12, <1>13, <1>20, <2>1, <2>2 DEF Sound
<1>22. Base(mem, root, rs, H)'
  <2>1. Forwards(mem)'
    BY <1>1, <1>15 DEF Forwards
  <2>2. Bits(mem, rs)'
    BY <1>1, <1>17 DEF Bits
  <2>3. (\E n \in 0..YoungSize : FilledTo(mem, current, n))'
    BY <1>1, <1>18, <1>20 DEF FilledTo
  <2>4. (mem \in Cells /\ root \in [Slots -> Addr \cup {Nil}])'
    BY <1>1, <1>2, <1>5, <1>7
  <2> QED
    BY <1>21, <2>1, <2>2, <2>3, <2>4 DEF Base
<1>23. Settled'
  <2>1. todo' = {} /\ promoted' = {} /\ scan' = 0
    BY <1>2, <1>3
  <2>2. \A a \in Young(next') : mem'[a].kind = "free"
    BY <1>1, <1>7, <1>20
  <2>3. Crossing(mem, rs, {})'
    BY <1>1, <1>19 DEF Crossing
  <2> QED
    BY <1>1, <1>15, <2>1, <2>2, <2>3 DEF Settled
<1>24. HeapInv(H)'
  <2>1. /\ current' \in {0, 1} /\ unborn' \subseteq Ids /\ phase' = "run" /\ weak_refs' = {}
        /\ marked' = {} /\ grey' = {}
    BY <1>2, <1>3, <1>4, <1>20 DEF immix
  <2> QED
    BY <1>22, <1>23, <2>1 DEF HeapInv
<1> QED
  BY <1>11, <1>24 DEF Inv

-----------------------------------------------------------------------------
(* The mature collection *)

\* The next half is and stays empty in all other steps.
LEMMA SettledStep ==
  ASSUME NEW G, HeapInv(G), NEW G2 \in SUBSET Addr,
         phase \in {"run", "mark"}, phase' \in {"run", "mark"}, current' = current,
         UNCHANGED baker, unborn' \subseteq unborn,
         (mem \in Cells /\ root \in [Slots -> Addr \cup {Nil}])',
         Sound(mem, root, G2)', Bits(mem, rs)',
         \E n \in 0..YoungSize : FilledTo(mem', current, n),
         \A a \in Young(next) : mem'[a].kind = "free",
         \A a \in Addr : mem'[a].fwd = Nil,
         Crossing(mem', rs', {}),
         phase' = "run" => weak_refs' = {} /\ marked' = {} /\ grey' = {},
         phase' = "mark" => Marks(G2)'
  PROVE  Inv'
<1>1. current \in {0, 1} /\ unborn \subseteq Ids /\ todo = {} /\ promoted = {} /\ scan = 0
  BY DEF HeapInv, Settled
<1>2. next' = next
  BY DEF next
<1>3. Forwards(mem)'
  BY DEF Forwards
<1>4. (\E n \in 0..YoungSize : FilledTo(mem, current, n))'
  BY DEF FilledTo
<1>5. Base(mem, root, rs, G2)'
  BY <1>3, <1>4 DEF Base
<1>6. Settled'
  BY <1>1, <1>2 DEF Settled, baker, Crossing
<1>7. HeapInv(G2)'
  BY <1>1, <1>5, <1>6 DEF HeapInv
<1> QED
  BY <1>7 DEF Inv

\* A slot that is not marked because it is in a variable buffer and refers to a mature
\* object has the same object in a slot that is marked.
LEMMA StepStartMature ==
  ASSUME NEW G, HeapInv(G), ~BufferAlone, StartMature
  PROVE  Inv'
<1>0. PICK buffered \in SUBSET Slots :
        /\ phase = "run" /\ phase' = "mark" /\ grey' = marked'
        /\ \A s \in buffered : root[s] \in Mature => \E u \in Slots \ buffered : root[u] = root[s]
        /\ marked' = {root[s] : s \in {u \in Slots : u \in buffered => IsYoung(root[u])}} \ {Nil}
        /\ UNCHANGED <<mem, mutator, rs, baker, weak_refs>>
  BY DEF StartMature
<1>1. /\ phase = "run" /\ phase' = "mark"
      /\ marked' = {root[s] : s \in Slots} \ {Nil} /\ grey' = marked'
      /\ UNCHANGED <<mem, mutator, rs, baker, weak_refs>>
  <2>1. ASSUME NEW s \in Slots, root[s] # Nil PROVE root[s] \in marked'
    <3>1. CASE s \in buffered => IsYoung(root[s])
      BY <1>0, <2>1, <3>1
    <3>2. CASE s \in buffered /\ ~IsYoung(root[s])
      <4>1. PICK u \in Slots \ buffered : root[u] = root[s]
        BY <1>0, <2>1, <3>2 DEF IsYoung
      <4> QED
        BY <1>0, <2>1, <4>1
    <3> QED
      BY <3>1, <3>2
  <2>2. \A a \in marked' : a # Nil /\ \E s \in Slots : a = root[s]
    BY <1>0
  <2>3. marked' = {root[s] : s \in Slots} \ {Nil}
    BY <2>1, <2>2
  <2> QED
    BY <1>0, <2>3
<1>2. /\ mem \in Cells /\ root \in [Slots -> Addr \cup {Nil}] /\ Sound(mem, root, G)
      /\ Bits(mem, rs) /\ (\E n \in 0..YoungSize : FilledTo(mem, current, n))
      /\ Settled /\ weak_refs = {} /\ G \in SUBSET Addr
  BY <1>1 DEF HeapInv, Base, Sound
<1>3. /\ mem' = mem /\ root' = root /\ rs' = rs /\ weak_refs' = {} /\ current' = current
      /\ handle' = handle /\ unborn' = unborn /\ UNCHANGED baker /\ next' = next /\ Space' = Space
  BY <1>1, <1>2 DEF mutator, next, Space
<1>4. Sound(mem, root, G)'
  BY <1>2, <1>3 DEF Sound
<1>5. Bits(mem, rs)'
  BY <1>2, <1>3 DEF Bits
<1>6. Marks(G)'
  <2>1. marked' \subseteq G /\ \A s \in Slots : root[s] \in marked' \cup {Nil}
    BY <1>1, <1>2 DEF Sound
  <2>2. marked' \ grey' = {}
    BY <1>1
  <2> QED
    BY <1>1, <1>3, <2>1, <2>2 DEF Marks
<1>7. /\ \A a \in Young(next) : mem'[a].kind = "free"
      /\ \A a \in Addr : mem'[a].fwd = Nil
      /\ Crossing(mem', rs', {})
      /\ \E n \in 0..YoungSize : FilledTo(mem', current, n)
      /\ mem' \in Cells /\ root' \in [Slots -> Addr \cup {Nil}]
  BY <1>2, <1>3 DEF Settled
<1> QED
  BY <1>1, <1>2, <1>3, <1>4, <1>5, <1>6, <1>7, SettledStep

LEMMA StepMarkObject ==
  ASSUME NEW G, HeapInv(G), MarkObject
  PROVE  Inv'
<1>1. PICK obj \in grey :
        /\ phase = "mark"
        /\ IF mem[obj].kind = "weak"
           THEN /\ grey' = grey \ {obj} /\ UNCHANGED marked
                /\ weak_refs' = IF mem[obj].ref # Nil THEN weak_refs \cup {obj} ELSE weak_refs
           ELSE /\ marked' = marked \cup ({mem[obj].ref} \ (marked \cup {Nil}))
                /\ grey' = (grey \ {obj}) \cup ({mem[obj].ref} \ (marked \cup {Nil}))
                /\ UNCHANGED weak_refs
        /\ UNCHANGED <<mem, mutator, rs, phase, baker>>
  BY DEF MarkObject
<1>2. /\ mem \in Cells /\ root \in [Slots -> Addr \cup {Nil}] /\ Sound(mem, root, G)
      /\ Bits(mem, rs) /\ (\E n \in 0..YoungSize : FilledTo(mem, current, n))
      /\ Settled /\ G \in SUBSET Addr /\ Marks(G)
  BY <1>1 DEF HeapInv, Base, Sound
<1>3. /\ mem' = mem /\ root' = root /\ rs' = rs /\ current' = current /\ phase' = phase
      /\ handle' = handle /\ unborn' = unborn /\ UNCHANGED baker /\ next' = next /\ Space' = Space
  BY <1>1 DEF mutator, next, Space
<1>4. Sound(mem, root, G)'
  BY <1>2, <1>3 DEF Sound
<1>5. Bits(mem, rs)'
  BY <1>2, <1>3 DEF Bits
<1>6. obj \in G /\ obj \in Addr /\ mem[obj].ref \in G \cup {Nil}
  BY <1>2 DEF Marks, Sound
<1>7. Marks(G)'
  <2>1. CASE mem[obj].kind = "weak"
    <3>1. /\ grey' = grey \ {obj} /\ marked' = marked
          /\ weak_refs' = IF mem[obj].ref # Nil THEN weak_refs \cup {obj} ELSE weak_refs
      BY <1>1, <2>1
    <3> QED
      BY <1>2, <1>3, <1>6, <2>1, <3>1 DEF Marks
  <2>2. CASE mem[obj].kind # "weak"
    <3>1. /\ marked' = marked \cup ({mem[obj].ref} \ (marked \cup {Nil}))
          /\ grey' = (grey \ {obj}) \cup ({mem[obj].ref} \ (marked \cup {Nil}))
          /\ weak_refs' = weak_refs
      BY <1>1, <2>2
    <3>2. marked' \subseteq G /\ grey' \subseteq marked' /\ marked \subseteq marked'
      BY <1>2, <1>6, <3>1 DEF Marks
    <3>3. \A a \in marked' \ grey' : a \in marked /\ (a \notin grey \/ a = obj)
      BY <3>1
    <3>4. mem[obj].ref \in marked' \cup {Nil}
      BY <3>1
    <3>5. \A a \in marked' \ grey' :
             IF mem[a].kind = "weak" THEN mem[a].ref # Nil => a \in weak_refs
                                     ELSE mem[a].ref \in marked' \cup {Nil}
      BY <1>2, <2>2, <3>2, <3>3, <3>4 DEF Marks
    <3> QED
      BY <1>2, <1>3, <3>1, <3>2, <3>5 DEF Marks
  <2> QED
    BY <2>1, <2>2
<1>8. /\ \A a \in Young(next) : mem'[a].kind = "free"
      /\ \A a \in Addr : mem'[a].fwd = Nil
      /\ Crossing(mem', rs', {})
      /\ \E n \in 0..YoungSize : FilledTo(mem', current, n)
      /\ mem' \in Cells /\ root' \in [Slots -> Addr \cup {Nil}]
  BY <1>2, <1>3 DEF Settled
<1> QED
  BY <1>1, <1>2, <1>3, <1>4, <1>5, <1>7, <1>8, SettledStep

LEMMA StepFinishMature ==
  ASSUME NEW G, HeapInv(G), FinishMature
  PROVE  Inv'
<1>1. PICK m2, h2 : m2 = mem' /\ h2 = handle'
  OBVIOUS
<1>2. /\ phase = "mark" /\ grey = {}
      /\ m2 = [a \in Addr |-> IF a \in Mature \ marked THEN Free
                              ELSE IF a \in weak_refs /\ mem[a].ref \notin marked
                                   THEN [mem[a] EXCEPT !.ref = Nil] ELSE mem[a]]
      /\ rs' = rs \cap marked
      /\ h2 = IF handle \in marked THEN handle ELSE Nil
      /\ phase' = "run" /\ marked' = {} /\ weak_refs' = {}
      /\ UNCHANGED <<current, root, unborn, baker, grey>>
  BY <1>1, Zenon DEF FinishMature
<1>3. /\ mem \in Cells /\ root \in [Slots -> Addr \cup {Nil}] /\ Sound(mem, root, G)
      /\ Bits(mem, rs) /\ (\E n \in 0..YoungSize : FilledTo(mem, current, n))
      /\ Settled /\ G \in SUBSET Addr /\ Marks(G) /\ current \in {0, 1}
  BY <1>2 DEF HeapInv, Base, Sound
<1>4. /\ Addr = Mature \cup Young(current) \cup Young(next) /\ Nil \notin Addr
      /\ Young(current) \cap Young(next) = {} /\ Young(current) \cap Mature = {}
      /\ Young(next) \cap Mature = {}
  BY <1>3, Addresses
<1>5. Free \in Cell /\ Free.kind = "free" /\ Free.fwd = Nil /\ Free.ref = Nil /\ ~Free.rem
  <2>1. 0 \in 0..Lifetime
    BY HeapAssumption
  <2> QED
    BY <2>1 DEF Free, Cell
<1>6. \A a \in Mature \ marked : m2[a] = Free
  BY <1>2, <1>4
<1>7. ASSUME NEW a \in Addr, a \notin Mature \ marked
      PROVE  /\ m2[a] \in Cell /\ m2[a].kind = mem[a].kind /\ m2[a].fwd = mem[a].fwd
             /\ m2[a].rem = mem[a].rem
             /\ m2[a].ref = IF a \in weak_refs /\ mem[a].ref \notin marked THEN Nil ELSE mem[a].ref
  <2>1. mem[a] \in Cell
    BY <1>3 DEF Cells
  <2>2. CASE a \in weak_refs /\ mem[a].ref \notin marked
    <3>1. m2[a] = [mem[a] EXCEPT !.ref = Nil]
      BY <1>2, <1>7, <2>2
    <3> QED
      BY <2>1, <2>2, <3>1 DEF Cell
  <2>3. CASE ~(a \in weak_refs /\ mem[a].ref \notin marked)
    <3>1. m2[a] = mem[a]
      BY <1>2, <1>7, <2>3
    <3> QED
      BY <2>1, <2>3, <3>1
  <2> QED
    BY <2>2, <2>3
<1>8. m2 \in Cells
  <2>1. \A a \in Addr : m2[a] \in Cell
    BY <1>5, <1>6, <1>7
  <2>2. m2 = [a \in Addr |-> m2[a]]
    BY <1>2
  <2> QED
    BY <2>1, <2>2, Zenon DEF Cells
<1>9. /\ marked \subseteq G /\ marked \in SUBSET Addr
      /\ \A s \in Slots : root[s] \in marked \cup {Nil}
      /\ h2 \in marked \cup {Nil}
  BY <1>2, <1>3 DEF Marks, Sound
<1>10. \A a \in marked : m2[a].kind # "free" /\ m2[a].ref \in marked \cup {Nil}
  <2> SUFFICES ASSUME NEW a \in marked
               PROVE  m2[a].kind # "free" /\ m2[a].ref \in marked \cup {Nil}
    OBVIOUS
  <2>1. mem[a].kind # "free" /\ a \in Addr
    BY <1>3, <1>9 DEF Sound
  <2>2. m2[a].kind = mem[a].kind
    BY <1>7, <2>1
  <2>3. m2[a].ref = IF a \in weak_refs /\ mem[a].ref \notin marked THEN Nil ELSE mem[a].ref
    BY <1>7, <2>1
  <2>4. IF mem[a].kind = "weak" THEN mem[a].ref # Nil => a \in weak_refs
                                ELSE mem[a].ref \in marked \cup {Nil}
    BY <1>2, <1>3 DEF Marks
  <2> QED
    BY <2>1, <2>2, <2>3, <2>4
<1>11. \A a \in Young(next) : m2[a].kind = "free"
  <2>1. \A a \in Young(next) : m2[a].kind = mem[a].kind
    BY <1>4, <1>7
  <2> QED
    BY <1>3, <2>1 DEF Settled
<1>12. \A a \in Mature \cup Young(next) : m2[a].kind # "free" => a \in marked
  BY <1>5, <1>6, <1>11
<1>13. next' = next /\ Space' = Space /\ current' = current
  BY <1>2 DEF next, Space
<1>15. PICK H : H = marked
  OBVIOUS
<1>16. Sound(mem, root, H)'
  <2>1. root' = root /\ handle' = h2 /\ mem' = m2
    BY <1>1, <1>2
  <2> QED
    BY <1>9, <1>10, <1>12, <1>13, <1>15, <2>1 DEF Sound, Space
<1>17. Bits(mem, rs)'
  <2>1. \A a \in rs \cap marked : a \in Mature /\ m2[a].kind # "free"
    BY <1>3, <1>10 DEF Bits
  <2>2. \A a \in Mature \ marked : m2[a].rem <=> a \in rs \cap marked
    BY <1>5, <1>6
  <2>3. ASSUME NEW a \in Addr, a \notin Mature \ marked
        PROVE  m2[a].rem <=> a \in rs \cap marked
    <3>1. m2[a].rem = mem[a].rem
      BY <1>7, <2>3
    <3>2. (mem[a].rem <=> a \in rs) /\ rs \subseteq Mature
      BY <1>3 DEF Bits
    <3> QED
      BY <2>3, <3>1, <3>2
  <2>4. \A a \in Addr : m2[a].rem <=> a \in rs \cap marked
    BY <2>2, <2>3
  <2> QED
    BY <1>1, <1>2, <2>1, <2>4 DEF Bits
<1>18. \E n \in 0..YoungSize : FilledTo(m2, current, n)
  <2>1. \A k \in 1..YoungSize : <<current, k>> \in Young(current)
    BY <1>3, CellsOfHalf
  <2>2. \A k \in 1..YoungSize : m2[<<current, k>>].kind = mem[<<current, k>>].kind
    BY <1>4, <1>7, <2>1
  <2> QED
    BY <1>3, <2>2 DEF FilledTo
<1>19. \A a \in Addr : m2[a].fwd = Nil
  <2>1. \A a \in Addr : mem[a].fwd = Nil
    BY <1>3 DEF Settled
  <2> QED
    BY <1>5, <1>6, <1>7, <2>1
<1>20. Crossing(m2, rs', {})
  <2> SUFFICES ASSUME NEW a \in Mature, m2[a].kind # "free", IsYoung(m2[a].ref)
               PROVE  a \in rs'
    BY DEF Crossing
  <2>1. a \in marked /\ a \in Addr
    BY <1>4, <1>12
  <2>2. /\ m2[a].kind = mem[a].kind
        /\ m2[a].ref = IF a \in weak_refs /\ mem[a].ref \notin marked THEN Nil ELSE mem[a].ref
    BY <1>7, <2>1
  <2>3. m2[a].ref = mem[a].ref
    BY <2>2 DEF IsYoung
  <2>4. a \in rs
    BY <1>3, <2>2, <2>3 DEF Settled, Crossing
  <2> QED
    BY <1>2, <2>1, <2>4
<1>21. /\ phase' = "run" /\ weak_refs' = {} /\ marked' = {} /\ grey' = {}
       /\ unborn' = unborn /\ UNCHANGED baker /\ root' \in [Slots -> Addr \cup {Nil}]
       /\ H \in SUBSET Addr
  BY <1>2, <1>3, <1>9, <1>15
<1>22. /\ mem' \in Cells /\ Crossing(mem', rs', {})
       /\ \E n \in 0..YoungSize : FilledTo(mem', current, n)
       /\ \A a \in Young(next) : mem'[a].kind = "free"
       /\ \A a \in Addr : mem'[a].fwd = Nil
  BY <1>1, <1>8, <1>11, <1>18, <1>19, <1>20
<1> QED
  BY <1>2, <1>13, <1>16, <1>17, <1>21, <1>22, SettledStep

-----------------------------------------------------------------------------
(* The program *)

\* What all steps of the program start from.
LEMMA Running ==
  ASSUME NEW G, HeapInv(G), phase = "run"
  PROVE  /\ mem \in Cells /\ root \in [Slots -> Addr \cup {Nil}] /\ Sound(mem, root, G)
         /\ Bits(mem, rs) /\ (\E n \in 0..YoungSize : FilledTo(mem, current, n))
         /\ Settled /\ G \in SUBSET Addr /\ current \in {0, 1} /\ unborn \subseteq Ids
         /\ weak_refs = {} /\ marked = {} /\ grey = {}
BY DEF HeapInv, Base, Sound

\* A cell that the program may allocate: the next of the nursery or a free mature one.
LEMMA Available ==
  ASSUME NEW G, HeapInv(G), phase = "run", NEW a \in allocate_object \cup FreeMature
  PROVE  /\ a \in Addr /\ mem[a].kind = "free" /\ a \notin Young(next)
         /\ \/ a \in Mature
            \/ /\ a \in Young(current)
               /\ \E n \in 0..YoungSize : /\ FilledTo(mem, current, n) /\ n < YoungSize
                                          /\ a = <<current, n + 1>>
<1>1. current \in {0, 1}
  BY Running
<1>2. PICK n \in 0..YoungSize : FilledTo(mem, current, n)
  BY Running
<1>3. Used(current) = n
  BY <1>1, <1>2, UsedIs
<1>4. /\ Addr = Mature \cup Young(current) \cup Young(next)
      /\ Young(current) \cap Young(next) = {} /\ Young(next) \cap Mature = {}
  BY <1>1, Addresses
<1>5. CASE a \in FreeMature
  BY <1>4, <1>5 DEF FreeMature
<1>6. CASE n < YoungSize /\ a = <<current, n + 1>>
  <2>1. n \in Nat /\ YoungSize \in Nat
    BY HeapAssumption
  <2>2. n + 1 \in 1..YoungSize /\ ~(n + 1 <= n)
    BY <1>6, <2>1
  <2>3. a \in Young(current)
    BY <1>1, <1>6, <2>2, CellsOfHalf
  <2>4. mem[a].kind = "free"
    BY <1>2, <1>6, <2>2 DEF FilledTo
  <2> QED
    BY <1>2, <1>4, <1>6, <2>3, <2>4
<1>7. a \in FreeMature \/ (n < YoungSize /\ a = <<current, n + 1>>)
  BY <1>3 DEF allocate_object
<1> QED
  BY <1>5, <1>6, <1>7

\* Every allocation: the new object refers to something the program has, and is
\* remembered if that crosses the generations.
LEMMA StepAllocate ==
  ASSUME NEW G, HeapInv(G), NEW s \in Slots, NEW a \in allocate_object \cup FreeMature,
         NEW kind \in {"obj", "weak"}, NEW ref \in G \cup {Nil}, NEW rem \in BOOLEAN,
         Allocate(s, a, kind, ref, rem),
         rem => a \in Mature, a \in Mature /\ IsYoung(ref) => rem
  PROVE  Inv'
<1>0. PICK m2 : m2 = mem'
  OBVIOUS
<1>1. PICK i \in unborn :
        /\ m2 = mem' /\ phase = "run"
        /\ m2 = [mem EXCEPT ![a] = [Free EXCEPT !.kind = kind, !.id = i, !.ref = ref, !.rem = rem]]
        /\ unborn' = unborn \ {i}
        /\ rs' = IF rem THEN rs \cup {a} ELSE rs
        /\ root' = [root EXCEPT ![s] = a]
        /\ UNCHANGED <<current, handle, phase, baker, weak_refs, immix>>
  BY <1>0, Zenon DEF Allocate
<1>2. /\ mem \in Cells /\ root \in [Slots -> Addr \cup {Nil}] /\ Sound(mem, root, G)
      /\ Bits(mem, rs) /\ Settled /\ G \in SUBSET Addr /\ current \in {0, 1} /\ unborn \subseteq Ids
      /\ weak_refs = {} /\ marked = {} /\ grey = {}
  BY <1>1, Running
<1>3. /\ Addr = Mature \cup Young(current) \cup Young(next) /\ Nil \notin Addr
      /\ Young(current) \cap Young(next) = {} /\ Young(current) \cap Mature = {}
      /\ Young(next) \cap Mature = {} /\ next \in {0, 1}
  BY <1>2, Addresses
<1>4. /\ a \in Addr /\ mem[a].kind = "free" /\ a \notin Young(next)
      /\ \/ a \in Mature
         \/ /\ a \in Young(current)
            /\ \E n \in 0..YoungSize : /\ FilledTo(mem, current, n) /\ n < YoungSize
                                       /\ a = <<current, n + 1>>
  BY <1>1, Available
<1>5. PICK c : c = [Free EXCEPT !.kind = kind, !.id = i, !.ref = ref, !.rem = rem]
  OBVIOUS
<1>6. m2 = [mem EXCEPT ![a] = c]
  BY <1>1, <1>5, Zenon
<1>7. c \in Cell /\ c.kind = kind /\ c.ref = ref /\ c.fwd = Nil
  <2>1. 0 \in 0..Lifetime
    BY HeapAssumption
  <2>2. i \in Ids /\ ref \in Addr \cup {Nil}
    BY <1>2
  <2> QED
    BY <1>5, <2>1, <2>2 DEF Free, Cell
<1>8. c.rem = rem
  BY <1>5 DEF Free
<1>9. m2 \in Cells
  BY <1>2, <1>4, <1>6, <1>7, CellSet
<1>10. m2[a] = c /\ \A x \in Addr \ {a} : m2[x] = mem[x]
  BY <1>2, <1>4, <1>6 DEF Cells
<1>11. a \notin G /\ a # Nil
  BY <1>2, <1>3, <1>4 DEF Sound
<1>12. PICK H : H = G \cup {a}
  OBVIOUS
<1>13. root' \in [Slots -> Addr \cup {Nil}] /\ \A u \in Slots : root'[u] \in H \cup {Nil}
  BY <1>1, <1>2, <1>4, <1>12 DEF Sound
<1>14. H \in SUBSET Addr /\ \A x \in H : m2[x].kind # "free" /\ m2[x].ref \in H \cup {Nil}
  <2>1. \A x \in G : x \in Addr \ {a}
    BY <1>2, <1>11
  <2>2. \A x \in G : m2[x].kind # "free" /\ m2[x].ref \in G \cup {Nil}
    BY <1>2, <1>10, <2>1 DEF Sound
  <2>3. m2[a].kind # "free" /\ m2[a].ref \in G \cup {Nil}
    BY <1>7, <1>10
  <2> QED
    BY <1>2, <1>4, <1>12, <2>2, <2>3
<1>15. \A x \in Mature \cup Young(next) : m2[x].kind # "free" => x \in H
  BY <1>2, <1>3, <1>10, <1>12 DEF Sound, Space
<1>16. /\ current' = current /\ next' = next /\ Space' = Space /\ handle' = handle
       /\ handle \in H \cup {Nil} /\ mem' = m2
  BY <1>1, <1>2, <1>12 DEF next, Space, Sound
<1>17. Sound(mem, root, H)'
  BY <1>13, <1>14, <1>15, <1>16 DEF Sound, Space
<1>18. a \notin rs /\ rs \subseteq Mature
  BY <1>2, <1>4 DEF Bits
<1>19. Bits(mem, rs)'
  <2>1. rs' \subseteq Mature /\ \A x \in rs' : x \in rs \/ x = a
    BY <1>1, <1>18
  <2>2. \A x \in rs : x \in Addr \ {a} /\ mem[x].kind # "free"
    BY <1>2, <1>3, <1>18 DEF Bits
  <2>3. \A x \in rs' : m2[x].kind # "free"
    BY <1>7, <1>10, <2>1, <2>2
  <2>4. m2[a].rem = rem
    BY <1>8, <1>10
  <2>5. a \in rs' <=> rem
    BY <1>1, <1>18
  <2>6. \A x \in Addr \ {a} : m2[x].rem <=> x \in rs'
    BY <1>1, <1>2, <1>10 DEF Bits
  <2>7. \A x \in Addr : m2[x].rem <=> x \in rs'
    BY <2>4, <2>5, <2>6, Zenon
  <2> QED
    BY <1>16, <2>1, <2>3, <2>7 DEF Bits
<1>20. \E n \in 0..YoungSize : FilledTo(m2, current, n)
  <2>1. \A k \in 1..YoungSize : <<current, k>> \in Young(current) /\ <<current, k>> \in Addr
    BY <1>2, CellsOfHalf
  <2>2. CASE a \in Mature
    <3>1. \A k \in 1..YoungSize : m2[<<current, k>>].kind = mem[<<current, k>>].kind
      BY <1>3, <1>10, <2>1, <2>2
    <3>2. PICK n \in 0..YoungSize : FilledTo(mem, current, n)
      BY <1>1, Running
    <3> QED
      BY <3>1, <3>2 DEF FilledTo
  <2>3. ASSUME NEW n \in 0..YoungSize, FilledTo(mem, current, n), n < YoungSize,
               a = <<current, n + 1>>
        PROVE  n + 1 \in 0..YoungSize /\ FilledTo(m2, current, n + 1)
    <3>1. n \in Nat /\ YoungSize \in Nat
      BY HeapAssumption
    <3>2. ASSUME NEW k \in 1..YoungSize
          PROVE  m2[<<current, k>>].kind # "free" <=> k <= n + 1
      <4>1. CASE k = n + 1
        BY <1>7, <1>10, <2>3, <3>1, <4>1
      <4>2. CASE k # n + 1
        <5>1. <<current, k>> # a
          BY <2>3, <4>2
        <5>2. m2[<<current, k>>].kind = mem[<<current, k>>].kind
          BY <1>10, <2>1, <5>1
        <5>3. mem[<<current, k>>].kind # "free" <=> k <= n
          BY <2>3 DEF FilledTo
        <5> QED
          BY <3>1, <4>2, <5>2, <5>3
      <4> QED
        BY <4>1, <4>2
    <3>3. n + 1 \in 0..YoungSize
      BY <2>3, <3>1
    <3> QED
      BY <3>2, <3>3 DEF FilledTo
  <2> QED
    BY <1>4, <2>2, <2>3
<1>21. \A x \in Young(next) : m2[x].kind = "free"
  BY <1>2, <1>3, <1>4, <1>10 DEF Settled
<1>22. \A x \in Addr : m2[x].fwd = Nil
  BY <1>2, <1>7, <1>10 DEF Settled
<1>23. Crossing(m2, rs', {})
  <2> SUFFICES ASSUME NEW x \in Mature, m2[x].kind # "free", IsYoung(m2[x].ref)
               PROVE  x \in rs'
    BY DEF Crossing
  <2>1. CASE x = a
    BY <1>1, <1>7, <1>10, <2>1
  <2>2. CASE x # a
    <3>1. m2[x] = mem[x]
      BY <1>3, <1>10, <2>2
    <3> QED
      BY <1>1, <1>2, <3>1 DEF Settled, Crossing
  <2> QED
    BY <2>1, <2>2
<1>24. /\ phase' = "run" /\ weak_refs' = {} /\ marked' = {} /\ grey' = {}
       /\ unborn' \subseteq unborn /\ UNCHANGED baker
  BY <1>1, <1>2 DEF immix
<1>25. /\ mem' \in Cells /\ Crossing(mem', rs', {})
       /\ \E n \in 0..YoungSize : FilledTo(mem', current, n)
       /\ \A x \in Young(next) : mem'[x].kind = "free"
       /\ \A x \in Addr : mem'[x].fwd = Nil
  BY <1>9, <1>16, <1>20, <1>21, <1>22, <1>23
<1> QED
  BY <1>1, <1>13, <1>14, <1>16, <1>17, <1>19, <1>24, <1>25, SettledStep

\* WeakRef::create has no barrier, so a WeakRef has to be in the nursery.
LEMMA StepNew ==
  ASSUME NEW G, HeapInv(G), ~WeakInMature, NEW s \in Slots, NEW t \in Slots,
         NewObject(s) \/ NewMature(s) \/ NewWeak(s, t) \/ Dup(s, t)
  PROVE  Inv'
<1>1. ~IsYoung(Nil)
  BY DEF IsYoung
<1>2. CASE NewObject(s)
  <2>1. PICK a \in allocate_object : Allocate(s, a, "obj", Nil, FALSE)
    BY <1>2 DEF NewObject
  <2> QED
    BY <1>1, <2>1, StepAllocate
<1>3. CASE NewMature(s)
  <2>1. PICK a \in FreeMature : Allocate(s, a, "obj", Nil, FALSE)
    BY <1>3 DEF NewMature
  <2> QED
    BY <1>1, <2>1, StepAllocate
<1>4. CASE NewWeak(s, t)
  <2>1. PICK a \in allocate_object :
          a \notin Mature /\ Allocate(s, a, "weak", root[t], FALSE)
    BY <1>4 DEF NewWeak
  <2>2. phase = "run"
    BY <2>1 DEF Allocate
  <2>3. PICK ref \in G \cup {Nil} : ref = root[t]
    BY <2>2, Running DEF Sound
  <2>4. Allocate(s, a, "weak", ref, FALSE)
    BY <2>1, <2>3
  <2> QED
    BY <2>1, <2>3, <2>4, StepAllocate
<1>5. CASE Dup(s, t)
  <2>1. PICK a \in allocate_object :
          root[t] # Nil /\ Allocate(s, a, mem[root[t]].kind, mem[root[t]].ref, a \in Mature)
    BY <1>5 DEF Dup
  <2>2. phase = "run"
    BY <2>1, Zenon DEF Allocate
  <2>3. root[t] \in G
    BY <2>1, <2>2, Running DEF Sound
  <2>4. PICK ref \in G \cup {Nil} : ref = mem[root[t]].ref
    BY <2>2, <2>3, Running DEF Sound
  <2>5. PICK rem \in BOOLEAN : rem = (a \in Mature)
    <3>1. (a \in Mature) \in BOOLEAN
      OBVIOUS
    <3> QED
      BY <3>1, Zenon
  <2>6. PICK kind \in {"obj", "weak"} : kind = mem[root[t]].kind
    <3>1. mem \in Cells /\ Sound(mem, root, G)
      BY <2>2, Running
    <3>2. mem[root[t]].kind # "free" /\ mem[root[t]] \in Cell
      BY <2>3, <3>1 DEF Sound, Cells
    <3> QED
      BY <3>2 DEF Cell
  <2>7. Allocate(s, a, kind, ref, rem)
    BY <2>1, <2>4, <2>5, <2>6, Zenon
  <2>8. (rem => a \in Mature) /\ (a \in Mature /\ IsYoung(ref) => rem)
    BY <2>5, Zenon
  <2> QED
    BY <2>4, <2>6, <2>7, <2>8, StepAllocate
<1> QED
  BY <1>2, <1>3, <1>4, <1>5

LEMMA StepStore ==
  ASSUME NEW G, HeapInv(G), NEW s \in Slots, NEW t \in Slots, Store(s, t)
  PROVE  Inv'
<1>1. PICK m2, obj, to : m2 = mem' /\ obj = root[s] /\ to = root[t]
  OBVIOUS
<1>2. PICK remember \in BOOLEAN : remember = write_barrier(obj, to)
  BY DEF write_barrier
<1>3. /\ phase = "run" /\ obj # Nil /\ Stored(mem, m2, obj, to, remember)
      /\ rs' = (IF remember THEN rs \cup {obj} ELSE rs)
      /\ UNCHANGED <<mutator, phase, baker, weak_refs, immix>>
  BY <1>1, <1>2, Zenon DEF Store, Stored
<1>4. /\ mem \in Cells /\ root \in [Slots -> Addr \cup {Nil}] /\ Sound(mem, root, G)
      /\ Bits(mem, rs) /\ Settled /\ G \in SUBSET Addr /\ current \in {0, 1} /\ unborn \subseteq Ids
      /\ weak_refs = {} /\ marked = {} /\ grey = {}
  BY <1>3, Running
<1>5. /\ Addr = Mature \cup Young(current) \cup Young(next) /\ Nil \notin Addr
      /\ Young(current) \cap Mature = {} /\ Young(next) \cap Mature = {} /\ next \in {0, 1}
      /\ \A a \in Addr \cup {Nil} : IsYoung(a) <=> a \in Young(current) \cup Young(next)
  BY <1>4, Addresses
<1>6. obj \in G /\ obj \in Addr /\ to \in G \cup {Nil} /\ to \in Addr \cup {Nil}
  BY <1>1, <1>3, <1>4 DEF Sound
<1>7. Updated(mem, m2, obj, to, remember)
  BY <1>3, <1>4, <1>6, BarrierUpdate
<1>8. /\ m2 \in Cells
      /\ \A a \in Addr \ {obj} : m2[a] = mem[a]
      /\ m2[obj].kind = mem[obj].kind /\ m2[obj].fwd = mem[obj].fwd /\ m2[obj].ref = to
      /\ m2[obj].rem <=> mem[obj].rem \/ remember
  BY <1>7 DEF Updated
<1>9. remember <=> ~mem[obj].rem /\ obj \in Mature /\ IsYoung(to)
  BY <1>2, <1>5, <1>6 DEF write_barrier
<1>10. \A a \in Addr : /\ m2[a].kind = mem[a].kind /\ m2[a].fwd = mem[a].fwd
                       /\ a # obj => m2[a].ref = mem[a].ref /\ m2[a].rem = mem[a].rem
  BY <1>8
<1>11. /\ current' = current /\ next' = next /\ Space' = Space /\ handle' = handle /\ mem' = m2
       /\ root' = root /\ unborn' = unborn /\ UNCHANGED baker /\ phase' = "run"
       /\ weak_refs' = {} /\ marked' = {} /\ grey' = {}
  BY <1>1, <1>3, <1>4 DEF mutator, next, Space, immix
<1>12. \A a \in G : m2[a].kind # "free" /\ m2[a].ref \in G \cup {Nil}
  BY <1>4, <1>6, <1>8, <1>10 DEF Sound
<1>13. Sound(mem, root, G)'
  <2>1. \A a \in Space : m2[a].kind # "free" => a \in G
    BY <1>4, <1>5, <1>10 DEF Sound, Space
  <2> QED
    BY <1>4, <1>11, <1>12, <2>1 DEF Sound
<1>14. Bits(mem, rs)'
  <2>1. rs' \subseteq Mature /\ \A a \in rs' : a \in Addr /\ mem[a].kind # "free"
    BY <1>3, <1>4, <1>5, <1>6, <1>9 DEF Bits, Sound
  <2>2. \A a \in Addr \ {obj} : m2[a].rem <=> a \in rs'
    BY <1>3, <1>4, <1>10 DEF Bits
  <2>3. m2[obj].rem <=> obj \in rs'
    <3>1. mem[obj].rem <=> obj \in rs
      BY <1>4, <1>6 DEF Bits
    <3> QED
      BY <1>3, <1>8, <3>1
  <2>4. \A a \in Addr : m2[a].rem <=> a \in rs'
    BY <2>2, <2>3
  <2> QED
    BY <1>10, <1>11, <2>1, <2>4 DEF Bits
<1>15. \E n \in 0..YoungSize : FilledTo(m2, current, n)
  <2>1. \A k \in 1..YoungSize : m2[<<current, k>>].kind = mem[<<current, k>>].kind
    BY <1>4, <1>10, CellsOfHalf
  <2>2. PICK n \in 0..YoungSize : FilledTo(mem, current, n)
    BY <1>3, Running
  <2> QED
    BY <2>1, <2>2 DEF FilledTo
<1>16. /\ \A a \in Young(next) : m2[a].kind = "free"
       /\ \A a \in Addr : m2[a].fwd = Nil
  BY <1>4, <1>5, <1>10 DEF Settled
<1>17. Crossing(m2, rs', {})
  <2> SUFFICES ASSUME NEW a \in Mature, m2[a].kind # "free", IsYoung(m2[a].ref)
               PROVE  a \in rs'
    BY DEF Crossing
  <2>1. CASE a = obj
    <3>1. mem[obj].rem <=> obj \in rs
      BY <1>4, <1>6 DEF Bits
    <3> QED
      BY <1>3, <1>8, <1>9, <2>1, <3>1
  <2>2. CASE a # obj
    <3>1. m2[a] = mem[a]
      BY <1>5, <1>8, <2>2
    <3> QED
      BY <1>3, <1>4, <3>1 DEF Settled, Crossing
  <2> QED
    BY <2>1, <2>2
<1>18. /\ mem' \in Cells /\ Crossing(mem', rs', {})
       /\ \E n \in 0..YoungSize : FilledTo(mem', current, n)
       /\ \A x \in Young(next) : mem'[x].kind = "free"
       /\ \A x \in Addr : mem'[x].fwd = Nil
       /\ root' \in [Slots -> Addr \cup {Nil}]
  BY <1>4, <1>8, <1>11, <1>15, <1>16, <1>17
<1> QED
  BY <1>3, <1>4, <1>11, <1>13, <1>14, <1>18, SettledStep

\* The program only gets at what G has.
LEMMA StepLoad ==
  ASSUME NEW G, HeapInv(G), NEW s \in Slots, Load(s) \/ MakeHandle(s)
  PROVE  Inv'
<1>1. /\ phase = "run" /\ UNCHANGED <<mem, current, unborn, rs, phase, baker, weak_refs, immix>>
  BY DEF Load, MakeHandle
<1>2. /\ mem \in Cells /\ root \in [Slots -> Addr \cup {Nil}] /\ Sound(mem, root, G)
      /\ Bits(mem, rs) /\ Settled /\ G \in SUBSET Addr /\ current \in {0, 1} /\ unborn \subseteq Ids
      /\ weak_refs = {} /\ marked = {} /\ grey = {}
      /\ (\E n \in 0..YoungSize : FilledTo(mem, current, n))
  BY <1>1, Running
<1>3. /\ root' \in [Slots -> Addr \cup {Nil}] /\ \A u \in Slots : root'[u] \in G \cup {Nil}
      /\ handle' \in G \cup {Nil}
  <2>1. CASE Load(s)
    <3>1. PICK v \in {Nil, handle} \cup {mem[root[t]].ref : t \in {u \in Slots : root[u] # Nil}} :
            root' = [root EXCEPT ![s] = v] /\ handle' = handle
      BY <2>1 DEF Load
    <3>2. v \in G \cup {Nil}
      BY <1>2, <3>1 DEF Sound
    <3> QED
      BY <1>2, <3>1, <3>2 DEF Sound
  <2>2. CASE MakeHandle(s)
    BY <1>2, <2>2 DEF MakeHandle, Sound
  <2> QED
    BY <2>1, <2>2
<1>4. /\ mem' = mem /\ rs' = rs /\ current' = current /\ next' = next /\ Space' = Space
      /\ unborn' = unborn /\ UNCHANGED baker /\ phase' = "run"
      /\ weak_refs' = {} /\ marked' = {} /\ grey' = {}
  BY <1>1, <1>2 DEF next, Space, immix
<1>5. Sound(mem, root, G)'
  BY <1>2, <1>3, <1>4 DEF Sound
<1>6. Bits(mem, rs)'
  BY <1>2, <1>4 DEF Bits
<1>7. /\ mem' \in Cells /\ Crossing(mem', rs', {})
      /\ \E n \in 0..YoungSize : FilledTo(mem', current, n)
      /\ \A x \in Young(next) : mem'[x].kind = "free"
      /\ \A x \in Addr : mem'[x].fwd = Nil
  BY <1>2, <1>4 DEF Settled
<1> QED
  BY <1>1, <1>2, <1>3, <1>4, <1>5, <1>6, <1>7, SettledStep

-----------------------------------------------------------------------------
(* The invariant *)

LEMMA InitInv == Init => Inv
<1> SUFFICES ASSUME Init PROVE HeapInv({})
  BY DEF Inv
<1>1. current = 0 /\ current \in {0, 1} /\ YoungSize \in Nat
  BY HeapAssumption DEF Init
<1>2. /\ next \in {0, 1} /\ Young(next) \subseteq Addr /\ Young(current) \subseteq Addr
      /\ Space \subseteq Addr /\ Mature \subseteq Addr
  BY <1>1, Addresses DEF Space
<1>3. \A a \in Addr : mem[a] = Free
  BY DEF Init
<1>4. Free \in Cell /\ Free.kind = "free" /\ Free.fwd = Nil /\ Free.ref = Nil /\ ~Free.rem
  <2>1. 0 \in 0..Lifetime
    BY HeapAssumption
  <2> QED
    BY <2>1 DEF Free, Cell
<1>5. mem \in Cells /\ root \in [Slots -> Addr \cup {Nil}]
  BY <1>4 DEF Init, Cells
<1>6. Sound(mem, root, {})
  BY <1>2, <1>3, <1>4 DEF Sound, Init
<1>7. Forwards(mem) /\ Bits(mem, rs) /\ Crossing(mem, rs, {})
  BY <1>2, <1>3, <1>4 DEF Forwards, Bits, Crossing, Init
<1>8. FilledTo(mem, current, 0)
  <2>1. \A i \in 1..YoungSize : <<current, i>> \in Addr
    BY <1>1, CellsOfHalf
  <2>2. \A i \in 1..YoungSize : ~(i <= 0)
    BY <1>1
  <2> QED
    BY <1>3, <1>4, <2>1, <2>2 DEF FilledTo
<1>9. Base(mem, root, rs, {})
  <2>1. 0 \in 0..YoungSize
    BY <1>1
  <2> QED
    BY <1>5, <1>6, <1>7, <1>8, <2>1 DEF Base
<1>10. Settled
  BY <1>2, <1>3, <1>4, <1>7 DEF Settled, Init
<1> QED
  BY <1>1, <1>9, <1>10 DEF HeapInv, Init

LEMMA NextInv ==
  ASSUME ~WeakInMature, ~BufferAlone, Inv, [Next]_vars
  PROVE  Inv'
<1>1. PICK G \in SUBSET Addr : HeapInv(G)
  BY DEF Inv
<1>2. CASE Mutate
  BY <1>1, <1>2, StepNew, StepStore, StepLoad DEF Mutate
<1>3. CASE StartYoung
  BY <1>1, <1>3, StepStartYoung
<1>4. CASE StartMature
  BY <1>1, <1>4, StepStartMature
<1>5. CASE Collect
  BY <1>1, <1>5, StepScanRemembered, StepScanRoot, StepScanPromoted, StepCopyUnscanned,
     StepTurnLoop, StepFinishYoung, StepMarkObject, StepFinishMature DEF Collect
<1>6. CASE UNCHANGED vars
  <2> USE DEF vars, mutator, baker, immix
  <2>1. next' = next /\ Space' = Space
    BY <1>6 DEF next, Space
  <2>2. Base(mem, root, rs, G)'
    BY <1>1, <1>6, <2>1 DEF HeapInv, Base, Sound, Forwards, Bits, FilledTo
  <2>3. phase \in {"run", "mark"} => Settled'
    BY <1>1, <1>6, <2>1 DEF HeapInv, Settled, Crossing
  <2>4. phase = "mark" => Marks(G)'
    BY <1>1, <1>6 DEF HeapInv, Marks
  <2>5. phase \in {"scan", "copy"} => Collecting(mem, root, rs, todo, promoted, scan, weak_refs, G)'
    <3> SUFFICES ASSUME phase \in {"scan", "copy"}
                 PROVE  Collecting(mem, root, rs, todo, promoted, scan, weak_refs, G)'
      OBVIOUS
    <3>1. Collecting(mem', root', rs', todo', promoted', scan', weak_refs', G)
      BY <1>1, <1>6 DEF HeapInv
    <3> QED
      BY <1>6, <3>1, CarryOver
  <2>6. HeapInv(G)'
    BY <1>1, <1>6, <2>2, <2>3, <2>4, <2>5 DEF HeapInv
  <2> QED
    BY <1>1, <2>6 DEF Inv
<1> QED
  BY <1>2, <1>3, <1>4, <1>5, <1>6 DEF Next

\* The inductive invariant, if no WeakRef is created in the mature space and no mature
\* object is held by a variable buffer alone.
THEOREM Invariance ==
  ASSUME ~WeakInMature, ~BufferAlone
  PROVE  Spec => []Inv
<1>1. Init => Inv
  BY InitInv
<1>2. Inv /\ [Next]_vars => Inv'
  BY NextInv
<1> QED
  BY <1>1, <1>2, PTL DEF Spec

-----------------------------------------------------------------------------
(* The theorems.  All assume that no WeakRef is allocated in the mature space, where  *)
(* WeakRef::create leaves out the write barrier (see the run WeakBarrier), and that a *)
(* mature object in a variable buffer is in another slot as well, because ImmixGC     *)
(* marks only the young objects of a buffer and frees the others.                     *)

\* The variables keep their types: the scan pointer stays in its half, ages do not pass
\* the lifetime, and what is remembered or promoted is mature.
THEOREM TypeCorrect ==
  ASSUME ~WeakInMature, ~BufferAlone
  PROVE  Spec => []TypeOK
<1>1. Inv => TypeOK
  <2> SUFFICES ASSUME NEW G, HeapInv(G) PROVE TypeOK
    BY DEF Inv
  <2>1. /\ current \in {0, 1} /\ unborn \subseteq Ids /\ phase \in {"run", "scan", "copy", "mark"}
        /\ mem \in Cells /\ root \in [Slots -> Addr \cup {Nil}] /\ rs \subseteq Mature
        /\ handle \in Addr \cup {Nil} /\ G \subseteq Addr
    BY DEF HeapInv, Base, Sound, Bits
  <2>2. Space \subseteq Addr /\ YoungSize \in Nat
    BY <2>1, Addresses, HeapAssumption DEF Space
  <2>3. CASE phase \in {"run", "mark"}
    <3>1. todo = {} /\ promoted = {} /\ scan = 0
      BY <2>3 DEF HeapInv, Settled
    <3>2. weak_refs \subseteq Addr /\ marked \subseteq Addr /\ grey \subseteq marked
      BY <2>1, <2>3 DEF HeapInv, Marks
    <3>3. scan \in 0..YoungSize
      BY <2>2, <3>1
    <3> QED
      BY <2>1, <3>1, <3>2, <3>3 DEF TypeOK, Cells, Cell
  <2>4. CASE phase \in {"scan", "copy"}
    <3>1. Work(mem, todo, promoted, weak_refs) /\ Room(mem, scan) /\ marked = {} /\ grey = {}
      BY <2>4 DEF HeapInv, Collecting
    <3>2. scan \in 0..YoungSize
      BY <2>2, <3>1 DEF Room
    <3>3. weak_refs \subseteq Addr
      BY <2>2, <3>1 DEF Work
    <3> QED
      BY <2>1, <3>1, <3>2, <3>3 DEF TypeOK, Work, Cells, Cell
  <2> QED
    BY <2>1, <2>3, <2>4
<1> QED
  BY <1>1, Invariance, PTL

\* Memory safety: at every moment, the middle of a collection included, all that the
\* program can get at from its slots and the handle, by any number of loads, exists;
\* no reference leads to a cell that has been freed or given up.
MemorySafe == \E G \in SUBSET Addr : Sound(mem, root, G)

\* The collectors never free or give up a cell that the program, a field it can load, a
\* WeakRef or the handle refers to, if no mature object is in a variable buffer alone.
THEOREM NothingDangles ==
  ASSUME ~WeakInMature, ~BufferAlone
  PROVE  Spec => []MemorySafe
<1>1. Inv => MemorySafe
  BY DEF Inv, HeapInv, Base, MemorySafe
<1> QED
  BY <1>1, Invariance, PTL

\* A WeakRef that the program holds is nil or refers to an object that exists: what
\* BakerGC::collect says of clean_weakrefs, for WeakRefs of the nursery.
THEOREM WeakRefsKept ==
  ASSUME ~WeakInMature, ~BufferAlone
  PROVE  Spec => []WeakRefsValid
<1>1. Inv => WeakRefsValid
  BY DEF Inv, HeapInv, Base, Sound, WeakRefsValid
<1> QED
  BY <1>1, Invariance, PTL

\* The remember set is exact: it has every mature object that refers to a young one, and
\* the Remember bit says who is in it.
THEOREM RememberSetExact ==
  ASSUME ~WeakInMature, ~BufferAlone
  PROVE  Spec => []Remembered
<1>1. Inv => Remembered
  <2> SUFFICES ASSUME NEW G, HeapInv(G), phase = "run" PROVE Remembered
    BY DEF Inv, Remembered
  <2>1. Bits(mem, rs) /\ Crossing(mem, rs, {}) /\ Mature \subseteq Addr
    BY Running, Addresses DEF Settled
  <2> QED
    BY <2>1 DEF Remembered, Bits, Crossing
<1> QED
  BY <1>1, Invariance, PTL

\* What a young collection has scanned does not refer to the half it gives up.
THEOREM NothingLeftBehind ==
  ASSUME ~WeakInMature, ~BufferAlone
  PROVE  Spec => []ScannedLeft
<1>1. Inv => ScannedLeft
  <2> SUFFICES ASSUME NEW G, HeapInv(G), phase \in {"scan", "copy"} PROVE ScannedLeft
    BY DEF Inv, ScannedLeft
  <2>1. /\ current \in {0, 1} /\ Left(mem, root, todo, promoted, scan, weak_refs)
        /\ mem \in Cells /\ root \in [Slots -> Addr \cup {Nil}] /\ Room(mem, scan)
    BY DEF HeapInv, Collecting, Base
  <2>2. /\ Mature \subseteq Addr /\ next \in {0, 1}
        /\ \A a \in Addr \cup {Nil} : IsYoung(a) /\ a[1] = current <=> a \in Young(current)
    BY <2>1, Addresses
  <2>3. \A s \in Slots \ todo : ~(IsYoung(root[s]) /\ root[s][1] = current)
    BY <2>1, <2>2 DEF Left
  <2>4. ASSUME NEW a \in Mature, mem[a].kind # "free", a \notin todo \cup promoted
        PROVE  (mem[a].kind = "weak" /\ a \in weak_refs)
               \/ ~(IsYoung(mem[a].ref) /\ mem[a].ref[1] = current)
    <3>1. mem[a].ref \in Addr \cup {Nil}
      BY <2>1, <2>2 DEF Cells, Cell
    <3> QED
      BY <2>1, <2>2, <2>4, <3>1 DEF Left
  <2>5. ASSUME NEW i \in 1..scan
        PROVE  (mem[<<next, i>>].kind = "weak" /\ <<next, i>> \in weak_refs)
               \/ ~(IsYoung(mem[<<next, i>>].ref) /\ mem[<<next, i>>].ref[1] = current)
    <3>1. i \in 1..YoungSize
      <4>1. YoungSize \in Nat
        BY HeapAssumption
      <4>2. scan \in 0..YoungSize
        BY <2>1, <4>1 DEF Room
      <4> QED
        BY <4>1, <4>2
    <3>2. <<next, i>> \in Addr
      BY <2>2, <3>1, CellsOfHalf
    <3>3. mem[<<next, i>>].ref \in Addr \cup {Nil}
      BY <2>1, <3>2 DEF Cells, Cell
    <3> QED
      BY <2>1, <2>2, <3>3 DEF Left
  <2> QED
    BY <2>3, <2>4, <2>5 DEF ScannedLeft
<1> QED
  BY <1>1, Invariance, PTL

\* The survivors fit into the next half: the branch of saw_object that promotes for lack
\* of room is never taken.
THEOREM RoomForSurvivors ==
  ASSUME ~WeakInMature, ~BufferAlone
  PROVE  Spec => []SurvivorsFit
<1>1. Inv => SurvivorsFit
  <2> SUFFICES ASSUME NEW G, HeapInv(G), phase \in {"scan", "copy"} PROVE SurvivorsFit
    BY DEF Inv, SurvivorsFit
  <2>1. current \in {0, 1} /\ Room(mem, scan)
    BY DEF HeapInv, Collecting
  <2>2. /\ next \in {0, 1} /\ Young(current) \subseteq Addr
        /\ \A a \in Addr \cup {Nil} : IsYoung(a) /\ a[1] = current <=> a \in Young(current)
    BY <2>1, Addresses
  <2>3. PICK n \in 0..YoungSize : /\ FilledTo(mem, next, n)
                                  /\ n + Cardinality(Unmoved(mem)) <= YoungSize
    BY <2>1 DEF Room
  <2>4. Used(next) = n
    BY <2>2, <2>3, UsedIs
  <2>5. {a \in Young(current) : Moves(a) /\ mem[a].kind # "free"} = Unmoved(mem)
    BY <2>2 DEF Moves, Unmoved
  <2> QED
    BY <2>3, <2>4, <2>5 DEF SurvivorsFit
<1> QED
  BY <1>1, Invariance, PTL
=============================================================================
