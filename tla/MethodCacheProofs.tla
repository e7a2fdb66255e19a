-------------------------- MODULE MethodCacheProofs --------------------------
(* Proofs about MethodCache, for any number of threads, classes, names, slots *)
(* and call sites, any superclass chains and any hash: once the changes of a  *)
(* name have been followed by their resets, the global cache and the call     *)
(* sites agree with the method tables.                                        *)
EXTENDS MethodCache, WellFoundedInduction, SequenceTheorems, TLAPS

-----------------------------------------------------------------------------
(* Minima.                                                                    *)

Below == {p \in Nat \X Nat : p[1] < p[2]}

\* Min, as the lookup uses it: a nonempty set of naturals has its least element.
LEMMA MinOfNats ==
  ASSUME NEW T \in SUBSET Nat, T # {}
  PROVE  Min(T) \in T /\ \A y \in T : Min(T) <= y
  <1>1. IsWellFoundedOn(Below, Nat)
    BY NatLessThanWellFounded DEF OpToRel, Below
  <1>2. PICK x \in T : \A y \in T : ~(<<y, x>> \in Below)
    BY <1>1, WFMin
  <1>3. ASSUME NEW y \in T PROVE x <= y
    <2>1. x \in Nat /\ y \in Nat
      OBVIOUS
    <2>2. ~(<<y, x>> \in Below)
      BY <1>2
    <2> QED
      BY <2>1, <2>2 DEF Below
  <1> QED
    BY <1>3 DEF Min

\* The minimum is the only element below all others.
LEMMA MinIs ==
  ASSUME NEW T \in SUBSET Nat, NEW x \in T, \A y \in T : x <= y
  PROVE  Min(T) = x
  <1>1. Min(T) \in T /\ Min(T) <= x
    BY MinOfNats
  <1>2. x <= Min(T) /\ x \in Nat /\ Min(T) \in Nat
    BY <1>1
  <1> QED
    BY <1>1, <1>2

-----------------------------------------------------------------------------
(* The lookup. Ends and Entries are the positions that Find and Nearest take   *)
(* the least of.                                                               *)
Ends(c, n)    == {i \in DOMAIN chain[c] : Entry(c, n, i).vis = "undef" \/ Entry(c, n, i).method # Nil}
Entries(c, n) == {i \in DOMAIN chain[c] : Entry(c, n, i) # None}

(* Shape of the state: TypeOK, and that an entry of the global cache which is *)
(* not empty is complete.                                                     *)
GlobalFilled == \A x \in Slots : global[x] # Empty => /\ global[x].klass \in Classes
                                                      /\ global[x].name \in Names
                                                      /\ global[x].method \in Methods
Shape == TypeOK /\ GlobalFilled

\* Positions of a chain are naturals and lead to tables; an entry that ends the lookup
\* is an entry, and is a method or undef.
LEMMA EntryFacts ==
  ASSUME TypeOK, NEW c \in Classes, NEW n \in Names
  PROVE  /\ DOMAIN chain[c] \subseteq Nat
         /\ \A i \in DOMAIN chain[c] : chain[c][i] \in Tables
         /\ \A i \in DOMAIN chain[c] :
              /\ Entry(c, n, i) \in [method : Methods \cup {Nil}, vis : Vis \cup {"none", "undef"}]
              /\ Entry(c, n, i).vis = "undef" => Entry(c, n, i) = Undef
              /\ Entry(c, n, i).vis = "none" => Entry(c, n, i) = None
         /\ Ends(c, n) \subseteq Entries(c, n)
  <1>1. DOMAIN chain[c] = 1..Len(chain[c]) /\ chain[c] \in [1..Len(chain[c]) -> Tables]
    BY LenProperties DEF TypeOK
  <1>2. DOMAIN chain[c] \subseteq Nat
    BY <1>1, LenProperties
  <1>3. \A i \in DOMAIN chain[c] : chain[c][i] \in Tables
    BY <1>1
  <1>4. \A i \in DOMAIN chain[c] :
           /\ Entry(c, n, i) \in [method : Methods \cup {Nil}, vis : Vis \cup {"none", "undef"}]
           /\ Entry(c, n, i).vis = "undef" => Entry(c, n, i) = Undef
           /\ Entry(c, n, i).vis = "none" => Entry(c, n, i) = None
    BY <1>3 DEF TypeOK, Entry, Undef, None
  <1>5. Ends(c, n) \subseteq Entries(c, n)
    BY <1>4 DEF Ends, Entries, None
  <1> QED
    BY <1>2, <1>3, <1>4, <1>5

\* What Find returns: nothing, or the entry of the chain that holds the first method.
LEMMA FindFacts ==
  ASSUME TypeOK, NEW c \in Classes, NEW n \in Names
  PROVE  \/ Find(c, n) = None
         \/ /\ Ends(c, n) # {} /\ Min(Ends(c, n)) \in Ends(c, n)
            /\ Find(c, n) = Entry(c, n, Min(Ends(c, n)))
            /\ Find(c, n).method \in Methods
            /\ Find(c, n).vis \in Vis
  <1> SUFFICES ASSUME Find(c, n) # None
               PROVE  /\ Ends(c, n) # {} /\ Min(Ends(c, n)) \in Ends(c, n)
                      /\ Find(c, n) = Entry(c, n, Min(Ends(c, n)))
                      /\ Find(c, n).method \in Methods
                      /\ Find(c, n).vis \in Vis
    OBVIOUS
  <1>1. /\ Ends(c, n) # {} /\ Entry(c, n, Min(Ends(c, n))) # Undef
        /\ Find(c, n) = Entry(c, n, Min(Ends(c, n)))
    BY DEF Find, Ends
  <1>2. Min(Ends(c, n)) \in Ends(c, n)
    BY <1>1, EntryFacts, MinOfNats DEF Ends
  <1> DEFINE e == Entry(c, n, Min(Ends(c, n)))
  <1>3. /\ e \in [method : Methods \cup {Nil}, vis : Vis \cup {"none", "undef"}]
        /\ e.vis # "undef"
        /\ e # None /\ e.vis # "none"
    BY <1>1, <1>2, EntryFacts DEF Ends, Entries
  <1>4. e.method # Nil
    BY <1>2, <1>3 DEF Ends
  <1> QED
    BY <1>1, <1>2, <1>3, <1>4

\* The entry that a public call tests is there when something is found, and comes no
\* later than the method.
LEMMA NearestFacts ==
  ASSUME TypeOK, NEW c \in Classes, NEW n \in Names, Find(c, n) # None
  PROVE  /\ Nearest(c, n) \in Entries(c, n)
         /\ Entry(c, n, Nearest(c, n)).method # Nil => Find(c, n) = Entry(c, n, Nearest(c, n))
  <1>1. /\ Ends(c, n) # {} /\ Min(Ends(c, n)) \in Ends(c, n)
        /\ Find(c, n) = Entry(c, n, Min(Ends(c, n)))
    BY FindFacts
  <1>2. /\ Entries(c, n) \in SUBSET Nat /\ Entries(c, n) # {}
        /\ Ends(c, n) \in SUBSET Nat /\ Ends(c, n) \subseteq Entries(c, n)
    BY <1>1, EntryFacts DEF Ends, Entries
  <1>3. Nearest(c, n) = Min(Entries(c, n))
    BY DEF Nearest, Entries
  <1>4. Nearest(c, n) \in Entries(c, n) /\ \A i \in Entries(c, n) : Nearest(c, n) <= i
    BY <1>2, <1>3, MinOfNats
  <1>5. ASSUME Entry(c, n, Nearest(c, n)).method # Nil PROVE Find(c, n) = Entry(c, n, Nearest(c, n))
    <2>1. Nearest(c, n) \in Ends(c, n)
      BY <1>4, <1>5 DEF Ends, Entries
    <2>2. Min(Ends(c, n)) = Nearest(c, n)
      BY <1>2, <1>4, <2>1, MinIs
    <2> QED
      BY <1>1, <2>2
  <1> QED
    BY <1>4, <1>5

-----------------------------------------------------------------------------
(* The types. *)

\* The tables are typed; a marker or no entry has no method.
TablesTyped(t) ==
  /\ t \in [Tables \X Names -> [method : Methods \cup {Nil}, vis : Vis \cup {"none", "undef"}]]
  /\ \A k \in Tables \X Names : t[k].vis \in {"none", "undef"} => t[k].method = Nil
Filled == [klass : Classes, name : Names, method : Methods, public : BOOLEAN]

\* A change of one entry of a table leaves the tables typed.
LEMMA StoreTyped ==
  ASSUME TablesTyped(table), NEW c \in Tables, NEW n \in Names, NEW e,
         e \in [method : Methods \cup {Nil}, vis : Vis \cup {"none", "undef"}],
         e.vis \in {"none", "undef"} => e.method = Nil,
         table' = [table EXCEPT ![<<c, n>>] = e]
  PROVE  TablesTyped(table')
  BY DEF TablesTyped

\* What the global cache returns for a key that it has.
LEMMA LookupFacts ==
  ASSUME Shape, NEW c \in Classes, NEW n \in Names, lookup(c, n) # Empty
  PROVE  /\ Hash[<<c, n>>] \in Slots
         /\ lookup(c, n) = global[Hash[<<c, n>>]]
         /\ lookup(c, n).klass = c /\ lookup(c, n).name = n /\ lookup(c, n).method \in Methods
  <1>1. Hash[<<c, n>>] \in Slots
    BY CacheAssumption
  <1>2. lookup(c, n) = global[Hash[<<c, n>>]] /\ lookup(c, n).klass = c /\ lookup(c, n).name = n
    BY DEF lookup
  <1> QED
    BY <1>1, <1>2 DEF Shape, GlobalFilled

\* retain keeps the cache typed and filled.
LEMMA RetainTyped ==
  ASSUME Shape, NEW c \in Classes, NEW n \in Names, NEW p \in BOOLEAN, NEW e, e.method \in Methods,
         retain(c, n, e, p)
  PROVE  /\ global' \in [Slots -> [klass : Classes \cup {Nil}, name : Names \cup {Nil},
                                   method : Methods \cup {Nil}, public : BOOLEAN]]
         /\ GlobalFilled'
  <1>1. Hash[<<c, n>>] \in Slots
    BY CacheAssumption
  <1> QED
    BY <1>1 DEF retain, Shape, TypeOK, GlobalFilled

\* fill keeps the call sites typed.
LEMMA FillTyped ==
  ASSUME Shape, NEW s \in Sites, NEW c \in Classes, NEW m \in Methods \cup {Nil},
         NEW b \in {"mm", "class", "immediate"}, b = "mm" <=> m = Nil, fill(s, c, m, b)
  PROVE  /\ ic' \in [Sites -> [klass : Classes \cup {Nil}, method : Methods \cup {Nil},
                               backend : {"empty", "mm", "class", "immediate"}]]
         /\ \A r \in Sites : ic'[r].backend \in {"class", "immediate"} <=> ic'[r].method # Nil
  BY DEF fill, Shape, TypeOK

LEMMA InitShape == Init => Shape
  <1> SUFFICES ASSUME Init PROVE Shape
    OBVIOUS
  <1>1. \A c \in Classes : chain[c] \in Seq(Tables)
    <2> SUFFICES ASSUME NEW c \in Classes PROVE chain[c] \in Seq(Tables)
      OBVIOUS
    <2>1. chain[c] \in Seq(Classes)
      BY CacheAssumption DEF Init
    <2> QED
      BY <2>1, SeqMonotonic DEF Tables
  <1>2. TablesTyped(table)
    BY DEF Init, TablesTyped, None
  <1>3. global \in [Slots -> [klass : Classes \cup {Nil}, name : Names \cup {Nil},
                              method : Methods \cup {Nil}, public : BOOLEAN]] /\ GlobalFilled
    BY DEF Init, Empty, GlobalFilled
  <1>4. /\ ic \in [Sites -> [klass : Classes \cup {Nil}, method : Methods \cup {Nil},
                             backend : {"empty", "mm", "class", "immediate"}]]
        /\ \A s \in Sites : ic[s].backend \in {"class", "immediate"} <=> ic[s].method # Nil
    BY DEF Init, Unused
  <1>5. private \subseteq Sites /\ resets \in [Threads -> Names \cup {Nil}] /\ unreset \subseteq Names
    BY DEF Init
  <1> QED
    BY <1>1, <1>2, <1>3, <1>4, <1>5 DEF Shape, TypeOK, TablesTyped

-----------------------------------------------------------------------------
(* include.                                                                   *)

\* What attach_to returns: the chain with the module behind a position k, where c is.
Inserted(a, s, k) == /\ a \in Seq(Tables) /\ Len(a) = Len(s) + 1
                     /\ \A i \in 1..k : a[i] = s[i]
                     /\ a[k + 1] = Mixin
                     /\ \A i \in (k + 1)..Len(s) : a[i + 1] = s[i]

LEMMA InsertFacts ==
  ASSUME NEW s \in Seq(Tables), NEW k \in 1..Len(s)
  PROVE  Inserted(InsertAt(s, 1 + k, Mixin), s, k)
  <1> DEFINE p == SubSeq(s, 1, (1 + k) - 1)
             q == p \o <<Mixin>>
             r == SubSeq(s, 1 + k, Len(s))
  <1>1. Len(s) \in Nat /\ k \in Nat /\ 1 <= k /\ k <= Len(s) /\ (1 + k) - 1 = k
    BY LenProperties
  <1>2. \A i \in 1..Len(s) : s[i] \in Tables
    BY ElementOfSeq
  <1>3. p \in Seq(Tables) /\ Len(p) = k /\ \A i \in 1..k : p[i] = s[i]
    <2>1. \A i \in 1..k : s[i] \in Tables
      BY <1>1, <1>2
    <2>2. /\ SubSeq(s, 1, k) \in Seq(Tables)
          /\ Len(SubSeq(s, 1, k)) = IF 1 <= k THEN k - 1 + 1 ELSE 0
          /\ \A i \in 1..(k - 1 + 1) : SubSeq(s, 1, k)[i] = s[1 + i - 1]
      BY <1>1, <2>1, SubSeqProperties
    <2> QED
      BY <1>1, <2>2
  <1>4. r \in Seq(Tables) /\ Len(r) = Len(s) - k /\ \A i \in 1..(Len(s) - k) : r[i] = s[k + i]
    <2>1. PICK l \in Nat : l = Len(s)
      BY <1>1
    <2>2. \A i \in (1 + k)..l : s[i] \in Tables
      BY <1>1, <1>2, <2>1
    <2>3. /\ SubSeq(s, 1 + k, l) \in Seq(Tables)
          /\ Len(SubSeq(s, 1 + k, l)) = IF 1 + k <= l THEN l - (1 + k) + 1 ELSE 0
          /\ \A i \in 1..(l - (1 + k) + 1) : SubSeq(s, 1 + k, l)[i] = s[(1 + k) + i - 1]
      BY <1>1, <2>2, SubSeqProperties
    <2> QED
      BY <1>1, <2>1, <2>3
  <1> HIDE DEF p, r
  <1>5. <<Mixin>> \in Seq(Tables) /\ Len(<<Mixin>>) = 1 /\ <<Mixin>>[1] = Mixin
    BY DEF Tables
  <1>6. /\ q \in Seq(Tables) /\ Len(q) = k + 1
        /\ \A i \in 1..k : q[i] = s[i]
        /\ q[k + 1] = Mixin
    <2>1. /\ q \in Seq(Tables) /\ Len(q) = Len(p) + 1
          /\ \A i \in 1..(Len(p) + 1) : q[i] = IF i <= Len(p) THEN p[i] ELSE <<Mixin>>[i - Len(p)]
      BY <1>3, <1>5, ConcatProperties
    <2> HIDE DEF q
    <2>2. Len(q) = k + 1 /\ \A i \in 1..k : q[i] = s[i]
      BY <1>1, <1>3, <2>1
    <2>3. q[k + 1] = <<Mixin>>[(k + 1) - k]
      BY <1>1, <1>3, <2>1
    <2>4. (k + 1) - k = 1
      BY <1>1
    <2>5. q[k + 1] = Mixin
      BY <1>5, <2>3, <2>4
    <2> QED
      BY <2>1, <2>2, <2>5
  <1> HIDE DEF q
  <1>7. /\ q \o r \in Seq(Tables) /\ Len(q \o r) = Len(q) + Len(r)
        /\ \A i \in 1..(Len(q) + Len(r)) : (q \o r)[i] = IF i <= Len(q) THEN q[i] ELSE r[i - Len(q)]
    BY <1>4, <1>6, ConcatProperties
  <1>8. Inserted(q \o r, s, k)
    <2>1. Len(q \o r) = Len(s) + 1
      BY <1>1, <1>4, <1>6, <1>7
    <2>2. \A i \in 1..k : (q \o r)[i] = s[i]
      BY <1>1, <1>4, <1>6, <1>7
    <2>3. (q \o r)[k + 1] = Mixin
      BY <1>1, <1>4, <1>6, <1>7
    <2>4. ASSUME NEW i \in (k + 1)..Len(s) PROVE (q \o r)[i + 1] = s[i]
      <3>1. i \in Nat /\ i + 1 \in 1..(Len(q) + Len(r)) /\ ~(i + 1 <= Len(q))
        BY <1>1, <1>4, <1>6
      <3>2. (q \o r)[i + 1] = r[i + 1 - Len(q)]
        BY <1>7, <3>1
      <3>3. i + 1 - Len(q) = i - k /\ i - k \in 1..(Len(s) - k) /\ k + (i - k) = i
        BY <1>1, <1>6
      <3>4. r[i - k] = s[k + (i - k)]
        BY <1>4, <3>3
      <3> QED
        BY <3>2, <3>3, <3>4
    <2> QED
      BY <1>7, <2>1, <2>2, <2>3, <2>4 DEF Inserted
  <1>9. InsertAt(s, 1 + k, Mixin) = q \o r
    BY DEF InsertAt, q, p, r
  <1> QED
    BY <1>8, <1>9

LEMMA AttachFacts ==
  ASSUME NEW s \in Seq(Tables), NEW c \in ToSet(s)
  PROVE  \E k \in 1..Len(s) : Inserted(attach_to(c, s), s, k)
  <1> DEFINE at == {i \in DOMAIN s : s[i] = c}
             k  == Min(at)
  <1>1. DOMAIN s = 1..Len(s) /\ Len(s) \in Nat
    BY LenProperties
  <1>2. at \in SUBSET Nat /\ at # {} /\ at \subseteq 1..Len(s)
    BY <1>1 DEF ToSet
  <1>3. k \in 1..Len(s)
    <2> HIDE DEF at
    <2> QED
      BY <1>2, MinOfNats
  <1>4. attach_to(c, s) = InsertAt(s, 1 + k, Mixin)
    BY DEF attach_to
  <1> HIDE DEF k
  <1> QED
    BY <1>3, <1>4, InsertFacts

-----------------------------------------------------------------------------
(* Preservation of the shape. *)

LEMMA ShapeStep == Shape /\ [Next]_vars => Shape'
  <1> SUFFICES ASSUME Shape, [Next]_vars PROVE Shape'
    OBVIOUS
  <1> DEFINE GlobalTyped == global \in [Slots -> [klass : Classes \cup {Nil}, name : Names \cup {Nil},
                                                  method : Methods \cup {Nil}, public : BOOLEAN]]
             IcTyped == /\ ic \in [Sites -> [klass : Classes \cup {Nil}, method : Methods \cup {Nil},
                                             backend : {"empty", "mm", "class", "immediate"}]]
                        /\ \A s \in Sites : ic[s].backend \in {"class", "immediate"} <=> ic[s].method # Nil
             ChainTyped == \A c \in Classes : chain[c] \in Seq(Tables)
             RestTyped == /\ private \subseteq Sites /\ resets \in [Threads -> Names \cup {Nil}]
                          /\ unreset \subseteq Names
  <1>s. /\ TablesTyped(table) /\ GlobalTyped /\ GlobalFilled /\ IcTyped /\ ChainTyped /\ RestTyped
        /\ DOMAIN table = Tables \X Names
    BY DEF Shape, TypeOK, TablesTyped
  <1>p. ASSUME TablesTyped(table)', GlobalTyped', GlobalFilled', IcTyped', ChainTyped', RestTyped'
        PROVE  Shape'
    BY <1>p DEF Shape, TypeOK, TablesTyped
  <1>1. ASSUME UNCHANGED vars PROVE Shape'
    BY <1>1, <1>s, <1>p DEF vars, TablesTyped, GlobalFilled
  <1>2. ASSUME NEW t \in Threads, NEW c \in Tables, NEW n \in Names, NEW e, Store(t, c, n, e),
               e \in [method : Methods \cup {Nil}, vis : Vis \cup {"none", "undef"}],
               e.vis \in {"none", "undef"} => e.method = Nil
        PROVE  Shape'
    <2>1. TablesTyped(table)'
      BY <1>2, <1>s, StoreTyped DEF Store
    <2>2. /\ global' = global /\ ic' = ic /\ chain' = chain /\ private' = private /\ unreset' = unreset
          /\ resets' = [resets EXCEPT ![t] = n]
      BY <1>2 DEF Store
    <2>3. RestTyped'
      BY <1>s, <2>2
    <2>4. GlobalTyped' /\ GlobalFilled' /\ IcTyped' /\ ChainTyped'
      BY <1>s, <2>2 DEF GlobalFilled
    <2> QED
      BY <1>p, <2>1, <2>3, <2>4
  <1>3. ASSUME NEW t \in Threads, NEW c \in Tables, NEW n \in Names, add_method(t, c, n) PROVE Shape'
    <2>1. PICK m \in Methods, v \in Vis : Store(t, c, n, [method |-> m, vis |-> v])
      BY <1>3 DEF add_method
    <2>2. v \notin {"none", "undef"}
      BY CacheAssumption
    <2> QED
      BY <1>2, <2>1, <2>2
  <1>4. ASSUME NEW t \in Threads, NEW c \in Classes, NEW n \in Names,
               undef_method(t, c, n) \/ remove_method(t, c, n) \/ set_visibility(t, c, n)
        PROVE  Shape'
    <2>1. c \in Tables
      BY DEF Tables
    <2>2. CASE undef_method(t, c, n)
      BY <1>2, <2>1, <2>2 DEF undef_method, Undef
    <2>3. CASE remove_method(t, c, n)
      BY <1>2, <2>1, <2>3 DEF remove_method, None
    <2>4. CASE set_visibility(t, c, n)
      <3>1. PICK v \in Vis : Store(t, c, n, [table[<<c, n>>] EXCEPT !.vis = v])
        BY <2>4 DEF set_visibility
      <3>2. v \notin {"none", "undef"}
        BY CacheAssumption
      <3>3. table[<<c, n>>] \in [method : Methods \cup {Nil}, vis : Vis \cup {"none", "undef"}]
        BY <1>s, <2>1 DEF TablesTyped
      <3> QED
        BY <1>2, <2>1, <3>1, <3>2, <3>3
    <2> QED
      BY <1>4, <2>2, <2>3, <2>4
  <1>5. ASSUME NEW t \in Threads, reset_method_cache(t) PROVE Shape'
    <2>1. /\ UNCHANGED <<table, chain, private>>
          /\ global' = clear_global(resets[t]) /\ ic' = clear_inline(resets[t])
          /\ resets' = [resets EXCEPT ![t] = Nil] /\ unreset' = unreset \ {resets[t]}
      BY <1>5 DEF reset_method_cache
    <2>2. TablesTyped(table)' /\ ChainTyped' /\ RestTyped'
      BY <1>s, <2>1 DEF TablesTyped
    <2>3. GlobalTyped' /\ GlobalFilled'
      BY <1>s, <2>1 DEF clear_global, Empty, GlobalFilled
    <2>4. IcTyped'
      BY <1>s, <2>1 DEF clear_inline, Unused
    <2> QED
      BY <1>p, <2>2, <2>3, <2>4
  <1>6. ASSUME NEW c \in Classes, include(c) PROVE Shape'
    <2>1. /\ UNCHANGED <<table, global, ic, resets, private>>
          /\ unreset' = unreset \cup {n \in Names : table[<<Mixin, n>>] # None}
          /\ chain' = [d \in Classes |-> IF c \in ToSet(chain[d]) THEN attach_to(c, chain[d]) ELSE chain[d]]
      BY <1>6 DEF include
    <2>2. ChainTyped'
      <3> SUFFICES ASSUME NEW d \in Classes PROVE chain'[d] \in Seq(Tables)
        OBVIOUS
      <3>1. chain[d] \in Seq(Tables)
        BY <1>s
      <3>2. CASE c \in ToSet(chain[d])
        BY <2>1, <3>1, <3>2, AttachFacts DEF Inserted
      <3> QED
        BY <2>1, <3>1, <3>2
    <2>3. TablesTyped(table)' /\ GlobalTyped' /\ GlobalFilled' /\ IcTyped' /\ RestTyped'
      BY <1>s, <2>1 DEF TablesTyped, GlobalFilled
    <2> QED
      BY <1>p, <2>2, <2>3
  <1>7. ASSUME NEW c \in Classes, NEW n \in Names, capi_define(c, n) PROVE Shape'
    <2>1. PICK m \in Methods, v \in Vis : table' = [table EXCEPT ![<<c, n>>] = [method |-> m, vis |-> v]]
      BY <1>7 DEF capi_define
    <2>2. c \in Tables /\ v \notin {"none", "undef"} /\ Hash[<<c, n>>] \in Slots
      BY CacheAssumption DEF Tables
    <2>3. TablesTyped(table)'
      BY <1>s, <2>1, <2>2, StoreTyped
    <2>4. GlobalTyped' /\ GlobalFilled'
      BY <1>7, <1>s, <2>2 DEF capi_define, Empty, GlobalFilled
    <2>5. UNCHANGED <<chain, ic, resets, private>> /\ unreset' = unreset \cup {n}
      BY <1>7 DEF capi_define
    <2>6. ChainTyped' /\ IcTyped' /\ RestTyped'
      BY <1>s, <2>5
    <2> QED
      BY <1>p, <2>3, <2>4, <2>6
  <1>8. ASSUME UNCHANGED <<table, chain, resets, unreset, private>>, GlobalTyped', GlobalFilled', IcTyped'
        PROVE  Shape'
    BY <1>8, <1>s, <1>p DEF TablesTyped
  <1>9. ASSUME NEW c \in Classes, NEW n \in Names, NEW q \in BOOLEAN, Resolve(c, n, q) PROVE Shape'
    <2>1. Find(c, n) # None /\ UNCHANGED <<table, chain, ic, resets, unreset, private>>
      BY <1>9 DEF Resolve
    <2>2. Find(c, n).method \in Methods
      BY <2>1, FindFacts DEF Shape
    <2>3. PICK b \in BOOLEAN : retain(c, n, Find(c, n), b)
      BY <1>9 DEF Resolve
    <2>4. GlobalTyped' /\ GlobalFilled'
      BY <2>2, <2>3, RetainTyped
    <2>5. IcTyped'
      BY <1>s, <2>1
    <2> QED
      BY <1>8, <2>1, <2>4, <2>5
  <1>10. ASSUME NEW s \in Sites, NEW c \in Classes, CallCached(s, c) PROVE Shape'
    <2>1. Name[s] \in Names /\ lookup(c, Name[s]) # Empty
      BY <1>10, CacheAssumption DEF CallCached, CachedFor
    <2>2. lookup(c, Name[s]).method \in Methods /\ Nil \notin Methods
      BY <2>1, LookupFacts, CacheAssumption
    <2>3. fill(s, c, lookup(c, Name[s]).method, BackendFor(s, c)) /\ BackendFor(s, c) \in {"class", "immediate"}
      BY <1>10 DEF CallCached, BackendFor
    <2>4. IcTyped'
      BY <2>2, <2>3, FillTyped
    <2>5. UNCHANGED <<table, chain, global, resets, unreset, private>>
      BY <1>10 DEF CallCached
    <2> QED
      BY <1>8, <1>s, <2>4, <2>5 DEF GlobalFilled
  <1>11. ASSUME NEW s \in Sites, NEW c \in Classes, NEW self \in Classes, CallFound(s, c, self) PROVE Shape'
    <2>1. Name[s] \in Names /\ Find(c, Name[s]) # None
      BY <1>11, CacheAssumption DEF CallFound, Found
    <2>2. Find(c, Name[s]).method \in Methods /\ Nil \notin Methods
      BY <2>1, FindFacts, CacheAssumption DEF Shape
    <2>3. fill(s, c, Find(c, Name[s]).method, BackendFor(s, c)) /\ BackendFor(s, c) \in {"class", "immediate"}
      BY <1>11 DEF CallFound, BackendFor
    <2>4. IcTyped'
      BY <2>2, <2>3, FillTyped
    <2>5. PICK b \in BOOLEAN : retain(c, Name[s], Find(c, Name[s]), b)
      BY <1>11 DEF CallFound
    <2>6. GlobalTyped' /\ GlobalFilled'
      BY <2>1, <2>2, <2>5, RetainTyped
    <2>7. UNCHANGED <<table, chain, resets, unreset, private>>
      BY <1>11 DEF CallFound
    <2> QED
      BY <1>8, <2>4, <2>6, <2>7
  <1>12. ASSUME NEW s \in Sites, NEW c \in Classes, NEW self \in Classes, CallMissing(s, c, self) PROVE Shape'
    <2>1. fill(s, c, Nil, "mm") /\ UNCHANGED <<table, chain, global, resets, unreset, private>>
      BY <1>12 DEF CallMissing
    <2>2. IcTyped'
      BY <2>1, FillTyped
    <2> QED
      BY <1>8, <1>s, <2>1, <2>2 DEF GlobalFilled
  <1>13. ASSUME prune_unmarked PROVE Shape'
    <2>1. PICK live : global' = [x \in Slots |-> IF global[x].method \in live THEN global[x] ELSE Empty]
      BY <1>13 DEF prune_unmarked
    <2>2. GlobalTyped' /\ GlobalFilled'
      BY <1>s, <2>1 DEF Empty, GlobalFilled
    <2>3. UNCHANGED <<table, chain, ic, resets, unreset, private>>
      BY <1>13 DEF prune_unmarked
    <2> QED
      BY <1>8, <1>s, <2>2, <2>3
  <1> QED
    BY <1>1, <1>3, <1>4, <1>5, <1>6, <1>7, <1>9, <1>10, <1>11, <1>12, <1>13 DEF Next

-----------------------------------------------------------------------------
(* A step leaves the lookup of n alone: every class finds what it found, and   *)
(* a call that found something passes the visibility test as before.           *)
SameView(n) ==
  \A c \in Classes : /\ Find(c, n)' = Find(c, n)
                     /\ Find(c, n) # None =>
                          \A self \in Classes : Callable(c, n, self)' <=> Callable(c, n, self)

\* A change of entries of other names leaves the lookup of n alone.
LEMMA OtherName ==
  ASSUME TypeOK, NEW n \in Names, chain' = chain, \A b \in Tables : table'[<<b, n>>] = table[<<b, n>>]
  PROVE  SameView(n)
  <1> SUFFICES ASSUME NEW c \in Classes
               PROVE  /\ Find(c, n)' = Find(c, n)
                      /\ Find(c, n) # None =>
                           \A self \in Classes : Callable(c, n, self)' <=> Callable(c, n, self)
    BY DEF SameView
  <1>1. \A i \in DOMAIN chain[c] : Entry(c, n, i)' = Entry(c, n, i)
    BY EntryFacts DEF Entry
  <1>2. Ends(c, n)' = Ends(c, n) /\ Entries(c, n)' = Entries(c, n)
    BY <1>1 DEF Ends, Entries
  <1>3. Find(c, n)' = Find(c, n)
    <2>1. CASE Ends(c, n) = {}
      BY <1>2, <2>1 DEF Find, Ends
    <2>2. CASE Ends(c, n) # {}
      <3>1. Min(Ends(c, n)) \in DOMAIN chain[c]
        BY <2>2, MinOfNats, EntryFacts DEF Ends
      <3>2. Entry(c, n, Min(Ends(c, n)))' = Entry(c, n, Min(Ends(c, n)))
        BY <1>1, <1>2, <3>1
      <3> QED
        BY <1>2, <2>2, <3>2 DEF Find, Ends
    <2> QED
      BY <2>1, <2>2
  <1>4. ASSUME Find(c, n) # None, NEW self \in Classes PROVE Callable(c, n, self)' <=> Callable(c, n, self)
    <2>1. Nearest(c, n)' = Nearest(c, n)
      BY <1>2 DEF Nearest, Entries
    <2>2. Nearest(c, n) \in DOMAIN chain[c]
      BY <1>4, NearestFacts DEF Entries
    <2>3. Entry(c, n, Nearest(c, n))' = Entry(c, n, Nearest(c, n))
      BY <1>1, <2>1, <2>2
    <2> QED
      BY <2>1, <2>3 DEF Callable
  <1> QED
    BY <1>3, <1>4

\* The place of position i after a position has been added behind k.
Shift(i, k) == IF i <= k THEN i ELSE i + 1

\* The least of the shifted positions is the shifted least one.
LEMMA MinShift ==
  ASSUME NEW S \in SUBSET Nat, NEW k \in Nat, S # {}
  PROVE  Min({Shift(i, k) : i \in S}) = Shift(Min(S), k)
  <1>1. Min(S) \in S /\ \A y \in S : Min(S) <= y
    BY MinOfNats
  <1>2. PICK m \in S : m = Min(S)
    BY <1>1
  <1>3. \A i \in S : Shift(i, k) \in Nat /\ Shift(m, k) <= Shift(i, k)
    BY <1>1, <1>2 DEF Shift
  <1> DEFINE T == {Shift(i, k) : i \in S}
  <1>4. T \in SUBSET Nat /\ Shift(m, k) \in T /\ \A y \in T : Shift(m, k) <= y
    BY <1>3
  <1> HIDE DEF T
  <1>5. Min(T) = Shift(m, k)
    BY <1>4, MinIs
  <1> QED
    BY <1>2, <1>5 DEF T

\* A class whose chain got the module, which has no entry for n: the entries of the
\* chain are those from before, in their old order.
LEMMA ShiftedEntries ==
  ASSUME TypeOK, NEW c \in Classes, NEW n \in Names, table' = table, table[<<Mixin, n>>] = None,
         NEW k \in 1..Len(chain[c]), Inserted(chain'[c], chain[c], k)
  PROVE  /\ k \in Nat
         /\ \A i \in DOMAIN chain[c] : /\ Shift(i, k) \in DOMAIN chain'[c]
                                       /\ chain'[c][Shift(i, k)] = chain[c][i]
                                       /\ Entry(c, n, Shift(i, k))' = Entry(c, n, i)
         /\ Ends(c, n)' = {Shift(i, k) : i \in Ends(c, n)}
         /\ Entries(c, n)' = {Shift(i, k) : i \in Entries(c, n)}
         /\ ToSet(chain'[c]) = ToSet(chain[c]) \cup {Mixin}
  <1> DEFINE l == Len(chain[c])
  <1>1. l \in Nat /\ k \in Nat /\ 1 <= k /\ k <= l
    BY LenProperties DEF TypeOK
  <1>2. Len(chain'[c]) = l + 1
    BY DEF Inserted
  <1>3. DOMAIN chain[c] = 1..l /\ DOMAIN chain'[c] = 1..(l + 1)
    BY <1>2, LenProperties DEF TypeOK, Inserted
  <1>4. /\ \A i \in 1..k : chain'[c][i] = chain[c][i]
        /\ chain'[c][k + 1] = Mixin
        /\ \A i \in (k + 1)..l : chain'[c][i + 1] = chain[c][i]
    BY DEF Inserted
  <1> HIDE DEF l
  <1>5. \A i \in 1..l : Shift(i, k) \in 1..(l + 1) /\ chain'[c][Shift(i, k)] = chain[c][i]
    BY <1>1, <1>4 DEF Shift
  <1>6. \A j \in 1..(l + 1) : j = k + 1 \/ \E i \in 1..l : j = Shift(i, k)
    <2> SUFFICES ASSUME NEW j \in 1..(l + 1), j # k + 1 PROVE \E i \in 1..l : j = Shift(i, k)
      OBVIOUS
    <2>1. CASE j <= k
      <3>1. j \in 1..l /\ j = Shift(j, k)
        BY <1>1, <2>1 DEF Shift
      <3> QED
        BY <3>1
    <2>2. CASE ~(j <= k)
      <3>1. j - 1 \in 1..l /\ j = Shift(j - 1, k)
        BY <1>1, <2>2 DEF Shift
      <3> QED
        BY <3>1
    <2> QED
      BY <2>1, <2>2
  <1>7. Entry(c, n, k + 1)' = None
    BY <1>4 DEF Entry
  <1>8. \A i \in 1..l : Entry(c, n, Shift(i, k))' = Entry(c, n, i)
    BY <1>5 DEF Entry
  <1>9. None.vis # "undef" /\ None.method = Nil
    BY DEF None
  <1>10. Ends(c, n)' = {Shift(i, k) : i \in Ends(c, n)}
    BY <1>3, <1>5, <1>6, <1>7, <1>8, <1>9 DEF Ends
  <1>11. Entries(c, n)' = {Shift(i, k) : i \in Entries(c, n)}
    BY <1>3, <1>5, <1>6, <1>7, <1>8 DEF Entries
  <1>12. ToSet(chain'[c]) = ToSet(chain[c]) \cup {Mixin}
    <2>1. k + 1 \in 1..(l + 1)
      BY <1>1
    <2> QED
      BY <1>3, <1>4, <1>5, <1>6, <2>1 DEF ToSet
  <1> QED
    BY <1>1, <1>3, <1>5, <1>8, <1>10, <1>11, <1>12

\* Including a module that has no entry for n leaves the lookup of n alone.
LEMMA IncludeOther ==
  ASSUME TypeOK, NEW b \in Classes, include(b), NEW n \in Names, table[<<Mixin, n>>] = None
  PROVE  SameView(n)
  <1> DEFINE After(c) == IF b \in ToSet(chain[c]) THEN attach_to(b, chain[c]) ELSE chain[c]
  <1>1. table' = table /\ chain' = [c \in Classes |-> After(c)]
    BY DEF include
  <1>2. ASSUME NEW c \in Classes
        PROVE  \/ chain'[c] = chain[c]
               \/ \E k \in 1..Len(chain[c]) : Inserted(chain'[c], chain[c], k)
    <2>1. chain[c] \in Seq(Tables) /\ chain'[c] = After(c)
      BY <1>1 DEF TypeOK
    <2>2. CASE b \in ToSet(chain[c])
      BY <2>1, <2>2, AttachFacts
    <2> QED
      BY <2>1, <2>2
  <1>3. ASSUME NEW d \in Classes
        PROVE  ToSet(chain'[d]) = ToSet(chain[d]) \/ ToSet(chain'[d]) = ToSet(chain[d]) \cup {Mixin}
    <2>1. CASE chain'[d] = chain[d]
      BY <2>1
    <2>2. ASSUME NEW k \in 1..Len(chain[d]), Inserted(chain'[d], chain[d], k)
          PROVE  ToSet(chain'[d]) = ToSet(chain[d]) \cup {Mixin}
      BY <1>1, <2>2, ShiftedEntries
    <2> QED
      BY <1>2, <2>1, <2>2
  <1> SUFFICES ASSUME NEW c \in Classes
               PROVE  /\ Find(c, n)' = Find(c, n)
                      /\ Find(c, n) # None =>
                           \A self \in Classes : Callable(c, n, self)' <=> Callable(c, n, self)
    BY DEF SameView
  \* what the lookup sees of the chain of c: the least positions lead to the same tables
  <1>4. /\ Ends(c, n) = {} <=> Ends(c, n)' = {}
        /\ Ends(c, n) # {} => Entry(c, n, Min(Ends(c, n)))' = Entry(c, n, Min(Ends(c, n)))
        /\ Entries(c, n) # {} => /\ Entry(c, n, Nearest(c, n))' = Entry(c, n, Nearest(c, n))
                                 /\ chain'[c][Nearest(c, n)'] = chain[c][Nearest(c, n)]
    <2>1. CASE chain'[c] = chain[c]
      <3>1. Ends(c, n)' = Ends(c, n) /\ Entries(c, n)' = Entries(c, n)
        BY <1>1, <2>1 DEF Ends, Entries, Entry
      <3> QED
        BY <1>1, <2>1, <3>1 DEF Nearest, Entry, Entries
    <2>2. ASSUME NEW k \in 1..Len(chain[c]), Inserted(chain'[c], chain[c], k)
          PROVE  /\ Ends(c, n) = {} <=> Ends(c, n)' = {}
                 /\ Ends(c, n) # {} => Entry(c, n, Min(Ends(c, n)))' = Entry(c, n, Min(Ends(c, n)))
                 /\ Entries(c, n) # {} => /\ Entry(c, n, Nearest(c, n))' = Entry(c, n, Nearest(c, n))
                                          /\ chain'[c][Nearest(c, n)'] = chain[c][Nearest(c, n)]
      <3>1. /\ k \in Nat
            /\ \A i \in DOMAIN chain[c] : /\ chain'[c][Shift(i, k)] = chain[c][i]
                                          /\ Entry(c, n, Shift(i, k))' = Entry(c, n, i)
            /\ Ends(c, n)' = {Shift(i, k) : i \in Ends(c, n)}
            /\ Entries(c, n)' = {Shift(i, k) : i \in Entries(c, n)}
        BY <1>1, <2>2, ShiftedEntries
      <3>2. Ends(c, n) \in SUBSET Nat /\ Entries(c, n) \in SUBSET Nat
        BY EntryFacts DEF Ends, Entries
      <3>3. ASSUME Ends(c, n) # {} PROVE Entry(c, n, Min(Ends(c, n)))' = Entry(c, n, Min(Ends(c, n)))
        <4>1. Min(Ends(c, n)') = Shift(Min(Ends(c, n)), k)
          BY <3>1, <3>2, <3>3, MinShift
        <4>2. Min(Ends(c, n)) \in DOMAIN chain[c]
          BY <3>2, <3>3, MinOfNats DEF Ends
        <4> QED
          BY <3>1, <4>1, <4>2
      <3>4. ASSUME Entries(c, n) # {}
            PROVE  /\ Entry(c, n, Nearest(c, n))' = Entry(c, n, Nearest(c, n))
                   /\ chain'[c][Nearest(c, n)'] = chain[c][Nearest(c, n)]
        <4>1. Min(Entries(c, n)') = Shift(Min(Entries(c, n)), k)
          BY <3>1, <3>2, <3>4, MinShift
        <4>2. Min(Entries(c, n)) \in DOMAIN chain[c]
          BY <3>2, <3>4, MinOfNats DEF Entries
        <4>3. Nearest(c, n) = Min(Entries(c, n)) /\ Nearest(c, n)' = Min(Entries(c, n)')
          BY DEF Nearest, Entries
        <4> QED
          BY <3>1, <4>1, <4>2, <4>3
      <3> QED
        BY <3>1, <3>3, <3>4
    <2> QED
      BY <1>2, <2>1, <2>2
  <1>5. Find(c, n)' = Find(c, n)
    BY <1>4 DEF Find, Ends
  <1>6. ASSUME Find(c, n) # None, NEW self \in Classes PROVE Callable(c, n, self)' <=> Callable(c, n, self)
    <2>1. Nearest(c, n) \in Entries(c, n)
      BY <1>6, NearestFacts
    <2>2. chain[c][Nearest(c, n)] # Mixin
      BY <2>1 DEF Entries, Entry
    <2>3. chain[c][Nearest(c, n)] \in ToSet(chain'[self]) <=> chain[c][Nearest(c, n)] \in ToSet(chain[self])
      BY <1>3, <2>2
    <2>4. /\ Entry(c, n, Nearest(c, n))' = Entry(c, n, Nearest(c, n))
          /\ chain'[c][Nearest(c, n)'] = chain[c][Nearest(c, n)]
      BY <1>4, <2>1
    <2> QED
      BY <2>3, <2>4 DEF Callable
  <1> QED
    BY <1>5, <1>6

-----------------------------------------------------------------------------
(* The caches. The inductive invariant is the conjunction of the four          *)
(* properties: a site is filled from the global cache, so what a site holds is *)
(* current only if the entries of the global cache are. EntriesCurrent is      *)
(* GlobalCurrent for entries that are filled, by class and name.               *)
EntriesCurrent ==
  \A x \in Slots, c \in Classes, n \in Names :
    global[x] # Empty /\ global[x].klass = c /\ global[x].name = n /\ Settled(n) =>
      /\ Find(c, n).method = global[x].method
      /\ Find(c, n).vis = "private" => ~global[x].public
CacheInv == EntriesCurrent /\ InlineCurrent /\ MissingCurrent /\ PrivateHidden

LEMMA InitCache == Init => CacheInv
  <1> SUFFICES ASSUME Init PROVE CacheInv
    OBVIOUS
  <1>1. \A x \in Slots : global[x] = Empty
    BY DEF Init
  <1>2. \A s \in Sites, c \in Classes : ~Hits(s, c)
    BY DEF Init, Hits, Unused
  <1> QED
    BY <1>1, <1>2 DEF CacheInv, EntriesCurrent, InlineCurrent, Current, MissingCurrent, PrivateHidden

\* A step that fills nothing keeps the caches current, if it leaves the lookup of every
\* name alone that is settled after it, and if these were settled before.
LEMMA NothingFilled ==
  ASSUME Shape, CacheInv, ic' = ic, private' = private,
         \A x \in Slots : global'[x] \in {global[x], Empty},
         \A n \in Names : Settled(n)' => Settled(n) /\ SameView(n)
  PROVE  CacheInv'
  <1>1. \A s \in Sites : Name[s] \in Names
    BY CacheAssumption
  <1>2. EntriesCurrent'
    <2> SUFFICES ASSUME NEW x \in Slots, NEW c \in Classes, NEW n \in Names,
                        global'[x] # Empty, global'[x].klass = c, global'[x].name = n, Settled(n)'
                 PROVE  /\ Find(c, n)'.method = global'[x].method
                        /\ Find(c, n)'.vis = "private" => ~global'[x].public
      BY DEF EntriesCurrent
    <2>1. global'[x] = global[x]
      OBVIOUS
    <2>2. Settled(n) /\ Find(c, n)' = Find(c, n)
      BY DEF SameView
    <2> QED
      BY <2>1, <2>2 DEF CacheInv, EntriesCurrent
  <1>3. \A s \in Sites, c \in Classes : Hits(s, c)' <=> Hits(s, c)
    BY DEF Hits
  <1>4. \A s \in Sites, c \in Classes : Settled(Name[s])' => Settled(Name[s]) /\ Find(c, Name[s])' = Find(c, Name[s])
    BY <1>1 DEF SameView
  <1>5. InlineCurrent'
    BY <1>3, <1>4 DEF CacheInv, InlineCurrent, Current
  <1>6. MissingCurrent'
    <2> SUFFICES ASSUME NEW s \in Sites, NEW c \in Classes, Settled(Name[s])', Hits(s, c), ic[s].backend = "mm"
                 PROVE  \E self \in Classes : ~Found(s, c, self)'
      BY <1>3 DEF MissingCurrent
    <2>1. PICK self \in Classes : ~Found(s, c, self)
      BY <1>4 DEF CacheInv, MissingCurrent
    <2>2. SameView(Name[s])
      BY <1>1
    <2>3. ~Found(s, c, self)'
      BY <2>1, <2>2 DEF SameView, Found
    <2> QED
      BY <2>3
  <1>7. PrivateHidden'
    <2> SUFFICES ASSUME NEW s \in Sites, NEW c \in Classes, Settled(Name[s])', s \notin private,
                        Hits(s, c), ic[s].backend = "class"
                 PROVE  Find(c, Name[s])'.vis # "private" \/ Callable(c, Name[s], c)'
      BY <1>3 DEF PrivateHidden
    <2>1. Find(c, Name[s]).vis # "private" \/ Callable(c, Name[s], c)
      BY <1>4 DEF CacheInv, PrivateHidden
    <2>2. SameView(Name[s])
      BY <1>1
    <2>3. CASE Find(c, Name[s]) = None
      BY <1>4, <2>3 DEF None
    <2>4. CASE Find(c, Name[s]) # None
      BY <2>1, <2>2, <2>4 DEF SameView
    <2> QED
      BY <2>3, <2>4
  <1> QED
    BY <1>2, <1>5, <1>6, <1>7 DEF CacheInv

\* A step that only fills caches leaves every lookup alone.
LEMMA Frame ==
  ASSUME UNCHANGED <<table, chain, resets, unreset, private>>
  PROVE  /\ \A c, n : Find(c, n)' = Find(c, n)
         /\ \A c, n, self : Callable(c, n, self)' <=> Callable(c, n, self)
         /\ \A n : Settled(n)' <=> Settled(n)
         /\ \A s, c, self : Found(s, c, self)' <=> Found(s, c, self)
  <1>1. \A c, n, i : Entry(c, n, i)' = Entry(c, n, i)
    BY DEF Entry
  <1>2. \A c, n : Find(c, n)' = Find(c, n)
    BY <1>1 DEF Find
  <1>3. \A c, n : Nearest(c, n)' = Nearest(c, n)
    BY <1>1 DEF Nearest
  <1>4. \A c, n, self : Callable(c, n, self)' <=> Callable(c, n, self)
    BY <1>1, <1>3 DEF Callable
  <1>5. \A n : Settled(n)' <=> Settled(n)
    BY DEF Settled
  <1>6. \A s, c, self : Found(s, c, self)' <=> Found(s, c, self)
    BY <1>2, <1>4 DEF Found
  <1> QED
    BY <1>2, <1>4, <1>5, <1>6

\* retain keeps the entries current if what it keeps is.
LEMMA RetainCurrent ==
  ASSUME Shape, EntriesCurrent, UNCHANGED <<table, chain, resets, unreset, private>>,
         NEW c \in Classes, NEW n \in Names, NEW p \in BOOLEAN, retain(c, n, Find(c, n), p),
         Find(c, n).vis = "private" => ~p
  PROVE  EntriesCurrent'
  <1> SUFFICES ASSUME NEW x \in Slots, NEW d \in Classes, NEW m \in Names,
                      global'[x] # Empty, global'[x].klass = d, global'[x].name = m, Settled(m)
               PROVE  /\ Find(d, m).method = global'[x].method
                      /\ Find(d, m).vis = "private" => ~global'[x].public
    BY Frame DEF EntriesCurrent
  <1>1. CASE x = Hash[<<c, n>>]
    BY <1>1 DEF retain, Shape, TypeOK
  <1>2. CASE x # Hash[<<c, n>>]
    BY <1>2 DEF retain, EntriesCurrent, Shape, TypeOK
  <1> QED
    BY <1>1, <1>2

\* A call that fills a site keeps the sites current if what it fills in is.
LEMMA FillCurrent ==
  ASSUME Shape, CacheInv, UNCHANGED <<table, chain, resets, unreset, private>>,
         NEW s \in Sites, NEW c \in Classes, NEW m, NEW b \in {"mm", "class", "immediate"}, fill(s, c, m, b),
         Settled(Name[s]) =>
           /\ b = "class" => Find(c, Name[s]).method = m
           /\ b = "mm" => \E self \in Classes : ~Found(s, c, self)
           /\ b = "class" /\ s \notin private =>
                Find(c, Name[s]).vis # "private" \/ Callable(c, Name[s], c)
  PROVE  InlineCurrent' /\ MissingCurrent' /\ PrivateHidden'
  <1>1. /\ ic'[s] = [klass |-> c, method |-> m, backend |-> b]
        /\ \A r \in Sites : r # s => ic'[r] = ic[r]
    BY DEF fill, Shape, TypeOK
  <1>2. \A r \in Sites, d \in Classes : r # s => (Hits(r, d)' <=> Hits(r, d))
    BY <1>1 DEF Hits
  <1>3. \A d \in Classes : Hits(s, d)' /\ b # "immediate" => d = c
    BY <1>1 DEF Hits
  <1>4. InlineCurrent'
    <2> SUFFICES ASSUME NEW r \in Sites, NEW d \in Classes, Settled(Name[r]), ic'[r].backend # "immediate",
                        Hits(r, d)', ic'[r].backend # "mm"
                 PROVE  Find(d, Name[r]).method = ic'[r].method
      BY Frame DEF InlineCurrent, Current
    <2>1. CASE r = s
      BY <1>1, <1>3, <2>1
    <2>2. CASE r # s
      BY <1>1, <1>2, <2>2 DEF CacheInv, InlineCurrent, Current
    <2> QED
      BY <2>1, <2>2
  <1>5. MissingCurrent'
    <2> SUFFICES ASSUME NEW r \in Sites, NEW d \in Classes, Settled(Name[r]), Hits(r, d)', ic'[r].backend = "mm"
                 PROVE  \E self \in Classes : ~Found(r, d, self)
      BY Frame DEF MissingCurrent
    <2>1. CASE r = s
      BY <1>1, <1>3, <2>1
    <2>2. CASE r # s
      BY <1>1, <1>2, <2>2 DEF CacheInv, MissingCurrent
    <2> QED
      BY <2>1, <2>2
  <1>6. PrivateHidden'
    <2> SUFFICES ASSUME NEW r \in Sites, NEW d \in Classes, Settled(Name[r]), r \notin private, Hits(r, d)',
                        ic'[r].backend = "class"
                 PROVE  Find(d, Name[r]).vis # "private" \/ Callable(d, Name[r], d)
      BY Frame DEF PrivateHidden
    <2>1. CASE r = s
      BY <1>1, <1>3, <2>1
    <2>2. CASE r # s
      BY <1>1, <1>2, <2>2 DEF CacheInv, PrivateHidden
    <2> QED
      BY <2>1, <2>2
  <1> QED
    BY <1>4, <1>5, <1>6

\* What is callable for one caller is callable for a caller of its own class: the test
\* of protected methods only asks for a common ancestor.
LEMMA CallableOwn ==
  ASSUME TypeOK, NEW c \in Classes, NEW n \in Names, NEW self \in Classes, Find(c, n) # None,
         Callable(c, n, self)
  PROVE  Callable(c, n, c)
  <1>1. Nearest(c, n) \in DOMAIN chain[c]
    BY NearestFacts DEF Entries
  <1> QED
    BY <1>1 DEF Callable, ToSet

LEMMA CacheStep == Shape /\ CacheInv /\ [Next]_vars => CacheInv'
  <1> SUFFICES ASSUME Shape, CacheInv, [Next]_vars PROVE CacheInv'
    OBVIOUS
  <1>t. TypeOK /\ \A s \in Sites : Name[s] \in Names
    BY CacheAssumption DEF Shape
  <1>1. ASSUME UNCHANGED vars PROVE CacheInv'
    <2>1. \A n \in Names : Settled(n)' => Settled(n) /\ SameView(n)
      BY <1>1, Frame DEF vars, SameView
    <2> QED
      BY <1>1, <2>1, NothingFilled DEF vars
  \* storing: the name is not settled now, and the lookup of the others is as before
  <1>2. ASSUME NEW t \in Threads, NEW c \in Tables, NEW n \in Names, NEW e, Store(t, c, n, e) PROVE CacheInv'
    <2>1. /\ table' = [table EXCEPT ![<<c, n>>] = e] /\ resets' = [resets EXCEPT ![t] = n]
          /\ resets[t] = Nil /\ UNCHANGED <<chain, global, ic, unreset, private>>
      BY <1>2 DEF Store
    <2>2. ASSUME NEW m \in Names, Settled(m)' PROVE Settled(m) /\ SameView(m)
      <3>1. m # n
        BY <2>1, <2>2 DEF Settled, Shape, TypeOK
      <3>2. \A b \in Tables : table'[<<b, m>>] = table[<<b, m>>]
        BY <1>t, <2>1, <3>1 DEF TypeOK
      <3>3. SameView(m)
        BY <1>t, <2>1, <3>2, OtherName
      <3>4. Settled(m)
        BY <2>1, <2>2, CacheAssumption DEF Settled, Shape, TypeOK
      <3> QED
        BY <3>3, <3>4
    <2> QED
      BY <2>1, <2>2, NothingFilled
  <1>3. ASSUME NEW t \in Threads, NEW c \in Tables, NEW n \in Names, add_method(t, c, n) PROVE CacheInv'
    BY <1>2, <1>3 DEF add_method
  <1>4. ASSUME NEW t \in Threads, NEW c \in Classes, NEW n \in Names,
               undef_method(t, c, n) \/ remove_method(t, c, n) \/ set_visibility(t, c, n)
        PROVE  CacheInv'
    BY <1>2, <1>4 DEF Tables, undef_method, remove_method, set_visibility
  \* the reset: nothing of the name is left that could be stale, and the others are untouched
  <1>5. ASSUME NEW t \in Threads, reset_method_cache(t) PROVE CacheInv'
    <2> DEFINE n == resets[t]
    <2>1. /\ UNCHANGED <<table, chain, private>> /\ n \in Names
          /\ global' = clear_global(n) /\ ic' = clear_inline(n)
          /\ resets' = [resets EXCEPT ![t] = Nil] /\ unreset' = unreset \ {n}
      BY <1>5, <1>t DEF reset_method_cache, TypeOK
    <2>2. ASSUME NEW m \in Names, m # n, Settled(m)' PROVE Settled(m)
      BY <1>t, <2>1, <2>2 DEF Settled, TypeOK
    <2>3. /\ \A c, m : Find(c, m)' = Find(c, m)
          /\ \A c, m, self : Callable(c, m, self)' <=> Callable(c, m, self)
          /\ \A s, c, self : Found(s, c, self)' <=> Found(s, c, self)
      <3>1. \A c, m, i : Entry(c, m, i)' = Entry(c, m, i)
        BY <2>1 DEF Entry
      <3>2. \A c, m : Find(c, m)' = Find(c, m) /\ Nearest(c, m)' = Nearest(c, m)
        <4> SUFFICES ASSUME NEW c, NEW m
                     PROVE  Find(c, m)' = Find(c, m) /\ Nearest(c, m)' = Nearest(c, m)
          OBVIOUS
        <4>1. chain' = chain /\ \A i : Entry(c, m, i)' = Entry(c, m, i)
          BY <2>1, <3>1
        <4>2. Find(c, m)' = Find(c, m)
          BY <4>1 DEF Find
        <4>3. Nearest(c, m)' = Nearest(c, m)
          BY <4>1 DEF Nearest
        <4> QED
          BY <4>2, <4>3
      <3>3. \A c, m, self : Callable(c, m, self)' <=> Callable(c, m, self)
        <4> SUFFICES ASSUME NEW c, NEW m, NEW self PROVE Callable(c, m, self)' <=> Callable(c, m, self)
          OBVIOUS
        <4>1. chain' = chain /\ \A i : Entry(c, m, i)' = Entry(c, m, i)
          BY <2>1, <3>1
        <4>2. Nearest(c, m)' = Nearest(c, m)
          BY <3>2
        <4> QED
          BY <4>1, <4>2 DEF Callable
      <3> QED
        BY <2>1, <3>2, <3>3 DEF Found
    <2>4. EntriesCurrent'
      <3> SUFFICES ASSUME NEW x \in Slots, NEW c \in Classes, NEW m \in Names,
                          global'[x] # Empty, global'[x].klass = c, global'[x].name = m, Settled(m)'
                   PROVE  /\ Find(c, m).method = global'[x].method
                          /\ Find(c, m).vis = "private" => ~global'[x].public
        BY <2>3 DEF EntriesCurrent
      <3>1. global'[x] = global[x] /\ m # n
        BY <2>1 DEF clear_global
      <3> QED
        BY <2>2, <3>1 DEF CacheInv, EntriesCurrent
    <2>5. ASSUME NEW s \in Sites, NEW c \in Classes, Hits(s, c)', ic'[s].backend # "immediate"
          PROVE  Name[s] # n /\ ic'[s] = ic[s] /\ Hits(s, c)
      <3>1. Name[s] # n /\ ic'[s] = ic[s]
        BY <1>t, <2>1, <2>5 DEF clear_inline, Hits, Unused, TypeOK
      <3> QED
        BY <2>5, <3>1 DEF Hits
    <2>6. \A s \in Sites, c \in Classes : Settled(Name[s])' /\ Hits(s, c)' /\ ic'[s].backend # "immediate"
            => Settled(Name[s]) /\ ic'[s] = ic[s] /\ Hits(s, c)
      BY <1>t, <2>2, <2>5
    <2>7. InlineCurrent'
      BY <2>3, <2>6 DEF CacheInv, InlineCurrent, Current
    <2>8. MissingCurrent'
      BY <2>3, <2>6 DEF CacheInv, MissingCurrent
    <2>9. PrivateHidden'
      BY <2>1, <2>3, <2>6 DEF CacheInv, PrivateHidden
    <2> QED
      BY <2>4, <2>7, <2>8, <2>9 DEF CacheInv
  \* include: the names of the module are not settled now
  <1>6. ASSUME NEW c \in Classes, include(c) PROVE CacheInv'
    <2>1. /\ UNCHANGED <<table, global, ic, resets, private>>
          /\ unreset' = unreset \cup {n \in Names : table[<<Mixin, n>>] # None}
      BY <1>6 DEF include
    <2>2. ASSUME NEW m \in Names, Settled(m)' PROVE Settled(m) /\ SameView(m)
      <3>1. Settled(m) /\ table[<<Mixin, m>>] = None
        BY <2>1, <2>2 DEF Settled
      <3> QED
        BY <1>6, <1>t, <3>1, IncludeOther
    <2> QED
      BY <2>1, <2>2, NothingFilled
  <1>7. ASSUME NEW c \in Classes, NEW n \in Names, capi_define(c, n) PROVE CacheInv'
    <2>1. /\ UNCHANGED <<chain, ic, resets, private>> /\ unreset' = unreset \cup {n}
          /\ \E e : table' = [table EXCEPT ![<<c, n>>] = e]
      BY <1>7 DEF capi_define
    <2>2. ASSUME NEW m \in Names, Settled(m)' PROVE Settled(m) /\ SameView(m)
      <3>1. Settled(m) /\ m # n
        BY <2>1, <2>2 DEF Settled
      <3>2. \A b \in Tables : table'[<<b, m>>] = table[<<b, m>>]
        BY <1>t, <2>1, <3>1 DEF TypeOK
      <3> QED
        BY <1>t, <2>1, <3>1, <3>2, OtherName
    <2>3. \A x \in Slots : global'[x] \in {global[x], Empty}
      BY <1>7, <1>t DEF capi_define, TypeOK
    <2> QED
      BY <2>1, <2>2, <2>3, NothingFilled
  <1>8. ASSUME NEW c \in Classes, NEW n \in Names, NEW q \in BOOLEAN, Resolve(c, n, q) PROVE CacheInv'
    <2> DEFINE tested == ~q /\ Entry(c, n, Nearest(c, n)).method # Nil
    <2>1. /\ UNCHANGED <<table, chain, ic, resets, unreset, private>>
          /\ Find(c, n) # None /\ (q \/ Callable(c, n, c))
          /\ retain(c, n, Find(c, n), tested \/ Find(c, n).vis # "private")
      BY <1>8 DEF Resolve
    <2>2. Find(c, n).vis = "private" => ~tested
      BY <1>t, <2>1, NearestFacts DEF Callable
    <2>3. EntriesCurrent'
      BY <2>1, <2>2, RetainCurrent DEF CacheInv
    <2>4. \A s \in Sites, d \in Classes : Hits(s, d)' <=> Hits(s, d)
      BY <2>1 DEF Hits
    <2>5. InlineCurrent' /\ MissingCurrent' /\ PrivateHidden'
      BY <2>1, <2>4, Frame DEF CacheInv, InlineCurrent, Current, MissingCurrent, PrivateHidden
    <2> QED
      BY <2>3, <2>5 DEF CacheInv
  <1>9. ASSUME NEW s \in Sites, NEW c \in Classes, CallCached(s, c) PROVE CacheInv'
    <2>1. /\ UNCHANGED <<table, chain, global, resets, unreset, private>> /\ CachedFor(s, c)
          /\ fill(s, c, lookup(c, Name[s]).method, BackendFor(s, c))
          /\ BackendFor(s, c) \in {"class", "immediate"}
      BY <1>9 DEF CallCached, BackendFor
    <2>2. /\ lookup(c, Name[s]) # Empty /\ Hash[<<c, Name[s]>>] \in Slots
          /\ lookup(c, Name[s]) = global[Hash[<<c, Name[s]>>]]
          /\ lookup(c, Name[s]).klass = c /\ lookup(c, Name[s]).name = Name[s]
          /\ s \in private \/ lookup(c, Name[s]).public
      BY <1>t, <2>1, LookupFacts DEF CachedFor
    <2>3. Settled(Name[s]) => /\ Find(c, Name[s]).method = lookup(c, Name[s]).method
                              /\ s \notin private => Find(c, Name[s]).vis # "private"
      BY <1>t, <2>2 DEF CacheInv, EntriesCurrent
    <2>4. InlineCurrent' /\ MissingCurrent' /\ PrivateHidden'
      BY <2>1, <2>3, FillCurrent
    <2>5. EntriesCurrent'
      BY <2>1, Frame DEF CacheInv, EntriesCurrent
    <2> QED
      BY <2>4, <2>5 DEF CacheInv
  <1>10. ASSUME NEW s \in Sites, NEW c \in Classes, NEW self \in Classes, CallFound(s, c, self) PROVE CacheInv'
    <2>1. /\ UNCHANGED <<table, chain, resets, unreset, private>>
          /\ Find(c, Name[s]) # None /\ (s \in private \/ Callable(c, Name[s], self))
          /\ fill(s, c, Find(c, Name[s]).method, BackendFor(s, c))
          /\ BackendFor(s, c) \in {"class", "immediate"}
          /\ retain(c, Name[s], Find(c, Name[s]), Find(c, Name[s]).vis = "public")
      BY <1>10 DEF CallFound, Found, BackendFor
    <2>2. s \notin private => Callable(c, Name[s], c)
      BY <1>t, <2>1, CallableOwn
    <2>3. InlineCurrent' /\ MissingCurrent' /\ PrivateHidden'
      BY <2>1, <2>2, FillCurrent
    <2>4. EntriesCurrent'
      BY <1>t, <2>1, RetainCurrent DEF CacheInv
    <2> QED
      BY <2>3, <2>4 DEF CacheInv
  <1>11. ASSUME NEW s \in Sites, NEW c \in Classes, NEW self \in Classes, CallMissing(s, c, self) PROVE CacheInv'
    <2>1. /\ fill(s, c, Nil, "mm") /\ UNCHANGED <<table, chain, global, resets, unreset, private>>
          /\ ~Found(s, c, self)
      BY <1>11 DEF CallMissing
    <2>2. InlineCurrent' /\ MissingCurrent' /\ PrivateHidden'
      BY <2>1, FillCurrent
    <2>3. EntriesCurrent'
      BY <2>1, Frame DEF CacheInv, EntriesCurrent
    <2> QED
      BY <2>2, <2>3 DEF CacheInv
  <1>12. ASSUME prune_unmarked PROVE CacheInv'
    <2>1. /\ UNCHANGED <<table, chain, ic, resets, unreset, private>>
          /\ \A x \in Slots : global'[x] \in {global[x], Empty}
      BY <1>12 DEF prune_unmarked
    <2>2. \A n \in Names : Settled(n)' => Settled(n) /\ SameView(n)
      BY <2>1, Frame DEF SameView
    <2> QED
      BY <2>1, <2>2, NothingFilled
  <1> QED
    BY <1>1, <1>3, <1>4, <1>5, <1>6, <1>7, <1>8, <1>9, <1>10, <1>11, <1>12 DEF Next

-----------------------------------------------------------------------------
\* The method tables, chains and caches are well typed in every reachable state.
THEOREM TypeCorrect == Spec => []TypeOK
  <1>1. Shape => TypeOK
    BY DEF Shape
  <1> QED
    BY <1>1, InitShape, ShapeStep, PTL DEF Spec

\* Both invariants hold in every reachable state.
LEMMA CacheHolds == Spec => [](Shape /\ CacheInv)
  <1>1. Init => Shape /\ CacheInv
    BY InitShape, InitCache
  <1>2. Shape /\ CacheInv /\ [Next]_vars => (Shape /\ CacheInv)'
    BY ShapeStep, CacheStep
  <1> QED
    BY <1>1, <1>2, PTL DEF Spec

\* The global cache agrees with the method tables under every settled name, for any
\* number of threads that define methods and whatever their stores and resets
\* interleave with.
THEOREM GlobalCacheCurrent == Spec => []GlobalCurrent
  <1>1. Shape /\ CacheInv => GlobalCurrent
    BY DEF Shape, GlobalFilled, CacheInv, EntriesCurrent, GlobalCurrent
  <1> QED
    BY <1>1, CacheHolds, PTL

\* Call sites run the method that the tables have: a redefinition, removal or undef
\* reaches every site once it has been reset, except the sites whose backend does not
\* look at the class.
THEOREM CallSitesCurrent == Spec => []InlineCurrent
  <1>1. Shape /\ CacheInv => InlineCurrent
    BY DEF CacheInv
  <1> QED
    BY <1>1, CacheHolds, PTL

\* A cached method_missing hides no method that was added or made public since.
THEOREM FailuresCurrent == Spec => []MissingCurrent
  <1>1. Shape /\ CacheInv => MissingCurrent
    BY DEF CacheInv
  <1> QED
    BY <1>1, CacheHolds, PTL

\* No public call site runs a private method out of its cache, whatever private calls,
\* lookups and C extensions have put into the global cache.
THEOREM PrivateStaysHidden == Spec => []PrivateHidden
  <1>1. Shape /\ CacheInv => PrivateHidden
    BY DEF CacheInv
  <1> QED
    BY <1>1, CacheHolds, PTL
=============================================================================
