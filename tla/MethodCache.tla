----------------------------- MODULE MethodCache -----------------------------
(* Method dispatch: the method tables along a class's superclass chain, the   *)
(* GlobalCache (vm/global_cache.hpp) and the InlineCache of every call site   *)
(* (vm/inline_cache.cpp), with the kernel code that changes tables. C++ code  *)
(* runs under the global lock, so a call is one step; a definition is two     *)
(* steps of its thread, the store in the table and the reset of the caches,   *)
(* and other threads may run in between.                                      *)
EXTENDS Naturals, SequencesExt

CONSTANTS Threads,    \* threads that define methods
          Classes,    \* receiver classes
          Path,       \* [Classes -> Seq(Classes)], a class and its superclasses
          Mixin,      \* a module that classes may include
          Names,      \* method names
          Methods,    \* bound: the method objects
          Vis,        \* the visibilities in use
          Slots, Hash,\* entries of the GlobalCache; [Classes \X Names -> Slots]
          Sites, Name,\* call sites; [Sites -> Names], the name a site calls
          Immediate,  \* classes whose instances are Fixnums or Symbols
          Nil

Tables == Classes \cup {Mixin}

ASSUME CacheAssumption ==
  /\ \A c \in Classes : Path[c] \in Seq(Classes) /\ Path[c] # << >> /\ Path[c][1] = c
  /\ \A k \in Classes \X Names : Hash[k] \in Slots
  /\ \A s \in Sites : Name[s] \in Names
  /\ Vis \subseteq {"public", "private", "protected"}
  /\ Immediate \subseteq Classes /\ Mixin \notin Classes
  /\ Nil \notin Classes \cup Names \cup Methods

VARIABLES table,    \* method tables: nothing, or a method (Nil: look further up) and its visibility
          chain,    \* superclass chain of every class; an IncludedModule shares its module's table
          global,   \* GlobalCache: per slot nothing or an entry
          ic,       \* the inline cache of every call site
          private,  \* the sites compiled as private calls (set_is_private); never changes
          resets,   \* per thread, the name it has stored and not yet reset
          unreset   \* ghost: names whose tables changed without a reset of the caches
vars == <<table, chain, global, ic, private, resets, unreset>>

None   == [method |-> Nil, vis |-> "none"]   \* no entry
Undef  == [method |-> Nil, vis |-> "undef"]
Empty  == [klass |-> Nil, name |-> Nil, method |-> Nil, public |-> TRUE]
Unused == [klass |-> Nil, method |-> Nil, backend |-> "empty"]

(* Types. *)
TypeOK ==
  /\ table \in [Tables \X Names -> [method : Methods \cup {Nil}, vis : Vis \cup {"none", "undef"}]]
  /\ \A c \in Classes : chain[c] \in Seq(Tables)
  /\ global \in [Slots -> [klass : Classes \cup {Nil}, name : Names \cup {Nil},
                           method : Methods \cup {Nil}, public : BOOLEAN]]
  /\ ic \in [Sites -> [klass : Classes \cup {Nil}, method : Methods \cup {Nil},
                       backend : {"empty", "mm", "class", "immediate"}]]
  /\ private \subseteq Sites /\ resets \in [Threads -> Names \cup {Nil}] /\ unreset \subseteq Names
  /\ \A k \in DOMAIN table : table[k].vis \in {"none", "undef"} => table[k].method = Nil
  /\ \A s \in Sites : ic[s].backend \in {"class", "immediate"} <=> ic[s].method # Nil

Init ==
  /\ table = [k \in Tables \X Names |-> None] /\ chain = Path
  /\ global = [x \in Slots |-> Empty] /\ ic = [s \in Sites |-> Unused]
  /\ private \in SUBSET Sites /\ resets = [t \in Threads |-> Nil] /\ unreset = {}

-----------------------------------------------------------------------------
(* Lookup in the hierarchy.                                                   *)

Entry(c, n, i) == table[<<chain[c][i], n>>]

(* A lookup without visibility ends at the first entry with a method, unless  *)
(* it meets undef first; the result is that entry, or None.                   *)
Find(c, n) ==
  LET ends == {i \in DOMAIN chain[c] : Entry(c, n, i).vis = "undef" \/ Entry(c, n, i).method # Nil}
  IN  IF ends = {} \/ Entry(c, n, Min(ends)) = Undef THEN None ELSE Entry(c, n, Min(ends))

(* The visibility test of a public call is made on the nearest entry only:    *)
(* a marker there lets the call bypass all further tests.                     *)
Nearest(c, n) == Min({i \in DOMAIN chain[c] : Entry(c, n, i) # None})
Callable(c, n, self) ==
  LET i == Nearest(c, n)
  IN  /\ Entry(c, n, i).vis # "private"
      /\ Entry(c, n, i).vis = "protected" => chain[c][i] \in ToSet(chain[self])

-----------------------------------------------------------------------------
(* GlobalCache.                                                               *)

lookup(c, n) == LET e == global[Hash[<<c, n>>]] IN IF e.klass = c /\ e.name = n THEN e ELSE Empty

retain(c, n, entry, public) ==
  global' = [global EXCEPT ![Hash[<<c, n>>]] = [klass |-> c, name |-> n, method |-> entry.method,
                                                public |-> public]]

(* GlobalCacheResolver::resolve, for send, respond_to? and method objects: a  *)
(* hit leaves the cache alone, a miss goes through HierarchyResolver and keeps *)
(* what it finds. was_private is set only if no visibility test was made on   *)
(* the entry that is found.                                                   *)
Resolve(c, n, priv) ==
  /\ ~(lookup(c, n) # Empty /\ (priv \/ lookup(c, n).public))
  /\ Find(c, n) # None /\ (priv \/ Callable(c, n, c))
  /\ LET tested == ~priv /\ Entry(c, n, Nearest(c, n)).method # Nil
     IN  retain(c, n, Find(c, n), tested \/ Find(c, n).vis # "private")
  /\ UNCHANGED <<table, chain, ic, resets, unreset, private>>

-----------------------------------------------------------------------------
(* Call sites.                                                                *)

(* does the installed backend of s run its method for a receiver of class c *)
Hits(s, c) == CASE ic[s].backend = "immediate" -> c \in Immediate  \* check_cache_fixnum, _symbol
                [] ic[s].backend = "empty"     -> FALSE
                [] OTHER                       -> ic[s].klass = c  \* check_cache, _reference, _mm

fill(s, c, method, backend) == ic' = [ic EXCEPT ![s] = [klass |-> c, method |-> method, backend |-> backend]]

(* fill_public and fill_private: the method a call finds in the global cache, *)
(* or in the hierarchy                                                        *)
mutant_cached_any(s, c) == lookup(c, Name[s]) # Empty
CachedFor(s, c) == LET e == lookup(c, Name[s])
                   IN  e # Empty /\ (s \in private \/ e.public)
Found(s, c, self) == /\ Find(c, Name[s]) # None
                     /\ s \in private \/ Callable(c, Name[s], self)
BackendFor(s, c) == IF s \notin private /\ c \in Immediate THEN "immediate" ELSE "class"

CallCached(s, c) ==
  /\ ~Hits(s, c) /\ CachedFor(s, c)
  /\ fill(s, c, lookup(c, Name[s]).method, BackendFor(s, c))
  /\ UNCHANGED <<table, chain, global, resets, unreset, private>>

CallFound(s, c, self) ==
  /\ ~Hits(s, c) /\ ~CachedFor(s, c) /\ Found(s, c, self)
  /\ LET n == Name[s] IN /\ fill(s, c, Find(c, n).method, BackendFor(s, c))
                              /\ retain(c, n, Find(c, n), Find(c, n).vis = "public")
  /\ UNCHANGED <<table, chain, resets, unreset, private>>

(* fill_method_missing: Object#method_missing, which is not redefined here *)
CallMissing(s, c, self) ==
  /\ ~Hits(s, c) /\ ~CachedFor(s, c) /\ ~Found(s, c, self)
  /\ fill(s, c, Nil, "mm")
  /\ UNCHANGED <<table, chain, global, resets, unreset, private>>

-----------------------------------------------------------------------------
(* Changes of the tables (kernel/delta, kernel/common/module.rb).             *)

Store(t, c, n, entry) ==
  /\ resets[t] = Nil
  /\ table' = [table EXCEPT ![<<c, n>>] = entry] /\ resets' = [resets EXCEPT ![t] = n]
  /\ UNCHANGED <<chain, global, ic, unreset, private>>

(* Rubinius.add_method: def, define_method, attr and alias_method *)
add_method(t, c, n) == \E m \in Methods, v \in Vis : Store(t, c, n, [method |-> m, vis |-> v])

(* The following are modelled for classes only; as in the code, the name must *)
(* be found in the hierarchy (instance_method raises NameError otherwise).    *)
undef_method(t, c, n) == Find(c, n) # None /\ Store(t, c, n, Undef)

remove_method(t, c, n) == Find(c, n) # None /\ table[<<c, n>>] # None /\ Store(t, c, n, None)

(* an entry gets another visibility, even an undef entry; an inherited method a marker. *)
(* The lookup that decides which is in the same step as the store.                      *)
set_visibility(t, c, n) ==
  /\ table[<<c, n>>] # None \/ Find(c, n) # None
  /\ \E v \in Vis : Store(t, c, n, [table[<<c, n>>] EXCEPT !.vis = v])

(* VM.reset_method_cache: GlobalCache::clear(name) and InlineCacheRegistry::clear(name). *)
(* A site without klass_ starts over, unless its backend does not look at klass_.       *)
mutant_clear_own(n) == [x \in Slots |-> IF global[x].name = n /\ table[<<global[x].klass, n>>] # None
                                        THEN Empty ELSE global[x]]
clear_global(n) == [x \in Slots |-> IF global[x].name = n THEN Empty ELSE global[x]]
mutant_inline_kept(n) == [s \in Sites |-> IF Name[s] # n \/ ic[s].backend = "class" THEN ic[s] ELSE Unused]
mutant_missing_kept(n) == [s \in Sites |-> IF Name[s] # n \/ ic[s].backend = "mm" THEN ic[s] ELSE Unused]
clear_inline(n) == [s \in Sites |-> IF Name[s] # n THEN ic[s]
                                  ELSE IF ic[s].backend = "immediate" THEN [ic[s] EXCEPT !.klass = Nil] ELSE Unused]

reset_method_cache(t) ==
  /\ resets[t] # Nil
  /\ global' = clear_global(resets[t]) /\ ic' = clear_inline(resets[t])
  /\ resets' = [resets EXCEPT ![t] = Nil] /\ unreset' = unreset \ {resets[t]}
  /\ UNCHANGED <<table, chain, private>>

(* IncludedModule#attach_to: the module goes between c and its superclass *)
attach_to(c, s) == InsertAt(s, 1 + Min({i \in DOMAIN s : s[i] = c}), Mixin)

(* Module#include: nothing resets a cache *)
include(c) ==
  /\ Mixin \notin ToSet(chain[c])
  /\ chain' = [d \in Classes |-> IF c \in ToSet(chain[d]) THEN attach_to(c, chain[d]) ELSE chain[d]]
  /\ unreset' = unreset \cup {n \in Names : table[<<Mixin, n>>] # None}
  /\ UNCHANGED <<table, global, ic, resets, private>>

(* Module::add_method, for C extensions: clears the entry of this class only *)
capi_define(c, n) ==
  /\ \E m \in Methods, v \in Vis : table' = [table EXCEPT ![<<c, n>>] = [method |-> m, vis |-> v]]
  /\ global' = IF lookup(c, n) # Empty THEN [global EXCEPT ![Hash[<<c, n>>]] = Empty] ELSE global
  /\ unreset' = unreset \cup {n}
  /\ UNCHANGED <<chain, ic, resets, private>>

(* prune_unmarked: entries of methods that nothing else refers to *)
prune_unmarked ==
  LET live == {table[k].method : k \in DOMAIN table} \cup {ic[s].method : s \in Sites}
  IN  /\ global' = [x \in Slots |-> IF global[x].method \in live THEN global[x] ELSE Empty]
      /\ UNCHANGED <<table, chain, ic, resets, unreset, private>>

Next ==
  \/ \E t \in Threads, c \in Tables, n \in Names : add_method(t, c, n)
  \/ \E t \in Threads, c \in Classes, n \in Names :
       undef_method(t, c, n) \/ remove_method(t, c, n) \/ set_visibility(t, c, n)
  \/ \E t \in Threads : reset_method_cache(t)
  \/ \E c \in Classes : include(c)
  \/ \E c \in Classes, n \in Names : capi_define(c, n)
  \/ \E c \in Classes, n \in Names, p \in BOOLEAN : Resolve(c, n, p)
  \/ \E s \in Sites, c \in Classes : \/ CallCached(s, c)
                                     \/ \E self \in Classes : CallFound(s, c, self) \/ CallMissing(s, c, self)
  \/ prune_unmarked
Spec == Init /\ [][Next]_vars

-----------------------------------------------------------------------------
(* Properties. A name is settled if every change of a table under it has been *)
(* followed by its reset: no thread is between store and reset, and no        *)
(* include or C extension has changed it since the last one.                  *)
Settled(n) == n \notin unreset /\ \A t \in Threads : resets[t] # n

(* The global cache agrees with the tables: whatever calls and lookups came   *)
(* between the store and the reset of any thread, an entry of a settled name  *)
(* has the method the hierarchy now has, and a private method is not in it as *)
(* a public one.                                                              *)
GlobalCurrent ==
  \A x \in Slots : global[x] # Empty /\ Settled(global[x].name) =>
    LET found == Find(global[x].klass, global[x].name)
    IN  found.method = global[x].method /\ (found.vis = "private" => ~global[x].public)

(* A call site runs for receiver class c what the hierarchy now has for c.    *)
Current(s, c) ==
  Hits(s, c) /\ ic[s].backend # "mm" => Find(c, Name[s]).method = ic[s].method

(* Redefinition reaches call sites: a site whose name is settled runs the     *)
(* method that the tables have, never one that was replaced, removed or       *)
(* undefined, however its fill was interleaved with the change.               *)
InlineCurrent ==
  \A s \in Sites, c \in Classes : Settled(Name[s]) /\ ic[s].backend # "immediate" => Current(s, c)

(* A site that goes to method_missing has nothing it could call: a method     *)
(* added later, or made public, is not hidden by the cached failure.          *)
MissingCurrent ==
  \A s \in Sites, c \in Classes :
    Settled(Name[s]) /\ Hits(s, c) /\ ic[s].backend = "mm" =>
      \E self \in Classes : ~Found(s, c, self)

(* A private method is not run by a public call site, also not after a        *)
(* private call or a lookup has put the method into the global cache. (Not so *)
(* for an inherited public method under a private marker.)                    *)
PrivateHidden ==
  \A s \in Sites, c \in Classes :
    Settled(Name[s]) /\ s \notin private /\ Hits(s, c) /\ ic[s].backend = "class" =>
      Find(c, Name[s]).vis # "private" \/ Callable(c, Name[s], c)

(* What reset_method_cache promises ("Reset the method cache globally for     *)
(* given method name"), for every call site.                                  *)
ResetIsGlobal == \A s \in Sites, c \in Classes : Settled(Name[s]) => Current(s, c)
=============================================================================
