----------------------------- MODULE RadixCache -----------------------------
(***************************************************************************)
(* RadixPrefixCache (kvcache/cache_manager.cc) and its tree                *)
(* (kvcache/radix_tree.cc), under the calls that CacheManager makes.       *)
(*                                                                         *)
(* A node is named by the tokens on the path from the root to its end, a   *)
(* name it keeps for life: split_at puts a new node above it and leaves    *)
(* the end of the path alone. A handle is a pointer to a node, hence the   *)
(* same name, <<>> for the root. nodes maps each node to its ref_count,    *)
(* its timestamp and its value (the pages of its own tokens). The two      *)
(* counters are kept apart from the tree, as the code keeps them.          *)
(***************************************************************************)
EXTENDS Integers, FiniteSets, SequencesExt

CONSTANTS Clients,   \* the requests that use the cache
          Inputs,    \* the token sequences they look up and insert
          Pages,     \* the pages the cache may hold
          None,      \* "holds no handle"
          MaxClock   \* bound: tree walks in a behaviour

ASSUME RadixCacheAssumption ==
  /\ MaxClock \in Nat
  /\ None \notin Inputs      \* a handle stands for a prefix of an input
  /\ IsFiniteSet(Pages)

VARIABLES nodes,           \* the nodes but the root
          evictableSize,   \* evictable_size_
          protectedSize,   \* protected_size_
          held,            \* the handle each client has locked, or None
          clock            \* walks so far, what steady_clock is read for

vars == <<nodes, evictableSize, protectedSize, held, clock>>

-----------------------------------------------------------------------------
(* The shape of a tree t (a function like nodes). *)

Take(s, n) == SubSeq(s, 1, IF n <= Len(s) THEN n ELSE Len(s))

\* the nodes on the path to s, a handle's own node included
OnPath(t, s) == {b \in DOMAIN t : IsPrefix(b, s)}

\* parent_: the node, or the root, in which b's own tokens begin
Parent(t, b) ==
  LET Above == OnPath(t, b) \ {b}
  IN  IF Above = {} THEN <<>>
      ELSE CHOOSE a \in Above : \A o \in Above : Len(o) <= Len(a)

IsLeaf(t, b) == \A o \in DOMAIN t : ~IsStrictPrefix(b, o)

SumLen(t, S) == MapThenSumSet(LAMBDA b : Len(t[b].value), S)

\* the path from the root, token by token, that the tree holds of s
MatchedLen(t, s) ==
  CHOOSE n \in 0 .. Len(s) :
     /\ n > 0 => \E b \in DOMAIN t : IsPrefix(SubSeq(s, 1, n), b)
     /\ n < Len(s) => \A b \in DOMAIN t : ~IsPrefix(SubSeq(s, 1, n + 1), b)

\* split_at: a new node with the part of b above pos takes b's place under
\* its parent, with its ref_count and its timestamp; b keeps the rest
\* Mutants: b keeps the whole value; the new node starts without locks
SplitAtWholeValue(t, b, pos) ==
  LET cut == pos - Len(Parent(t, b))
  IN  [n \in DOMAIN t \cup {SubSeq(b, 1, pos)} |->
         IF n = SubSeq(b, 1, pos) THEN [t[b] EXCEPT !.value = SubSeq(@, 1, cut)]
                                  ELSE t[n]]
SplitAtUnlocked(t, b, pos) ==
  LET cut == pos - Len(Parent(t, b))
      v   == t[b].value
  IN  [n \in DOMAIN t \cup {SubSeq(b, 1, pos)} |->
         CASE n = b -> [t[b] EXCEPT !.value = SubSeq(v, cut + 1, Len(v))]
           [] n = SubSeq(b, 1, pos) ->
                [t[b] EXCEPT !.value = SubSeq(v, 1, cut), !.ref_count = 0]
           [] OTHER -> t[n]]
SplitAt(t, b, pos) ==
  LET cut == pos - Len(Parent(t, b))
      v   == t[b].value
  IN  [n \in DOMAIN t \cup {SubSeq(b, 1, pos)} |->
         CASE n = b -> [t[b] EXCEPT !.value = SubSeq(v, cut + 1, Len(v))]
           [] n = SubSeq(b, 1, pos) ->
                [t[b] EXCEPT !.value = SubSeq(v, 1, cut)]
           [] OTHER -> t[n]]

\* tree_walk: nodes fully matched get the time of the walk; the walk ends
\* by splitting the node it leaves half-way, whose timestamp stays
TreeWalk(t, s, tic) ==
  LET m == MatchedLen(t, s)
      end == SubSeq(s, 1, m)
      Beyond == {b \in DOMAIN t : IsStrictPrefix(end, b)}
      touched == [b \in DOMAIN t |-> IF b \in OnPath(t, end)
                                     THEN [t[b] EXCEPT !.timestamp = tic]
                                     ELSE t[b]]
      partial == CHOOSE b \in Beyond : \A o \in Beyond : Len(b) <= Len(o)
  IN  [len  |-> m,
       tree |-> IF m = 0 \/ end \in DOMAIN t THEN touched
                ELSE SplitAt(touched, partial, m)]

\* evict: remove the oldest unlocked leaf until n tokens are gone; what
\* became a leaf may be next. All outcomes, one for each way of breaking
\* ties in the heap; none if the heap runs empty before.
\* Mutant: locked leaves are not spared.
OldestOfAllLeaves(t) ==
  LET Leaves == {b \in DOMAIN t : IsLeaf(t, b)}
  IN  {b \in Leaves : \A o \in Leaves : t[b].timestamp <= t[o].timestamp}
OldestLeaves(t) ==
  LET Free == {b \in DOMAIN t : IsLeaf(t, b) /\ t[b].ref_count = 0}
  IN  {b \in Free : \A o \in Free : t[b].timestamp <= t[o].timestamp}

RECURSIVE EvictOutcomes(_, _)
EvictOutcomes(t, n) ==
  IF n <= 0 THEN {t}
  ELSE UNION {EvictOutcomes([o \in DOMAIN t \ {b} |-> t[o]],
                            n - Len(t[b].value)) : b \in OldestLeaves(t)}

-----------------------------------------------------------------------------
(* lock_handle(h, unlock): the whole path, with the two counters. *)

LockPath(t, h) ==
  [b \in DOMAIN t |-> IF b \in OnPath(t, h)
                      THEN [t[b] EXCEPT !.ref_count = @ + 1] ELSE t[b]]
UnlockPath(t, h) ==
  [b \in DOMAIN t |-> IF b \in OnPath(t, h)
                      THEN [t[b] EXCEPT !.ref_count = @ - 1] ELSE t[b]]

\* the tokens that a lock protects, and an unlock leaves evictable. Mutants:
\* locked ones counted again; the node of the handle only
ProtectsAll(t, h) == SumLen(t, OnPath(t, h))
ProtectsEnd(t, h) == SumLen(t, {b \in OnPath(t, h) : b = h /\ t[b].ref_count = 0})
Protects(t, h) == SumLen(t, {b \in OnPath(t, h) : t[b].ref_count = 0})
Exposes(t, h)  == SumLen(t, {b \in OnPath(t, h) : t[b].ref_count = 1})

\* insert_prefix: walk, then a new leaf for what the walk did not find,
\* stamped after the walk
InsertPrefix(t, ids, pages, tic) ==
  LET w == TreeWalk(t, ids, tic)
      leaf == [ref_count |-> 0, timestamp |-> tic + 1,
               value |-> SubSeq(pages, w.len + 1, Len(ids))]
  IN  IF w.len = Len(ids) THEN w.tree
      ELSE [b \in DOMAIN w.tree \cup {ids} |-> IF b = ids THEN leaf
                                               ELSE w.tree[b]]

-----------------------------------------------------------------------------
(* The pages the callers bring: free ones, in an arbitrary order. *)

Held(t) == UNION {Range(t[b].value) : b \in DOMAIN t}

NewPages(ids) ==
  LET m == MatchedLen(nodes, ids)
      fresh == SetToSeq(Pages \ Held(nodes))
  IN  [i \in 1 .. Len(ids) |-> IF i <= m THEN None ELSE fresh[i - m]]

Fits(ids) ==
  Len(ids) - MatchedLen(nodes, ids) <= Cardinality(Pages \ Held(nodes))

Tick == clock < MaxClock /\ clock' = clock + 1
tic  == 2 * clock

-----------------------------------------------------------------------------
Init == /\ nodes = <<>>
        /\ evictableSize = 0
        /\ protectedSize = 0
        /\ held = [c \in Clients |-> None]
        /\ clock = 0

\* match_prefix for a request that is not admitted in the end
Match(ids) ==
  /\ Tick
  /\ nodes' = TreeWalk(nodes, ids, tic).tree
  /\ UNCHANGED <<evictableSize, protectedSize, held>>

\* match_prefix, then lock_handle
MatchAndLock(c, ids) ==
  LET w == TreeWalk(nodes, ids, tic)
      h == Take(ids, w.len)
  IN  /\ Tick
      /\ held[c] = None
      /\ held' = [held EXCEPT ![c] = h]
      /\ nodes' = LockPath(w.tree, h)
      /\ evictableSize' = evictableSize - Protects(w.tree, h)
      /\ protectedSize' = protectedSize + Protects(w.tree, h)

\* lock_handle with unlock
Release(c) ==
  /\ held[c] # None
  /\ held' = [held EXCEPT ![c] = None]
  /\ nodes' = UnlockPath(nodes, held[c])
  /\ evictableSize' = evictableSize + Exposes(nodes, held[c])
  /\ protectedSize' = protectedSize - Exposes(nodes, held[c])
  /\ UNCHANGED clock

\* insert_prefix of a finished request
InsertOnly(ids) ==
  /\ Tick
  /\ Fits(ids)
  /\ nodes' = InsertPrefix(nodes, ids, NewPages(ids), tic)
  /\ evictableSize' = evictableSize + Len(ids) - MatchedLen(nodes, ids)
  /\ UNCHANGED <<protectedSize, held>>

\* insert_prefix of a running request, whose lock moves to the result
InsertAndLock(c, ids) ==
  LET t1 == InsertPrefix(nodes, ids, NewPages(ids), tic)
      t2 == UnlockPath(t1, held[c])
      change == Exposes(t1, held[c]) - Protects(t2, ids)
  IN  /\ Tick
      /\ held[c] # None
      /\ IsPrefix(held[c], ids)
      /\ Fits(ids)
      /\ held' = [held EXCEPT ![c] = ids]
      /\ nodes' = LockPath(t2, ids)
      /\ evictableSize' = evictableSize + change
                          + Len(ids) - MatchedLen(nodes, ids)
      /\ protectedSize' = protectedSize - change

\* evict(n): TORCH_CHECK(n <= evictable_size_)
Evict(n) ==
  /\ n <= evictableSize
  /\ \E t \in EvictOutcomes(nodes, n) :
       /\ nodes' = t
       /\ evictableSize' = evictableSize - (SumLen(nodes, DOMAIN nodes)
                                            - SumLen(t, DOMAIN t))
  /\ UNCHANGED <<protectedSize, held, clock>>

Next ==
  \/ \E ids \in Inputs : Match(ids)
  \/ \E c \in Clients, ids \in Inputs : MatchAndLock(c, ids)
  \/ \E c \in Clients : Release(c)
  \/ \E ids \in Inputs : InsertOnly(ids)
  \/ \E c \in Clients, ids \in Inputs : InsertAndLock(c, ids)
  \/ \E n \in 1 .. Cardinality(Pages) : Evict(n)

Spec == Init /\ [][Next]_vars
-----------------------------------------------------------------------------
(* The types, with the shape of a tree: every node holds the pages of the  *)
(* tokens between its parent and itself, at least one of them, no page     *)
(* twice, and no two children of a node begin with the same token (the key *)
(* they are stored under).                                                 *)
TypeOK ==
  /\ \A b \in DOMAIN nodes :
       /\ nodes[b].ref_count \in Nat
       /\ nodes[b].timestamp \in Nat
       /\ nodes[b].value \in Seq(Pages)
       /\ Len(nodes[b].value) = Len(b) - Len(Parent(nodes, b))
       /\ Len(nodes[b].value) > 0
  /\ \A b, o \in DOMAIN nodes :
       b # o => /\ Range(nodes[b].value) \cap Range(nodes[o].value) = {}
                /\ \/ Parent(nodes, b) # Parent(nodes, o)
                   \/ LET k == Len(Parent(nodes, b)) + 1 IN b[k] # o[k]
  /\ evictableSize \in Nat
  /\ protectedSize \in Nat
  /\ clock \in 0 .. MaxClock

(* A lock counts once on every node of its path, whatever splits happened  *)
(* between lock and unlock, and the node a handle points to is still in    *)
(* the tree (lock_handle, split_at, and the unlock in cache_req, which     *)
(* comes after an insertion that may have split the locked node).          *)
RefsCountHolders ==
  /\ \A c \in Clients : held[c] \in {None, <<>>} \cup DOMAIN nodes
  /\ \A b \in DOMAIN nodes :
       nodes[b].ref_count =
         Cardinality({c \in Clients : held[c] # None /\ IsPrefix(b, held[c])})

(* evictable_size_ and protected_size_, adjusted here and there by lock,   *)
(* unlock, insert and evict and never recomputed, are the lengths of the   *)
(* unlocked and of the locked nodes: admission relies on them.             *)
CountersExact ==
  /\ evictableSize = SumLen(nodes, {b \in DOMAIN nodes : nodes[b].ref_count = 0})
  /\ protectedSize = SumLen(nodes, {b \in DOMAIN nodes : nodes[b].ref_count > 0})

(* evict's second TORCH_CHECK: as long as the size asked for is within     *)
(* evictable_size_, the heap of unlocked leaves does not run empty. It     *)
(* needs every node below an unlocked one to be unlocked too.              *)
EvictDelivers == \A n \in 1 .. evictableSize : EvictOutcomes(nodes, n) # {}

-----------------------------------------------------------------------------
(* The abstract cache: the owner of a cached prefix is the first node at   *)
(* or below it.                                                            *)
Owner(q) ==
  LET Below == {b \in DOMAIN nodes : IsPrefix(q, b)}
  IN  CHOOSE b \in Below : \A o \in Below : Len(b) <= Len(o)

CachedPrefixes == UNION {{SubSeq(b, 1, n) : n \in 1 .. Len(b)} : b \in DOMAIN nodes}

AbstractTree ==
  [page |-> [q \in CachedPrefixes |->
               nodes[Owner(q)].value[Len(q) - Len(Parent(nodes, Owner(q)))]],
   ref  |-> [q \in CachedPrefixes |-> nodes[Owner(q)].ref_count]]

Abstract == INSTANCE PrefixCache WITH tree <- AbstractTree

(* The radix tree implements the prefix cache: splits and lookups are      *)
(* invisible, a handle always stands for the longest cached prefix, keeps  *)
(* its pages through every split, and eviction takes unlocked prefixes     *)
(* only (base.h: "When locked, the cached prefix cannot be evicted").      *)
ImplementsPrefixCache == Abstract!Spec

(* base.h again, for a client's view of the radix tree: no walk, split,    *)
(* insertion or eviction takes away a prefix that a client holds, or moves *)
(* it to other pages, which its page table row goes on naming.             *)
HeldStays == Abstract!HeldStays
=============================================================================
