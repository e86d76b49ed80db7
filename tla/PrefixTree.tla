----------------------------- MODULE PrefixTree -----------------------------
(***************************************************************************)
(* The prefix cache as its callers see it: which token prefixes have their *)
(* KV cached, in which page, and how many locks protect each of them.      *)
(* Pure operators, one per call of BasePrefixCache (kvcache/base.h); the   *)
(* nodes of the radix tree, their splitting and their timestamps are in    *)
(* RadixCache, which is checked to implement these operators.              *)
(*                                                                         *)
(* A tree is a record of two functions with the same domain, the set of    *)
(* cached prefixes: page[q] is the page of the last token of q and ref[q]  *)
(* the number of locks on it. A handle is the prefix it stands for, so     *)
(* cached_len is its length and the root's handle is <<>>. The page size   *)
(* is 1, the only one Engine accepts: a token occupies a page.             *)
(***************************************************************************)
EXTENDS Integers, FiniteSets, SequencesExt

\* slice(0, 0, n), which stops at the end of the tensor
Take(s, n) == SubSeq(s, 1, IF n <= Len(s) THEN n ELSE Len(s))

\* the non-empty prefixes of s: the path from the root to s, token by token
Path(s) == {SubSeq(s, 1, n) : n \in 1 .. Len(s)}

EmptyTree == [page |-> <<>>, ref |-> <<>>]

Cached(t) == DOMAIN t.page

\* match_prefix: the length of the longest cached prefix of ids
MatchLen(t, ids) ==
  CHOOSE n \in 0 .. Len(ids) :
     /\ \A k \in 1 .. n : SubSeq(ids, 1, k) \in Cached(t)
     /\ n < Len(ids) => SubSeq(ids, 1, n + 1) \notin Cached(t)

\* get_matched_indices: the pages of a handle, in order
PagesOf(t, h) == [i \in 1 .. Len(h) |-> t.page[SubSeq(h, 1, i)]]

\* lock_handle(h, unlock): one lock more, or less, on the whole path of h
Shift(t, h, d) ==
  [t EXCEPT !.ref = [q \in Cached(t) |-> IF q \in Path(h) THEN t.ref[q] + d
                                                          ELSE t.ref[q]]]
Lock(t, h)   == Shift(t, h, 1)
\* mutant: the lock stays
UnlockNothing(t, h) == t
Unlock(t, h) == Shift(t, h, -1)

\* insert_prefix: cached prefixes keep their page, the new ones take theirs
\* from pages and start without a lock
Insert(t, ids, pages) ==
  LET All == Cached(t) \cup Path(ids)
  IN  [page |-> [q \in All |-> IF q \in Cached(t) THEN t.page[q]
                                                  ELSE pages[Len(q)]],
       ref  |-> [q \in All |-> IF q \in Cached(t) THEN t.ref[q] ELSE 0]]

\* mutant: locks are not looked at
EvictableAll(t) == Cached(t)
Evictable(t) == {q \in Cached(t) : t.ref[q] = 0}

\* nothing cached hangs below a prefix that goes
ClosedBelow(t, E) == \A q \in Cached(t) : (Path(q) \cap E # {}) => q \in E

\* evict(n): the sets of prefixes it may remove. It removes unlocked nodes
\* from the leaves up and stops with the first one, Final, that makes it n.
\* Which leaves go first is the LRU order of RadixCache.
EvictionSets(t, n) ==
  {E \in SUBSET Evictable(t) :
     /\ ClosedBelow(t, E)
     /\ Cardinality(E) >= n
     /\ \E q \in E : \E k \in 1 .. Len(q) :
          LET Final == {SubSeq(q, 1, j) : j \in k .. Len(q)}
          IN  /\ Final \subseteq E
              /\ ClosedBelow(t, E \ Final)
              /\ Cardinality(E \ Final) < n}

Evict(t, E) ==
  [page |-> [q \in Cached(t) \ E |-> t.page[q]],
   ref  |-> [q \in Cached(t) \ E |-> t.ref[q]]]
=============================================================================
