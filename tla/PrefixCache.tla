---------------------------- MODULE PrefixCache ----------------------------
(***************************************************************************)
(* What a prefix cache promises its clients (BasePrefixCache in            *)
(* kvcache/base.h): a client locks the longest cached prefix of its input  *)
(* or the prefix it has just inserted, and as long as it holds the lock    *)
(* the prefix stays, in the same pages. Any prefix nobody holds may go     *)
(* when pages are needed. RadixCache implements this specification.        *)
(***************************************************************************)
EXTENDS PrefixTree

CONSTANTS Clients,   \* the requests that use the cache
          Inputs,    \* the token sequences they look up and insert
          Pages,     \* the pages the cache may hold
          None       \* "holds no handle"

VARIABLES tree,      \* the cached prefixes, their pages and lock counts
          held       \* the handle each client has locked, or None

vars == <<tree, held>>

FreePages == Pages \ Range(tree.page)

\* the pages an insertion of ids brings for its positions: those of the
\* cached part are already known, the others are free ones
NewPages(ids) ==
  LET m == MatchLen(tree, ids)
      fresh == SetToSeq(FreePages)
  IN  [i \in 1 .. Len(ids) |-> IF i <= m THEN tree.page[SubSeq(ids, 1, i)]
                                         ELSE fresh[i - m]]

Fits(ids) == Len(ids) - MatchLen(tree, ids) <= Cardinality(FreePages)

Init == /\ tree = EmptyTree
        /\ held = [c \in Clients |-> None]

\* match_prefix and lock_handle
MatchAndLock(c, ids) ==
  LET h == Take(ids, MatchLen(tree, ids))
  IN  /\ held[c] = None
      /\ held' = [held EXCEPT ![c] = h]
      /\ tree' = Lock(tree, h)

\* lock_handle with unlock
Release(c) ==
  /\ held[c] # None
  /\ held' = [held EXCEPT ![c] = None]
  /\ tree' = Unlock(tree, held[c])

\* insert_prefix of a finished request: nobody holds the result
InsertOnly(ids) ==
  /\ Fits(ids)
  /\ tree' = Insert(tree, ids, NewPages(ids))
  /\ UNCHANGED held

\* insert_prefix of a running request, which moves its lock to the result
InsertAndLock(c, ids) ==
  /\ held[c] # None
  /\ IsPrefix(held[c], ids)
  /\ Fits(ids)
  /\ held' = [held EXCEPT ![c] = ids]
  /\ tree' = Lock(Unlock(Insert(tree, ids, NewPages(ids)), held[c]), ids)

EvictSome(n) ==
  /\ \E E \in EvictionSets(tree, n) : tree' = Evict(tree, E)
  /\ UNCHANGED held

Next ==
  \/ \E c \in Clients, ids \in Inputs : MatchAndLock(c, ids)
  \/ \E c \in Clients : Release(c)
  \/ \E ids \in Inputs : InsertOnly(ids)
  \/ \E c \in Clients, ids \in Inputs : InsertAndLock(c, ids)
  \/ \E n \in 1 .. Cardinality(Evictable(tree)) : EvictSome(n)

Spec == Init /\ [][Next]_vars
-----------------------------------------------------------------------------
(* Types; what is cached is closed under prefixes, in distinct pages.      *)
TypeOK ==
  /\ \A q \in Cached(tree) : Path(q) \subseteq Cached(tree)
  /\ tree.page \in [Cached(tree) -> Pages]
  /\ tree.ref \in [Cached(tree) -> Nat]
  /\ IsInjective(tree.page)

(* What a client holds is cached, and every cached prefix is locked once   *)
(* for each client that holds it or a continuation of it (lock_handle).    *)
RefsCountHolders ==
  /\ \A c \in Clients : held[c] # None => Path(held[c]) \subseteq Cached(tree)
  /\ \A q \in Cached(tree) :
       tree.ref[q] =
         Cardinality({c \in Clients : held[c] # None /\ q \in Path(held[c])})

(* lock_handle's comment in base.h: "When locked, the cached prefix cannot *)
(* be evicted". No step takes away, or moves to another page, a prefix     *)
(* that a client holds before the step.                                    *)
HeldStays ==
  [][\A c \in Clients : held[c] # None =>
       \A q \in Path(held[c]) : /\ q \in Cached(tree')
                                /\ tree'.page[q] = tree.page[q]]_vars
=============================================================================
