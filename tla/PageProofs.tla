----------------------------- MODULE PageProofs -----------------------------
(***************************************************************************)
(* The KV pages of Scheduler, on top of ReplyProofs. Every page is in one  *)
(* place and a cached prefix has one lock for each request that stands on  *)
(* it (PageInv). Then what the pages hold: a request reads its own tokens, *)
(* from its own pages and from the cache (KVInv), as long as no request    *)
(* computes what another has put in the cache meanwhile (Alone).           *)
(* Then that nothing is left behind when the work is done (AccountInv).    *)
(* Then that the pages PrefillAdder reserves are enough (ReserveInv), and  *)
(* last that all of the data have their types (DataInv).                   *)
(***************************************************************************)
EXTENDS ReplyProofs, FiniteSetTheorems

-----------------------------------------------------------------------------
(* Prefixes and the tree of them.                                          *)

LEMMA PathFacts ==
  ASSUME NEW T, NEW s \in Seq(T)
  PROVE  /\ \A q \in Path(s) : /\ q \in Seq(T) /\ q # <<>> /\ Len(q) \in 1 .. Len(s)
                               /\ q = SubSeq(s, 1, Len(q))
                               /\ Path(q) \subseteq Path(s)
         /\ \A n \in 1 .. Len(s) : SubSeq(s, 1, n) \in Path(s)
         /\ Len(s) = 0 => Path(s) = {}
<1>1. ASSUME NEW n \in 1 .. Len(s)
      PROVE  /\ SubSeq(s, 1, n) \in Seq(T) /\ Len(SubSeq(s, 1, n)) = n
             /\ \A k \in 1 .. n : SubSeq(SubSeq(s, 1, n), 1, k) = SubSeq(s, 1, k)
  OBVIOUS
<1>2. ASSUME NEW q \in Path(s)
      PROVE  /\ q \in Seq(T) /\ q # <<>> /\ Len(q) \in 1 .. Len(s)
             /\ q = SubSeq(s, 1, Len(q))
             /\ Path(q) \subseteq Path(s)
  <2>1. PICK n \in 1 .. Len(s) : q = SubSeq(s, 1, n)
    BY DEF Path
  <2>2. q \in Seq(T) /\ Len(q) = n /\ q # <<>>
    BY <1>1, <2>1
  <2>3. Path(q) \subseteq Path(s)
    <3>1. \A k \in 1 .. n : SubSeq(q, 1, k) = SubSeq(s, 1, k) /\ k \in 1 .. Len(s)
      BY <1>1, <2>1
    <3> QED BY <2>2, <3>1 DEF Path
  <2> QED BY <2>1, <2>2, <2>3
<1>3. Len(s) = 0 => Path(s) = {}
  BY DEF Path
<1>4. \A n \in 1 .. Len(s) : SubSeq(s, 1, n) \in Path(s)
  BY DEF Path
<1> QED BY <1>2, <1>3, <1>4

LEMMA PathFinite ==
  ASSUME NEW T, NEW s \in Seq(T)  PROVE IsFiniteSet(Path(s))
<1> DEFINE f == [n \in 1 .. Len(s) |-> SubSeq(s, 1, n)]
<1>1. f \in Surjection(1 .. Len(s), Path(s))
  BY DEF Path, Surjection
<1>2. Len(s) \in Nat /\ IsFiniteSet(1 .. Len(s))
  BY FS_Interval
<1> HIDE DEF f
<1> QED BY <1>1, <1>2, FS_Surjection

\* a list and one that it begins have the same prefixes, as far as it goes
LEMMA BeginsPath ==
  ASSUME NEW T, NEW s \in Seq(T), NEW t \in Seq(T), Begins(s, t)
  PROVE  /\ \A n \in 0 .. Len(s) : SubSeq(s, 1, n) = SubSeq(t, 1, n)
         /\ Path(s) \subseteq Path(t)
<1>1. ASSUME NEW n \in 0 .. Len(s) PROVE SubSeq(s, 1, n) = SubSeq(t, 1, n)
  <2>1. n \in Nat /\ n <= Len(s) /\ n <= Len(t)
    BY DEF Begins
  <2>2. \A i \in 1 .. n : s[i] = t[i]
    BY DEF Begins
  <2> DEFINE x == SubSeq(s, 1, n)
             y == SubSeq(t, 1, n)
  <2>3. x \in Seq(T) /\ y \in Seq(T) /\ Len(x) = n /\ Len(y) = n
    BY <2>1
  <2>4. \A i \in 1 .. n : x[i] = s[i] /\ y[i] = t[i]
    BY <2>1
  <2> HIDE DEF x, y
  <2>5. x = y
    BY <2>2, <2>3, <2>4, SeqEqual
  <2> QED BY <2>5 DEF x, y
<1>2. \A n \in 1 .. Len(s) : n \in 1 .. Len(t) /\ n \in 0 .. Len(s)
  BY DEF Begins
<1>3. Path(s) \subseteq Path(t)
  BY <1>1, <1>2 DEF Path
<1> QED BY <1>1, <1>3

\* a set of prefixes that has the prefixes of each
Closed(C) == \A q \in C : Path(q) \subseteq C

\* what match_prefix finds is in the tree, what follows it is not
LEMMA MatchSplits ==
  ASSUME NEW t, NEW T, NEW ids \in Seq(T), Closed(Cached(t))
  PROVE  /\ MatchLen(t, ids) \in 0 .. Len(ids)
         /\ \A k \in 1 .. Len(ids) :
              SubSeq(ids, 1, k) \in Cached(t) <=> k <= MatchLen(t, ids)
<1> DEFINE m == MatchLen(t, ids)
<1>1. /\ m \in 0 .. Len(ids)
      /\ \A k \in 1 .. m : SubSeq(ids, 1, k) \in Cached(t)
      /\ m < Len(ids) => SubSeq(ids, 1, m + 1) \notin Cached(t)
  BY MatchLenFound
<1> HIDE DEF m
<1>2. ASSUME NEW k \in 1 .. Len(ids), SubSeq(ids, 1, k) \in Cached(t), m < k
      PROVE  FALSE
  <2>1. m < Len(ids) /\ m + 1 \in 1 .. k
    BY <1>1, <1>2
  <2>2. SubSeq(ids, 1, k) \in Seq(T) /\ Len(SubSeq(ids, 1, k)) = k
    OBVIOUS
  <2>3. SubSeq(SubSeq(ids, 1, k), 1, m + 1) \in Path(SubSeq(ids, 1, k))
    BY <2>1, <2>2, PathFacts
  <2>4. SubSeq(SubSeq(ids, 1, k), 1, m + 1) = SubSeq(ids, 1, m + 1)
    BY <2>1, <1>1
  <2> QED BY <1>1, <1>2, <2>1, <2>3, <2>4 DEF Closed
<1>3. \A k \in 1 .. Len(ids) : k <= m => k \in 1 .. m
  BY <1>1
<1>4. \A k \in 1 .. Len(ids) : SubSeq(ids, 1, k) \in Cached(t) <=> k <= m
  <2> TAKE k \in 1 .. Len(ids)
  <2>1. CASE k <= m  BY <1>1, <1>3, <2>1
  <2>2. CASE ~(k <= m)
    <3>1. m < k
      BY <1>1, <2>2
    <3> QED BY <1>2, <2>2, <3>1
  <2> QED BY <2>1, <2>2
<1> QED BY <1>1, <1>4 DEF m

\* the shape of the prefix cache
Shape(t) ==
  /\ DOMAIN t = {"page", "ref"}
  /\ Cached(t) \subseteq Seq(Tokens) \ {<<>>}
  /\ Closed(Cached(t)) /\ IsFiniteSet(Cached(t))
  /\ t.page \in [Cached(t) -> Pages]
  /\ t.ref \in [Cached(t) -> Int]

LEMMA InsertShape ==
  ASSUME NEW t, Shape(t), NEW ids \in Seq(Tokens), NEW pages \in Seq(Pages),
         Len(ids) <= Len(pages), NEW t2, t2 = Insert(t, ids, pages)
  PROVE  /\ Shape(t2)
         /\ Cached(t2) = Cached(t) \cup Path(ids)
         /\ \A q \in Cached(t2) :
              /\ t2.page[q] = IF q \in Cached(t) THEN t.page[q] ELSE pages[Len(q)]
              /\ t2.ref[q] = IF q \in Cached(t) THEN t.ref[q] ELSE 0
<1> DEFINE C == Cached(t) \cup Path(ids)
           F == [q \in C |-> IF q \in Cached(t) THEN t.page[q] ELSE pages[Len(q)]]
           G == [q \in C |-> IF q \in Cached(t) THEN t.ref[q] ELSE 0]
<1>1. t2 = [page |-> F, ref |-> G]
  BY DEF Insert
<1>2. \A q \in Path(ids) : /\ q \in Seq(Tokens) \ {<<>>} /\ Path(q) \subseteq Path(ids)
                           /\ Len(q) \in 1 .. Len(pages)
  <2>1. \A q \in Path(ids) : /\ q \in Seq(Tokens) \ {<<>>} /\ Path(q) \subseteq Path(ids)
                             /\ Len(q) \in 1 .. Len(ids)
    BY PathFacts
  <2>2. Len(ids) \in Nat /\ Len(pages) \in Nat
    OBVIOUS
  <2> QED BY <2>1, <2>2
<1>3. Closed(C) /\ C \subseteq Seq(Tokens) \ {<<>>}
  BY <1>2 DEF Shape, Closed
<1>4. IsFiniteSet(C)
  BY PathFinite, FS_Union DEF Shape
<1>5. F \in [C -> Pages]
  <2>1. \A q \in C : (IF q \in Cached(t) THEN t.page[q] ELSE pages[Len(q)]) \in Pages
    BY <1>2 DEF Shape
  <2> QED BY <2>1
<1>6. G \in [C -> Int]
  BY DEF Shape
<1>7. DOMAIN t2 = {"page", "ref"} /\ t2.page = F /\ t2.ref = G
  BY <1>1
<1>8. \A q \in C :
        /\ F[q] = IF q \in Cached(t) THEN t.page[q] ELSE pages[Len(q)]
        /\ G[q] = IF q \in Cached(t) THEN t.ref[q] ELSE 0
  OBVIOUS
<1> HIDE DEF F, G
<1>9. Cached(t2) = C
  BY <1>5, <1>7 DEF Cached
<1> QED BY <1>3, <1>4, <1>5, <1>6, <1>7, <1>8, <1>9 DEF Shape

LEMMA ShiftShape ==
  ASSUME NEW t, Shape(t), NEW h, NEW d \in Int, NEW t2, t2 = Shift(t, h, d)
  PROVE  /\ Shape(t2) /\ Cached(t2) = Cached(t) /\ t2.page = t.page
         /\ \A q \in Cached(t) :
              t2.ref[q] = IF q \in Path(h) THEN t.ref[q] + d ELSE t.ref[q]
<1> DEFINE G == [q \in Cached(t) |-> IF q \in Path(h) THEN t.ref[q] + d ELSE t.ref[q]]
<1>1. t2 = [t EXCEPT !.ref = G]
  BY DEF Shift
<1>2. G \in [Cached(t) -> Int]
  BY DEF Shape
<1>3. \A q \in Cached(t) :
        G[q] = IF q \in Path(h) THEN t.ref[q] + d ELSE t.ref[q]
  OBVIOUS
<1> HIDE DEF G
<1>4. DOMAIN t2 = DOMAIN t /\ t2.page = t.page /\ t2.ref = G
  BY <1>1 DEF Shape
<1>5. Cached(t2) = Cached(t)
  BY <1>4 DEF Cached
<1> QED BY <1>2, <1>3, <1>4, <1>5 DEF Shape

\* what cache_req makes of the tree
CacheTree(t, ids, pages, h, finished) ==
  IF finished THEN Unlock(Insert(t, ids, pages), h)
              ELSE Lock(Unlock(Insert(t, ids, pages), h), ids)

LEMMA CacheTreeShape ==
  ASSUME NEW t, Shape(t), NEW ids \in Seq(Tokens), NEW pages \in Seq(Pages),
         Len(ids) <= Len(pages), NEW h, NEW finished \in BOOLEAN,
         NEW t2, t2 = CacheTree(t, ids, pages, h, finished)
  PROVE  /\ Shape(t2)
         /\ Cached(t2) = Cached(t) \cup Path(ids)
         /\ \A q \in Cached(t2) :
              /\ t2.page[q] = IF q \in Cached(t) THEN t.page[q] ELSE pages[Len(q)]
              /\ t2.ref[q] = (IF q \in Cached(t) THEN t.ref[q] ELSE 0)
                             - (IF q \in Path(h) THEN 1 ELSE 0)
                             + (IF ~finished /\ q \in Path(ids) THEN 1 ELSE 0)
<1> DEFINE t0 == Insert(t, ids, pages)
           t1 == Unlock(t0, h)
           t3 == Lock(t1, ids)
<1>1. /\ Shape(t0) /\ Cached(t0) = Cached(t) \cup Path(ids)
      /\ \A q \in Cached(t0) :
           /\ t0.page[q] = IF q \in Cached(t) THEN t.page[q] ELSE pages[Len(q)]
           /\ t0.ref[q] = IF q \in Cached(t) THEN t.ref[q] ELSE 0
  BY InsertShape
<1> HIDE DEF t0
<1>2. t1 = Shift(t0, h, -1)
  BY DEF Unlock
<1> HIDE DEF t1
<1>3. /\ Shape(t1) /\ Cached(t1) = Cached(t0) /\ t1.page = t0.page
      /\ \A q \in Cached(t0) :
           t1.ref[q] = IF q \in Path(h) THEN t0.ref[q] + (-1) ELSE t0.ref[q]
  BY <1>1, <1>2, ShiftShape
<1>4. t3 = Shift(t1, ids, 1)
  BY DEF Lock
<1> HIDE DEF t3
<1>5. /\ Shape(t3) /\ Cached(t3) = Cached(t1) /\ t3.page = t1.page
      /\ \A q \in Cached(t1) :
           t3.ref[q] = IF q \in Path(ids) THEN t1.ref[q] + 1 ELSE t1.ref[q]
  BY <1>3, <1>4, ShiftShape
<1>6. t2 = IF finished THEN t1 ELSE t3
  BY DEF CacheTree, t0, t1, t3
<1>7. \A q \in Cached(t0) : t0.ref[q] \in Int
  BY <1>1 DEF Shape
<1>8. CASE finished
  BY <1>1, <1>3, <1>6, <1>7, <1>8
<1>9. CASE ~finished
  BY <1>1, <1>3, <1>5, <1>6, <1>7, <1>9
<1> QED BY <1>8, <1>9

-----------------------------------------------------------------------------
(* Lists without duplicates.                                               *)

LEMMA SetToSeqFacts ==
  ASSUME NEW S, IsFiniteSet(S)
  PROVE  /\ SetToSeq(S) \in Seq(S) /\ Range(SetToSeq(S)) = S
         /\ IsInjective(SetToSeq(S))
<1> DEFINE n == Cardinality(S)
           f == SetToSeq(S)
<1>1. n \in Nat /\ ExistsBijection(1 .. n, S)
  BY FS_CardinalityType
<1>2. \E g \in [1 .. n -> S] : IsInjective(g)
  BY <1>1 DEF ExistsBijection, Bijection, Injection
<1>3. f \in [1 .. n -> S] /\ IsInjective(f)
  BY <1>2 DEF SetToSeq
<1>4. f \in Injection(1 .. n, S)
  BY <1>3 DEF Injection
<1>5. IsFiniteSet(1 .. n) /\ Cardinality(1 .. n) = n
  BY <1>1, FS_Interval
<1> HIDE DEF f
<1>6. f \in Surjection(1 .. n, S)
  BY <1>4, <1>5, FS_Injection
<1>7. Range(f) = S
  BY <1>3, <1>6 DEF Surjection, Range
<1>8. f \in Seq(S)
  BY <1>1, <1>3
<1> QED BY <1>3, <1>7, <1>8 DEF f

\* the elements of a part of a list
Span(s, a, b) == {s[i] : i \in a + 1 .. b}

LEMMA PartFacts ==
  ASSUME NEW T, NEW s \in Seq(T), NEW a \in Nat, NEW b \in Nat, b <= Len(s)
  PROVE  /\ SubSeq(s, a + 1, b) \in Seq(T)
         /\ Len(SubSeq(s, a + 1, b)) = IF a <= b THEN b - a ELSE 0
         /\ \A i \in 1 .. Len(SubSeq(s, a + 1, b)) : SubSeq(s, a + 1, b)[i] = s[a + i]
         /\ Range(SubSeq(s, a + 1, b)) = Span(s, a, b)
<1> DEFINE x == SubSeq(s, a + 1, b)
<1>1. /\ x \in Seq(T) /\ Len(x) = (IF a <= b THEN b - a ELSE 0)
      /\ DOMAIN x = 1 .. Len(x)
  OBVIOUS
<1>2. \A i \in 1 .. Len(x) : x[i] = s[a + i]
  OBVIOUS
<1> HIDE DEF x
<1>3. Range(x) \subseteq {s[i] : i \in a + 1 .. b}
  <2>1. \A i \in 1 .. Len(x) : a + i \in a + 1 .. b
    BY <1>1
  <2> QED BY <1>1, <1>2, <2>1 DEF Range
<1>4. {s[i] : i \in a + 1 .. b} \subseteq Range(x)
  <2>1. \A i \in a + 1 .. b : i - a \in 1 .. Len(x) /\ s[i] = s[a + (i - a)]
    BY <1>1
  <2>2. \A i \in a + 1 .. b : s[i] = x[i - a] /\ i - a \in DOMAIN x
    BY <1>1, <1>2, <2>1
  <2> QED BY <2>2 DEF Range
<1> QED BY <1>1, <1>2, <1>3, <1>4 DEF x, Span

LEMMA PartInjective ==
  ASSUME NEW T, NEW s \in Seq(T), NEW a \in Nat, NEW b \in Nat, b <= Len(s),
         \A i, j \in a + 1 .. b : s[i] = s[j] => i = j
  PROVE  IsInjective(SubSeq(s, a + 1, b))
<1> DEFINE x == SubSeq(s, a + 1, b)
<1>1. /\ x \in Seq(T) /\ Len(x) = (IF a <= b THEN b - a ELSE 0)
      /\ \A i \in 1 .. Len(x) : x[i] = s[a + i]
  BY PartFacts
<1> HIDE DEF x
<1>2. ASSUME NEW i \in 1 .. Len(x), NEW j \in 1 .. Len(x), x[i] = x[j]
      PROVE  i = j
  <2>1. a + i \in a + 1 .. b /\ a + j \in a + 1 .. b
    BY <1>1
  <2>2. s[a + i] = s[a + j]
    BY <1>1, <1>2
  <2>3. a + i = a + j
    BY <2>1, <2>2
  <2> QED BY <2>3
<1>3. IsInjective(x)
  BY <1>1, <1>2 DEF IsInjective
<1> QED BY <1>3 DEF x

-----------------------------------------------------------------------------
(* Where the pages are.                                                    *)

PageRow(u) == pageRow[req[u].slot]
Stock == freePages \o lazyFree

\* the positions whose pages only u uses, and these pages
Mine(u) == Len(req[u].handle) + 1 .. req[u].cached
Private(u) == {PageRow(u)[i] : i \in Mine(u)}

\* pages are freed lazily within process_forward_output only
Lists ==
  /\ pageRow \in [Slots -> Seq(Pages)]
  /\ freePages \in Seq(Pages) /\ lazyFree \in Seq(Pages)
  /\ pc # "process" => lazyFree = <<>>

\* a page table row is as long as what is computed of its request
Lengths ==
  \A u \in Owned : /\ req[u].cached \in Nat /\ req[u].cached <= req[u].device
                   /\ Len(PageRow(u)) = req[u].cached
                   /\ Len(req[u].handle) <= req[u].cached

\* a request holds a cached prefix of its own tokens
Handles ==
  \A u \in Owned : /\ req[u].handle \in Seq(Tokens)
                   /\ Begins(req[u].handle, req[u].ids)
                   /\ Path(req[u].handle) \subseteq Cached(tree)

\* no page is listed twice ...
Singly ==
  /\ IsInjective(Stock) /\ IsInjective(tree.page)
  /\ \A u \in Owned : \A i, j \in Mine(u) : PageRow(u)[i] = PageRow(u)[j] => i = j

\* ... or in two places ...
Disjoint ==
  /\ Range(Stock) \cap Range(tree.page) = {}
  /\ \A u \in Owned : Private(u) \cap (Range(Stock) \cup Range(tree.page)) = {}
  /\ \A u, v \in Owned : u # v => Private(u) \cap Private(v) = {}

\* ... or lost
Complete ==
  Pages \subseteq Range(Stock) \cup Range(tree.page)
                  \cup UNION {Private(u) : u \in Owned}

Holding == Shape(tree) /\ Lists /\ Lengths /\ Handles
Places == Singly /\ Disjoint /\ Complete

PageBase == ReplyBase /\ MirrorInv

LEMMA OwnedFacts ==
  ASSUME PageBase, NEW u \in Owned
  PROVE  /\ u \in Uids /\ u \in Holders /\ u \notin freed
         /\ req[u].slot \in Slots /\ IsReq(req[u])
         /\ req[u].cached \in Int /\ req[u].device \in Int
         /\ req[u].ids \in Seq(Tokens)
<1>1. u \in Uids /\ u \in Holders /\ u \notin freed
  BY DEF Owned, Holders
<1>2. req[u].slot \in Slots /\ IsReq(req[u])
  BY <1>1 DEF PageBase, ReplyBase, LifeBase, SlotInv, ControlTypeOK, ReqFields, Holders, Holds
<1>3. req[u].cached \in Int /\ req[u].device \in Int /\ req[u].ids \in Seq(Tokens)
  BY <1>1 DEF PageBase, ReplyBase, CountInv, Numbers, MirrorInv, RowTypes
<1> QED BY <1>1, <1>2, <1>3

\* the slots of two owners differ, so their number is finite
LEMMA OwnedFinite == ASSUME PageBase PROVE IsFiniteSet(Owned)
<1> DEFINE f == [u \in Owned |-> req[u].slot]
<1>1. f \in [Owned -> Slots]
  BY OwnedFacts
<1>2. \A u, v \in Owned : f[u] = f[v] => u = v
  BY DEF PageBase, ReplyBase, LifeBase, SlotInv, SlotsExclusive
<1>3. f \in Injection(Owned, Slots)
  BY <1>1, <1>2 DEF Injection, IsInjective
<1>4. IsFiniteSet(Slots)
  BY FS_Interval, SchedulerAssumption DEF Slots
<1> HIDE DEF f
<1> QED BY <1>3, <1>4, FS_Injection

\* what cache_req works on: the computed part of r's tokens, its pages, and
\* how much of it is cached
LEMMA CacheReqParts ==
  ASSUME PageBase, Holding, NEW u \in Owned, NEW r,
         r.slot = req[u].slot, r.cached = req[u].cached, r.handle = req[u].handle,
         r.ids \in Seq(Tokens), Begins(r.handle, r.ids),
         NEW ids, ids = Take(r.ids, r.cached)
  PROVE  /\ SubSeq(pageRow[r.slot], 1, r.cached) = PageRow(u)
         /\ PageRow(u) \in Seq(Pages) /\ Len(PageRow(u)) = req[u].cached
         /\ ids \in Seq(Tokens) /\ Len(ids) <= req[u].cached
         /\ Begins(ids, r.ids)
         /\ Begins(req[u].handle, ids) /\ req[u].handle \in Seq(Tokens)
         /\ Path(req[u].handle) \subseteq Path(ids)
         /\ MatchLen(tree, ids) \in Len(req[u].handle) .. Len(ids)
         /\ \A k \in 1 .. Len(ids) :
              SubSeq(ids, 1, k) \in Cached(tree) <=> k <= MatchLen(tree, ids)
<1> DEFINE h == req[u].handle
           c == req[u].cached
<1>1. /\ PageRow(u) \in Seq(Pages) /\ Len(PageRow(u)) = c /\ c \in Nat
      /\ h \in Seq(Tokens) /\ Len(h) <= c /\ Begins(h, r.ids)
      /\ Path(h) \subseteq Cached(tree)
  <2>1. req[u].slot \in Slots
    BY OwnedFacts
  <2> QED BY <2>1 DEF Holding, Lists, Lengths, Handles, PageRow
<1>2. SubSeq(pageRow[r.slot], 1, r.cached) = PageRow(u)
  BY <1>1, SubSeqFull DEF PageRow
<1>3. /\ ids \in Seq(Tokens)
      /\ Len(ids) = IF c <= Len(r.ids) THEN c ELSE Len(r.ids)
      /\ \A i \in 1 .. Len(ids) : ids[i] = r.ids[i]
  <2>1. CASE c <= Len(r.ids)
    <3>1. ids = SubSeq(r.ids, 1, c)
      BY <1>1, <2>1 DEF Take
    <3> QED BY <1>1, <2>1, <3>1, FirstOf
  <2>2. CASE ~(c <= Len(r.ids))
    <3>1. ids = r.ids
      BY <1>1, <2>2, SubSeqFull DEF Take
    <3> QED BY <2>2, <3>1
  <2> QED BY <2>1, <2>2
<1>4. Len(ids) \in Nat /\ Len(h) \in Nat /\ Len(r.ids) \in Nat
  BY <1>1, <1>3
<1>5. Len(h) <= Len(ids) /\ Len(ids) <= c /\ Len(ids) <= Len(r.ids)
  BY <1>1, <1>3, <1>4 DEF Begins
<1>6. Begins(h, ids) /\ Begins(ids, r.ids)
  BY <1>1, <1>3, <1>4, <1>5 DEF Begins
<1>7. /\ Path(h) \subseteq Path(ids)
      /\ \A n \in 0 .. Len(h) : SubSeq(h, 1, n) = SubSeq(ids, 1, n)
  BY <1>1, <1>3, <1>6, BeginsPath
<1>8. /\ MatchLen(tree, ids) \in 0 .. Len(ids)
      /\ \A k \in 1 .. Len(ids) :
           SubSeq(ids, 1, k) \in Cached(tree) <=> k <= MatchLen(tree, ids)
  BY <1>3, MatchSplits DEF Holding, Shape
<1>9. Len(h) <= MatchLen(tree, ids)
  <2>1. CASE Len(h) = 0
    BY <1>8, <2>1
  <2>2. CASE Len(h) # 0
    <3>1. Len(h) \in 1 .. Len(h) /\ Len(h) \in 1 .. Len(ids) /\ Len(h) \in 0 .. Len(h)
      BY <1>4, <1>5, <2>2
    <3>2. SubSeq(h, 1, Len(h)) \in Cached(tree)
      BY <1>1, <3>1, PathFacts
    <3> QED BY <1>7, <1>8, <3>1, <3>2
  <2> QED BY <2>1, <2>2
<1> QED BY <1>1, <1>2, <1>3, <1>4, <1>5, <1>6, <1>7, <1>8, <1>9

LEMMA FreeIndicesStock ==
  ASSUME Lists, UNCHANGED <<pc, pageRow>>, NEW X \in Seq(Pages), FreeIndices(X)
  PROVE  Lists' /\ Stock' = Stock \o X
<1>1. CASE pc = "process"
  <2>1. lazyFree' = lazyFree \o X /\ freePages' = freePages
    BY <1>1 DEF FreeIndices
  <2>2. lazyFree' \in Seq(Pages)
    BY <2>1, ConcatProperties DEF Lists
  <2>3. freePages \o (lazyFree \o X) = (freePages \o lazyFree) \o X
    <3>1. ASSUME NEW s1 \in Seq(Pages), NEW s2 \in Seq(Pages), NEW s3 \in Seq(Pages)
          PROVE  s1 \o (s2 \o s3) = (s1 \o s2) \o s3
      BY ConcatAssociative
    <3>2. freePages \in Seq(Pages) /\ lazyFree \in Seq(Pages)
      BY DEF Lists
    <3> QED BY <3>1, <3>2, Zenon
  <2> QED BY <1>1, <2>1, <2>2, <2>3 DEF Lists, Stock
<1>2. CASE pc # "process"
  <2>1. freePages' = freePages \o X /\ lazyFree' = lazyFree /\ lazyFree = <<>>
    BY <1>2 DEF FreeIndices, Lists
  <2>2. freePages' \in Seq(Pages)
    BY <2>1, ConcatProperties DEF Lists
  <2>3. Stock = freePages /\ Stock' = freePages'
    BY <2>1, <2>2, ConcatEmptySeq DEF Lists, Stock
  <2> QED BY <1>2, <2>1, <2>2, <2>3 DEF Lists
<1> QED BY <1>1, <1>2

\* the pages of the tree, after an insertion
LEMMA InsertedPages ==
  ASSUME NEW t, Shape(t), NEW t2, Shape(t2), NEW ids \in Seq(Tokens),
         NEW row \in Seq(Pages), NEW m \in 0 .. Len(ids), Len(ids) <= Len(row),
         \A k \in 1 .. Len(ids) : SubSeq(ids, 1, k) \in Cached(t) <=> k <= m,
         Cached(t2) = Cached(t) \cup Path(ids),
         \A q \in Cached(t2) :
            t2.page[q] = IF q \in Cached(t) THEN t.page[q] ELSE row[Len(q)],
         IsInjective(t.page), Range(t.page) \cap Span(row, m, Len(ids)) = {},
         \A i, j \in m + 1 .. Len(ids) : row[i] = row[j] => i = j
  PROVE  /\ Range(t2.page) = Range(t.page) \cup Span(row, m, Len(ids))
         /\ IsInjective(t2.page)
<1>1. DOMAIN t2.page = Cached(t2) /\ DOMAIN t.page = Cached(t)
  BY DEF Cached
<1>2. \A k \in 1 .. Len(ids) : /\ SubSeq(ids, 1, k) \in Path(ids)
                               /\ Len(SubSeq(ids, 1, k)) = k
  BY PathFacts
<1>3. ASSUME NEW q \in Cached(t2), q \notin Cached(t)
      PROVE  /\ Len(q) \in m + 1 .. Len(ids) /\ q = SubSeq(ids, 1, Len(q))
             /\ t2.page[q] = row[Len(q)]
  <2>1. Len(q) \in 1 .. Len(ids) /\ q = SubSeq(ids, 1, Len(q))
    BY <1>3, PathFacts
  <2>2. ~(Len(q) <= m)
    BY <1>3, <2>1
  <2> QED BY <1>3, <2>1, <2>2
<1>4. ASSUME NEW k \in m + 1 .. Len(ids)
      PROVE  \E q \in Cached(t2) : t2.page[q] = row[k]
  <2>1. k \in 1 .. Len(ids) /\ ~(k <= m)
    OBVIOUS
  <2>2. SubSeq(ids, 1, k) \in Cached(t2) /\ SubSeq(ids, 1, k) \notin Cached(t)
    BY <1>2, <2>1
  <2> QED BY <1>2, <2>1, <2>2
<1>5. \A q \in Cached(t) : q \in Cached(t2) /\ t2.page[q] = t.page[q]
  OBVIOUS
<1>6. Range(t2.page) \subseteq Range(t.page) \cup Span(row, m, Len(ids))
  BY <1>1, <1>3, <1>5 DEF Range, Span
<1>7. Range(t.page) \cup Span(row, m, Len(ids)) \subseteq Range(t2.page)
  BY <1>1, <1>4, <1>5 DEF Range, Span
<1>8. /\ \A q \in Cached(t) : t.page[q] \in Range(t.page)
      /\ \A k \in m + 1 .. Len(ids) : row[k] \in Span(row, m, Len(ids))
  BY <1>1 DEF Range, Span
<1>9. IsInjective(t2.page)
  <2> SUFFICES ASSUME NEW p \in Cached(t2), NEW q \in Cached(t2),
                      t2.page[p] = t2.page[q]
               PROVE  p = q
    BY <1>1 DEF IsInjective
  <2>1. CASE p \in Cached(t) /\ q \in Cached(t)
    BY <1>1, <1>5, <2>1 DEF IsInjective
  <2>2. CASE p \in Cached(t) /\ q \notin Cached(t)
    BY <1>3, <1>5, <1>8, <2>2
  <2>3. CASE p \notin Cached(t) /\ q \in Cached(t)
    BY <1>3, <1>5, <1>8, <2>3
  <2>4. CASE p \notin Cached(t) /\ q \notin Cached(t)
    <3>1. Len(p) = Len(q)
      BY <1>3, <2>4
    <3> QED BY <1>3, <2>4, <3>1
  <2> QED BY <2>1, <2>2, <2>3, <2>4
<1> QED BY <1>6, <1>7, <1>9

\* r is the record of u, with more tokens perhaps
SameButIds(u, r) ==
  /\ IsReq(r) /\ r.slot = req[u].slot /\ r.cached = req[u].cached
  /\ r.device = req[u].device /\ r.handle = req[u].handle
  /\ r.ids \in Seq(Tokens) /\ Begins(r.handle, r.ids)

\* what cache_req does, in terms of the parts of u's row: those it frees, those
\* the tree takes, those that stay with a running request
CacheReqEffect(u, r, finished) ==
  LET ids == Take(r.ids, r.cached)
      m   == MatchLen(tree, ids)
  IN  /\ tree' = CacheTree(tree, ids, PageRow(u), req[u].handle, finished)
      /\ req' = [req EXCEPT ![u] = IF finished THEN r ELSE [r EXCEPT !.handle = ids]]
      /\ Lists'
      /\ \E X \in Seq(Pages) :
           /\ Stock' = Stock \o X
           /\ Range(X) = Span(PageRow(u), Len(req[u].handle), m)
                         \cup (IF finished THEN Span(PageRow(u), Len(ids), req[u].cached)
                                           ELSE {})
           /\ IsInjective(X)

LEMMA CacheReqDoes ==
  ASSUME PageBase, Holding, Places, NEW u \in Owned, NEW r, SameButIds(u, r),
         NEW finished \in BOOLEAN, CacheReq(u, r, finished),
         UNCHANGED <<pc, pageRow>>
  PROVE  CacheReqEffect(u, r, finished)
<1> DEFINE ids == Take(r.ids, r.cached)
           m == MatchLen(tree, ids)
<1>0. ids = Take(r.ids, r.cached) /\ m = MatchLen(tree, ids)
  OBVIOUS
<1> HIDE DEF ids, m
<1> DEFINE row == PageRow(u)
           h == req[u].handle
           c == req[u].cached
           D == SubSeq(row, Len(h) + 1, m)
           R == SubSeq(row, Len(ids) + 1, c)
           E == IF finished THEN R ELSE <<>>
           X == D \o E
<1>1. /\ SubSeq(pageRow[r.slot], 1, r.cached) = row
      /\ row \in Seq(Pages) /\ Len(row) = c
      /\ ids \in Seq(Tokens) /\ Len(ids) <= c
      /\ h \in Seq(Tokens) /\ m \in Len(h) .. Len(ids) /\ c \in Nat
  BY <1>0, CacheReqParts DEF SameButIds, Holding, Lengths
<1>2. tree' = CacheTree(tree, ids, row, h, finished)
  BY <1>1 DEF CacheReq, CacheTree, SameButIds, ids
<1>3. req' = [req EXCEPT ![u] = IF finished THEN r ELSE [r EXCEPT !.handle = ids]]
  BY DEF CacheReq, ids
<1>4. FreeIndices(X)
  BY <1>1 DEF CacheReq, Duplicates, SameButIds, ids, m
<1>5. Len(h) \in Nat /\ m \in Nat /\ Len(ids) \in Nat /\ m <= Len(row) /\ c <= Len(row)
  BY <1>1
<1>6. \A i, j \in Len(h) + 1 .. c : row[i] = row[j] => i = j
  BY DEF Places, Singly, Mine
<1> HIDE DEF row, h, c
<1>7. D \in Seq(Pages) /\ Range(D) = Span(row, Len(h), m) /\ IsInjective(D)
  <2>1. \A i \in Len(h) + 1 .. m : i \in Len(h) + 1 .. c
    BY <1>1, <1>5
  <2>2. \A i, j \in Len(h) + 1 .. m : row[i] = row[j] => i = j
    BY <1>6, <2>1
  <2>3. row \in Seq(Pages) /\ Len(h) \in Nat /\ m \in Nat /\ m <= Len(row)
    BY <1>1, <1>5
  <2>4. D \in Seq(Pages) /\ Range(D) = Span(row, Len(h), m)
    BY <2>3, PartFacts, Zenon
  <2>5. IsInjective(D)
    BY <2>2, <2>3, PartInjective, Zenon
  <2> QED BY <2>4, <2>5
<1>8. R \in Seq(Pages) /\ Range(R) = Span(row, Len(ids), c) /\ IsInjective(R)
  <2>1. \A i \in Len(ids) + 1 .. c : i \in Len(h) + 1 .. c
    BY <1>1, <1>5
  <2>2. \A i, j \in Len(ids) + 1 .. c : row[i] = row[j] => i = j
    BY <1>6, <2>1
  <2>3. row \in Seq(Pages) /\ Len(ids) \in Nat /\ c \in Nat /\ c <= Len(row)
    BY <1>1, <1>5
  <2>4. R \in Seq(Pages) /\ Range(R) = Span(row, Len(ids), c)
    BY <2>3, PartFacts, Zenon
  <2>5. IsInjective(R)
    BY <2>2, <2>3, PartInjective, Zenon
  <2> QED BY <2>4, <2>5
<1> HIDE DEF D, R
<1>9. /\ E \in Seq(Pages) /\ IsInjective(E)
      /\ Range(E) = IF finished THEN Span(row, Len(ids), c) ELSE {}
  <2>1. CASE finished
    BY <1>8, <2>1
  <2>2. CASE ~finished
    <3>1. E = <<>>
      BY <2>2
    <3> HIDE DEF E
    <3> QED BY <2>2, <3>1, RangeEmpty
  <2> QED BY <2>1, <2>2
<1> HIDE DEF E
<1>10. Range(D) \cap Range(E) = {}
  <2>1. /\ \A i \in Len(h) + 1 .. m : i \in Len(h) + 1 .. c /\ i <= Len(ids)
        /\ \A i \in Len(ids) + 1 .. c : i \in Len(h) + 1 .. c /\ ~(i <= Len(ids))
    BY <1>1, <1>5
  <2>2. Span(row, Len(h), m) \cap Span(row, Len(ids), c) = {}
    BY <1>6, <2>1 DEF Span
  <2> QED BY <1>7, <1>9, <2>2
<1>11. X \in Seq(Pages) /\ Range(X) = Range(D) \cup Range(E) /\ IsInjective(X)
  BY <1>7, <1>9, <1>10, ConcatRange
<1>12. Lists' /\ Stock' = Stock \o X
  BY <1>4, <1>11, FreeIndicesStock DEF Holding
<1> HIDE DEF X
<1>13. Range(X) = Span(row, Len(h), m) \cup (IF finished THEN Span(row, Len(ids), c) ELSE {})
  BY <1>7, <1>9, <1>11
<1> QED BY <1>2, <1>3, <1>11, <1>12, <1>13 DEF CacheReqEffect, row, h, c, ids, m

LEMMA CacheReqPages ==
  ASSUME PageBase, Holding, Places, NEW u \in Owned, NEW r, SameButIds(u, r),
         NEW finished \in BOOLEAN, CacheReq(u, r, finished),
         UNCHANGED <<pc, pageRow>>,
         Owned' = IF finished THEN Owned \ {u} ELSE Owned
  PROVE  Holding' /\ Places'
<1> DEFINE ids == Take(r.ids, r.cached)
           m == MatchLen(tree, ids)
           row == PageRow(u)
           h == req[u].handle
           c == req[u].cached
<1>1. /\ row \in Seq(Pages) /\ Len(row) = c /\ c \in Nat
      /\ ids \in Seq(Tokens) /\ Len(ids) <= c /\ Begins(ids, r.ids)
      /\ h \in Seq(Tokens) /\ m \in Len(h) .. Len(ids)
      /\ \A k \in 1 .. Len(ids) : SubSeq(ids, 1, k) \in Cached(tree) <=> k <= m
  BY CacheReqParts DEF SameButIds, Holding, Lengths
<1> HIDE DEF ids, m
<1>0. ids = Take(r.ids, r.cached) /\ m = MatchLen(tree, ids)
  BY DEF ids, m
<1>2. /\ tree' = CacheTree(tree, ids, row, h, finished)
      /\ req' = [req EXCEPT ![u] = IF finished THEN r ELSE [r EXCEPT !.handle = ids]]
      /\ Lists'
      /\ \E X \in Seq(Pages) :
           /\ Stock' = Stock \o X
           /\ Range(X) = Span(row, Len(h), m)
                         \cup (IF finished THEN Span(row, Len(ids), c) ELSE {})
           /\ IsInjective(X)
  <2>1. CacheReqEffect(u, r, finished)
    BY CacheReqDoes
  <2> QED BY <2>1 DEF CacheReqEffect, ids, m
<1>3. PICK X \in Seq(Pages) :
        /\ Stock' = Stock \o X
        /\ Range(X) = Span(row, Len(h), m)
                      \cup (IF finished THEN Span(row, Len(ids), c) ELSE {})
        /\ IsInjective(X)
  BY <1>2
<1>4. /\ Len(h) \in Nat /\ m \in Nat /\ Len(ids) \in Nat /\ Len(h) <= m /\ m <= Len(ids)
      /\ Len(ids) <= Len(row)
  BY <1>1
<1>5. Mine(u) = Len(h) + 1 .. c
  BY DEF Mine
<1>6. u \in Uids /\ DOMAIN req = Uids
  BY OwnedFacts DEF PageBase, ReplyBase, LifeBase, SlotInv, ControlTypeOK
<1>7. /\ \A v \in Uids \ {u} : req'[v] = req[v]
      /\ req'[u].slot = req[u].slot /\ req'[u].cached = c
      /\ req'[u].device = req[u].device /\ req'[u].ids = r.ids
      /\ ~finished => req'[u].handle = ids
  BY <1>2, <1>6 DEF SameButIds, IsReq, NoReq
<1>8. \A v \in Uids : PageRow(v)' = PageRow(v)
  BY <1>7 DEF PageRow
<1>9. \A v \in Owned \ {u} : v \in Uids /\ Mine(v)' = Mine(v) /\ Private(v)' = Private(v)
  <2>1. \A v \in Owned \ {u} : v \in Uids /\ Mine(v)' = Mine(v)
    BY <1>7, OwnedFacts DEF Mine
  <2> QED BY <1>8, <2>1 DEF Private
<1>10. ~finished => Mine(u)' = Len(ids) + 1 .. c /\ Private(u)' = Span(row, Len(ids), c)
  <2>1. ~finished => Mine(u)' = Len(ids) + 1 .. c
    BY <1>7 DEF Mine
  <2> QED BY <1>6, <1>8, <2>1 DEF Private, Span
<1>11. /\ Shape(tree) /\ Shape(tree')
       /\ Cached(tree') = Cached(tree) \cup Path(ids)
       /\ \A q \in Cached(tree') :
            tree'.page[q] = IF q \in Cached(tree) THEN tree.page[q] ELSE row[Len(q)]
  <2>1. Shape(tree)
    BY DEF Holding
  <2> HIDE DEF row, h, ids
  <2> QED BY <1>1, <1>2, <1>4, <2>1, CacheTreeShape
<1> HIDE DEF ids, m, row, h, c
<1>12. Holding'
  <2>1. Lengths'
    <3> SUFFICES ASSUME NEW v \in Owned'
                 PROVE  /\ req'[v].cached \in Nat /\ req'[v].cached <= req'[v].device
                        /\ Len(PageRow(v)') = req'[v].cached
                        /\ Len(req'[v].handle) <= req'[v].cached
      BY DEF Lengths
    <3>1. v \in Owned /\ v \in Uids
      BY OwnedFacts
    <3>2. CASE v # u
      BY <1>7, <1>8, <3>1, <3>2 DEF Holding, Lengths
    <3>3. CASE v = u
      <4>1. ~finished /\ c <= req[u].device
        BY <3>3 DEF Holding, Lengths, c
      <4> QED BY <1>1, <1>7, <1>8, <3>1, <3>3, <4>1 DEF row
    <3> QED BY <3>2, <3>3
  <2>2. Handles'
    <3> SUFFICES ASSUME NEW v \in Owned'
                 PROVE  /\ req'[v].handle \in Seq(Tokens)
                        /\ Begins(req'[v].handle, req'[v].ids)
                        /\ Path(req'[v].handle) \subseteq Cached(tree')
      BY DEF Handles
    <3>1. v \in Owned /\ v \in Uids
      BY OwnedFacts
    <3>2. CASE v # u
      BY <1>7, <1>11, <3>1, <3>2 DEF Holding, Handles
    <3>3. CASE v = u
      BY <1>1, <1>7, <1>11, <3>3
    <3> QED BY <3>2, <3>3
  <2> QED BY <1>2, <1>11, <2>1, <2>2 DEF Holding
<1>13. /\ \A i, j \in Mine(u) : row[i] = row[j] => i = j
       /\ Private(u) = Span(row, Len(h), m) \cup Span(row, m, Len(ids))
                       \cup Span(row, Len(ids), c)
       /\ Span(row, Len(h), m) \cap Span(row, m, Len(ids)) = {}
       /\ Span(row, Len(h), m) \cap Span(row, Len(ids), c) = {}
       /\ Span(row, m, Len(ids)) \cap Span(row, Len(ids), c) = {}
  <2>1. \A i, j \in Mine(u) : row[i] = row[j] => i = j
    BY DEF Places, Singly, row
  <2>2. /\ \A i \in Len(h) + 1 .. m : i \in Mine(u) /\ i <= m /\ i <= Len(ids)
        /\ \A i \in m + 1 .. Len(ids) : i \in Mine(u) /\ ~(i <= m) /\ i <= Len(ids)
        /\ \A i \in Len(ids) + 1 .. c : i \in Mine(u) /\ ~(i <= m) /\ ~(i <= Len(ids))
    BY <1>1, <1>4, <1>5
  <2>3. \A i \in Mine(u) : \/ i \in Len(h) + 1 .. m
                           \/ i \in m + 1 .. Len(ids)
                           \/ i \in Len(ids) + 1 .. c
    BY <1>1, <1>4, <1>5
  <2>4. Private(u) = {row[i] : i \in Mine(u)}
    BY DEF Private, row
  <2>5. Private(u) = Span(row, Len(h), m) \cup Span(row, m, Len(ids))
                     \cup Span(row, Len(ids), c)
    BY <2>2, <2>3, <2>4 DEF Span
  <2>6. /\ Span(row, Len(h), m) \cap Span(row, m, Len(ids)) = {}
        /\ Span(row, Len(h), m) \cap Span(row, Len(ids), c) = {}
        /\ Span(row, m, Len(ids)) \cap Span(row, Len(ids), c) = {}
    BY <2>1, <2>2 DEF Span
  <2> QED BY <2>1, <2>5, <2>6
<1>14. /\ Private(u) \cap (Range(Stock) \cup Range(tree.page)) = {}
       /\ Range(Stock) \cap Range(tree.page) = {}
       /\ IsInjective(Stock) /\ IsInjective(tree.page)
  BY DEF Places, Singly, Disjoint
<1>15. /\ Range(tree'.page) = Range(tree.page) \cup Span(row, m, Len(ids))
       /\ IsInjective(tree'.page)
  <2>1. Range(tree.page) \cap Span(row, m, Len(ids)) = {}
    BY <1>13, <1>14
  <2>2. \A i, j \in m + 1 .. Len(ids) : row[i] = row[j] => i = j
    <3>1. \A i \in m + 1 .. Len(ids) : i \in Mine(u)
      BY <1>1, <1>4, <1>5
    <3> QED BY <1>13, <3>1
  <2>3. m \in 0 .. Len(ids)
    BY <1>4
  <2> QED BY ZenonT(30), <1>1, <1>4, <1>11, <1>14, <2>1, <2>2, <2>3, InsertedPages
<1>16. /\ Range(Stock') = Range(Stock) \cup Range(X) /\ IsInjective(Stock')
  <2>1. Stock \in Seq(Pages)
    BY ConcatProperties DEF Holding, Lists, Stock
  <2>2. Range(Stock) \cap Range(X) = {} /\ IsInjective(X)
    BY <1>3, <1>13, <1>14
  <2> QED BY <1>3, <1>14, <2>1, <2>2, ConcatRange
<1>17. Singly'
  <2> SUFFICES ASSUME NEW v \in Owned'
               PROVE  \A i, j \in Mine(v)' : PageRow(v)'[i] = PageRow(v)'[j] => i = j
    BY <1>15, <1>16 DEF Singly
  <2>1. v \in Owned /\ v \in Uids
    BY OwnedFacts
  <2>2. CASE v # u
    BY <1>8, <1>9, <2>1, <2>2 DEF Places, Singly
  <2>3. CASE v = u
    <3>1. ~finished /\ Mine(v)' = Len(ids) + 1 .. c
      BY <1>10, <2>3
    <3>2. \A i \in Len(ids) + 1 .. c : i \in Mine(u)
      BY <1>1, <1>4, <1>5
    <3> QED BY <1>8, <1>13, <2>1, <2>3, <3>1, <3>2 DEF row
  <2> QED BY <2>2, <2>3
<1>18. \A v \in Owned \ {u} : Private(u) \cap Private(v) = {}
  BY DEF Places, Disjoint
<1>19. ~finished => Private(u)' \subseteq Private(u)
  BY <1>10, <1>13
<1>20. Disjoint'
  <2>1. Range(Stock') \cap Range(tree'.page) = {}
    BY <1>3, <1>13, <1>14, <1>15, <1>16
  <2>2. ASSUME NEW v \in Owned'
        PROVE  Private(v)' \cap (Range(Stock') \cup Range(tree'.page)) = {}
    <3>1. CASE v # u
      <4>1. /\ Private(v)' = Private(v) /\ Private(u) \cap Private(v) = {}
            /\ Private(v) \cap (Range(Stock) \cup Range(tree.page)) = {}
        BY <1>9, <1>18, <3>1 DEF Places, Disjoint
      <4> QED BY <1>3, <1>13, <1>15, <1>16, <4>1
    <3>2. CASE v = u
      <4>1. ~finished /\ Private(v)' = Span(row, Len(ids), c)
        BY <1>10, <3>2
      <4> QED BY <1>3, <1>13, <1>14, <1>15, <1>16, <4>1
    <3> QED BY <3>1, <3>2
  <2>3. ASSUME NEW v \in Owned', NEW w \in Owned', v # w
        PROVE  Private(v)' \cap Private(w)' = {}
    <3>1. v \in Owned /\ w \in Owned /\ Private(v) \cap Private(w) = {}
      BY <2>3 DEF Places, Disjoint
    <3>2. Private(v)' \subseteq Private(v) /\ Private(w)' \subseteq Private(w)
      BY <1>9, <1>19, <3>1
    <3> QED BY <3>1, <3>2
  <2> QED BY <2>1, <2>2, <2>3 DEF Disjoint
<1>21. Complete'
  <2> SUFFICES ASSUME NEW p \in Pages, p \notin Range(Stock'), p \notin Range(tree'.page)
               PROVE  \E v \in Owned' : p \in Private(v)'
    BY DEF Complete
  <2>1. \E v \in Owned : p \in Private(v)
    BY <1>15, <1>16 DEF Places, Complete
  <2>2. PICK v \in Owned : p \in Private(v)
    BY <2>1
  <2>3. CASE v # u
    BY <1>9, <2>2, <2>3
  <2>4. CASE v = u
    <3>1. p \in Span(row, Len(ids), c) /\ ~finished
      BY <1>3, <1>13, <1>15, <1>16, <2>2, <2>4
    <3> QED BY <1>10, <2>4, <3>1
  <2> QED BY <2>3, <2>4
<1> QED BY <1>12, <1>17, <1>20, <1>21 DEF Places

\* who holds a handle to q or to what lies below
Users(q) == {v \in Owned : q \in Path(req[v].handle)}

LEMMA UsersFinite ==
  ASSUME PageBase, NEW q
  PROVE  IsFiniteSet(Users(q)) /\ Cardinality(Users(q)) \in Nat
<1>1. Users(q) \in SUBSET Owned
  BY DEF Users
<1> HIDE DEF Users
<1> QED BY <1>1, OwnedFinite, FS_Subset, FS_CardinalityType

\* one more, one less
LEMMA CountOne ==
  ASSUME NEW S, IsFiniteSet(S), Cardinality(S) \in Nat, NEW x
  PROVE  /\ Cardinality(S \cup {x}) = Cardinality(S) + (IF x \in S THEN 0 ELSE 1)
         /\ Cardinality(S \ {x}) = Cardinality(S) - (IF x \in S THEN 1 ELSE 0)
<1>1. Cardinality(S \cup {x}) = IF x \in S THEN Cardinality(S) ELSE Cardinality(S) + 1
  BY FS_AddElement
<1>2. Cardinality(S \ {x}) = IF x \in S THEN Cardinality(S) - 1 ELSE Cardinality(S)
  BY FS_RemoveElement
<1> QED BY <1>1, <1>2

LEMMA CacheReqRefs ==
  ASSUME PageBase, Holding, Places, RefCountsExact, NEW u \in Owned, NEW r,
         SameButIds(u, r), NEW finished \in BOOLEAN, CacheReq(u, r, finished),
         UNCHANGED <<pc, pageRow>>,
         Owned' = IF finished THEN Owned \ {u} ELSE Owned
  PROVE  RefCountsExact'
<1> DEFINE ids == Take(r.ids, r.cached)
           h == req[u].handle
           base(q) == IF q \in Cached(tree) THEN tree.ref[q] ELSE 0
<1>1. CacheReqEffect(u, r, finished)
  BY CacheReqDoes
<1>2. /\ PageRow(u) \in Seq(Pages) /\ Len(PageRow(u)) = req[u].cached
      /\ ids \in Seq(Tokens) /\ Len(ids) <= req[u].cached
      /\ Path(h) \subseteq Path(ids)
  BY CacheReqParts DEF SameButIds
<1>3. /\ tree' = CacheTree(tree, ids, PageRow(u), h, finished)
      /\ req' = [req EXCEPT ![u] = IF finished THEN r ELSE [r EXCEPT !.handle = ids]]
  BY <1>1 DEF CacheReqEffect
<1> HIDE DEF ids, h
<1>4. /\ Cached(tree') = Cached(tree) \cup Path(ids)
      /\ \A q \in Cached(tree') :
           tree'.ref[q] = base(q) - (IF q \in Path(h) THEN 1 ELSE 0)
                          + (IF ~finished /\ q \in Path(ids) THEN 1 ELSE 0)
  <2>1. Shape(tree) /\ Len(ids) <= Len(PageRow(u))
    BY <1>2 DEF Holding
  <2> QED BY <1>2, <1>3, <2>1, CacheTreeShape
<1>5. u \in Uids /\ DOMAIN req = Uids
  BY OwnedFacts DEF PageBase, ReplyBase, LifeBase, SlotInv, ControlTypeOK
<1>6. /\ \A v \in Uids \ {u} : req'[v] = req[v]
      /\ ~finished => req'[u].handle = ids
  BY <1>3, <1>5 DEF SameButIds, IsReq, NoReq
<1> SUFFICES ASSUME NEW q \in Cached(tree')
             PROVE  tree'.ref[q] = Cardinality(Users(q)')
  BY DEF RefCountsExact, Users
<1>7. Users(q)' = IF ~finished /\ q \in Path(ids) THEN Users(q) \cup {u} ELSE Users(q) \ {u}
  <2>1. \A v \in Owned \ {u} : v \in Owned' /\ (v \in Users(q)' <=> v \in Users(q))
    BY <1>6, OwnedFacts DEF Users
  <2>2. Users(q)' \subseteq Owned /\ Users(q) \subseteq Owned
    BY DEF Users
  <2>3. u \in Users(q)' <=> ~finished /\ q \in Path(ids)
    BY <1>6 DEF Users
  <2> QED BY <2>1, <2>2, <2>3
<1>8. u \in Users(q) <=> q \in Path(h)
  BY DEF Users, h
<1>9. base(q) = Cardinality(Users(q))
  <2>1. CASE q \in Cached(tree)
    BY <2>1 DEF RefCountsExact, Users
  <2>2. CASE q \notin Cached(tree)
    <3>1. Users(q) = {}
      BY <2>2 DEF Users, Holding, Handles
    <3> QED BY <2>2, <3>1, FS_EmptySet
  <2> QED BY <2>1, <2>2
<1> HIDE DEF base
<1>10. /\ Cardinality(Users(q)) \in Nat
       /\ Cardinality(Users(q) \cup {u}) = Cardinality(Users(q)) + (IF u \in Users(q) THEN 0 ELSE 1)
       /\ Cardinality(Users(q) \ {u}) = Cardinality(Users(q)) - (IF u \in Users(q) THEN 1 ELSE 0)
  BY UsersFinite, CountOne
<1>11. tree'.ref[q] = base(q) - (IF q \in Path(h) THEN 1 ELSE 0)
                      + (IF ~finished /\ q \in Path(ids) THEN 1 ELSE 0)
  BY <1>4
<1>12. CASE ~finished /\ q \in Path(ids)
  BY <1>7, <1>8, <1>9, <1>10, <1>11, <1>12
<1>13. CASE ~(~finished /\ q \in Path(ids))
  BY <1>7, <1>8, <1>9, <1>10, <1>11, <1>13
<1> QED BY <1>12, <1>13

-----------------------------------------------------------------------------
(* The steps that leave the pages where they are.                          *)

\* u keeps its row and its handle
SamePlace(u) == /\ req'[u].slot = req[u].slot /\ req'[u].cached = req[u].cached
                /\ req'[u].handle = req[u].handle

LEMMA SamePages ==
  ASSUME PageBase, Holding, Places, RefCountsExact,
         UNCHANGED <<pageRow, tree>>, Lists', Stock' = Stock, Owned' = Owned,
         \A u \in Owned : /\ SamePlace(u) /\ req'[u].cached <= req'[u].device
                          /\ Begins(req'[u].handle, req'[u].ids)
  PROVE  Holding' /\ Places' /\ RefCountsExact'
<1>1. \A u \in Owned : /\ PageRow(u)' = PageRow(u) /\ Mine(u)' = Mine(u)
                       /\ Private(u)' = Private(u)
  <2>1. \A u \in Owned : PageRow(u)' = PageRow(u) /\ Mine(u)' = Mine(u)
    BY DEF SamePlace, PageRow, Mine
  <2> QED BY <2>1 DEF Private
<1>2. Lengths' /\ Handles'
  BY <1>1 DEF SamePlace, Holding, Lengths, Handles
<1>3. Holding'
  BY <1>2 DEF Holding
<1>4. Singly'
  BY <1>1 DEF Places, Singly
<1>5. Disjoint' /\ Complete'
  BY <1>1 DEF Places, Disjoint, Complete
<1>6. RefCountsExact'
  <2>1. \A q : Users(q)' = Users(q)
    BY DEF Users, SamePlace
  <2>2. RefCountsExact <=> \A q \in Cached(tree) : tree.ref[q] = Cardinality(Users(q))
    BY DEF RefCountsExact, Users
  <2>3. RefCountsExact' <=> \A q \in Cached(tree') : tree'.ref[q] = Cardinality(Users(q)')
    BY DEF RefCountsExact, Users
  <2> QED BY <2>1, <2>2, <2>3
<1> QED BY <1>3, <1>4, <1>5, <1>6 DEF Places

-----------------------------------------------------------------------------
(* Admission.                                                              *)

\* a chunked request is not through with its prompt
Chunks ==
  /\ \A u \in Owned : req[u].chunked => req[u].cached <= Len(Prompt[u])
  /\ pc # "filter" =>
       \A u \in Range(batch) : req[u].chunked => req[u].device < Len(Prompt[u])

LEMMA NextReqGrows ==
  ASSUME NEW u \in Uids, NEW slot, NEW cached \in Nat, NEW handle, budget \in Int,
         budget > 0, cached <= Len(Prompt[u]),
         NEW r, r = NextReq(u, slot, cached, handle)
  PROVE  /\ IsReq(r) /\ r.slot = slot /\ r.cached = cached /\ r.handle = handle
         /\ r.device \in Int /\ r.cached <= r.device /\ r.device <= Len(Prompt[u])
         /\ r.chunked => r.device < Len(Prompt[u])
         /\ r.ids = SubSeq(Prompt[u], 1, r.device)
<1> DEFINE left == Len(Prompt[u]) - cached
           chunk == IF budget < left THEN budget ELSE left
<1>1. Len(Prompt[u]) \in Nat /\ cached \in Int
  BY PromptTypes
<1>2. left \in Int /\ left >= 0 /\ cached + left = Len(Prompt[u])
  BY <1>1
<1>3. chunk \in Int /\ 0 <= chunk /\ chunk <= left
  BY <1>2
<1>4. /\ r.device = cached + chunk /\ r.chunked = (chunk < left)
      /\ r.cached = cached /\ r.handle = handle
      /\ r.ids = SubSeq(Prompt[u], 1, cached + chunk)
  BY DEF NextReq
<1>5. IsReq(r) /\ r.slot = slot
  BY NextReqIsReq
<1> HIDE DEF left, chunk
<1>6. r.chunked => chunk < left
  BY <1>4
<1> QED BY <1>1, <1>2, <1>3, <1>4, <1>5, <1>6

\* the request at the head of the waiting list is not freed
LEMMA HeadWaits ==
  ASSUME PageBase, pending # <<>>, NEW u, u = Head(pending)
  PROVE  /\ u \in Uids /\ u \in Waiting /\ u \notin freed /\ u \notin Gone
         /\ Holds(u) => u \in Owned /\ req[u].chunked
<1>1. pending \in Seq(Uids)
  BY DEF PageBase, ReplyBase, LifeBase, SlotInv, ControlTypeOK
<1>2. u \in Uids /\ u \in Range(pending)
  BY <1>1, HeadTail
<1>3. u \in Waiting
  BY <1>2 DEF Waiting
<1>4. u \notin Gone /\ u \notin freed
  BY <1>3 DEF PageBase, ReplyBase, LifeBase, LifeInv, Farewell
<1>5. Holds(u) => req[u].chunked
  BY <1>3 DEF PageBase, ReplyBase, LifeBase, LifeInv, Apart
<1> QED BY <1>2, <1>3, <1>4, <1>5 DEF Owned

LEMMA AdmitChunkPages ==
  ASSUME PageBase, Holding, Places, RefCountsExact, Chunks, AdmitChunk
  PROVE  Holding' /\ Places' /\ RefCountsExact'
<1> DEFINE u == Head(pending)
           r == NextReq(u, req[u].slot, req[u].cached, req[u].handle)
<1>1. /\ pending # <<>> /\ budget > 0 /\ Holds(u) /\ Add(u, r)
      /\ UNCHANGED <<freeSlots, pageRow, tree>>
  BY DEF AdmitChunk
<1>2. u \in Uids /\ u \in Owned /\ req[u].chunked
  BY <1>1, HeadWaits
<1>3. budget \in Int
  BY DEF PageBase, ReplyBase, CountInv, Numbers
<1>4. /\ req[u].cached \in Nat /\ req[u].cached <= Len(Prompt[u])
      /\ req[u].handle \in Seq(Tokens) /\ Len(req[u].handle) <= req[u].cached
      /\ Begins(req[u].handle, req[u].ids)
  BY <1>2 DEF Holding, Lengths, Handles, Chunks
<1> HIDE DEF u
<1>5. /\ IsReq(r) /\ r.slot = req[u].slot /\ r.cached = req[u].cached
      /\ r.handle = req[u].handle /\ r.device \in Int /\ r.cached <= r.device
      /\ r.device <= Len(Prompt[u]) /\ r.ids = SubSeq(Prompt[u], 1, r.device)
  BY <1>1, <1>2, <1>3, <1>4, NextReqGrows
<1> HIDE DEF r
<1>6. /\ req' = [req EXCEPT ![u] = r]
      /\ UNCHANGED <<pc, freed, freePages, lazyFree>>
  BY <1>1 DEF Add, deferVars
<1>7. DOMAIN req = Uids
  BY DEF PageBase, ReplyBase, LifeBase, SlotInv, ControlTypeOK
<1>8. /\ \A v \in Uids \ {u} : req'[v] = req[v]
      /\ req'[u] = r
  BY <1>2, <1>6, <1>7
<1>9. Owned' = Owned
  BY <1>5, <1>6, <1>8 DEF Owned, Holds
<1>10. Lists' /\ Stock' = Stock
  BY <1>1, <1>6 DEF Holding, Lists, Stock
<1>11. Begins(r.handle, r.ids)
  <2>1. Len(Prompt[u]) \in Nat /\ Prompt[u] \in Seq(Tokens) /\ Len(req[u].handle) \in Nat
    BY <1>2, <1>4, PromptTypes
  <2>2. \A i \in 1 .. Len(Prompt[u]) : Text(u)[i] = Prompt[u][i]
    BY <1>2, TextTypes DEF PageBase
  <2>3. Begins(req[u].ids, Text(u))
    BY <1>2 DEF PageBase, MirrorInv, Mirrors
  <2>4. Len(req[u].ids) \in Nat
    BY <1>2, OwnedFacts
  <2>5. \A i \in 1 .. Len(req[u].handle) : req[u].handle[i] = Prompt[u][i]
    <3> TAKE i \in 1 .. Len(req[u].handle)
    <3>1. i \in 1 .. Len(req[u].ids) /\ i \in 1 .. Len(Prompt[u])
      BY <1>4, <2>1, <2>4 DEF Begins
    <3> QED BY <1>4, <2>2, <2>3, <3>1 DEF Begins
  <2>6. Len(r.ids) = r.device /\ \A i \in 1 .. r.device : r.ids[i] = Prompt[u][i]
    BY <1>4, <1>5, <2>1
  <2>7. Len(req[u].handle) <= r.device /\ \A i \in 1 .. Len(req[u].handle) : i \in 1 .. r.device
    BY <1>4, <1>5, <2>1
  <2> QED BY <1>5, <2>5, <2>6, <2>7 DEF Begins
<1>12. \A v \in Owned : /\ SamePlace(v) /\ req'[v].cached <= req'[v].device
                        /\ Begins(req'[v].handle, req'[v].ids)
  <2> TAKE v \in Owned
  <2>1. CASE v = u
    BY <1>5, <1>8, <1>11, <2>1 DEF SamePlace
  <2>2. CASE v # u
    BY <1>8, <2>2, OwnedFacts DEF SamePlace, Holding, Lengths, Handles
  <2> QED BY <2>1, <2>2
<1> QED BY <1>1, <1>9, <1>10, <1>12, SamePages

\* match_prefix: what it matched is cached
LEMMA MatchedIsCached ==
  ASSUME Shape(tree), NEW u \in Uids
  PROVE  Matched(u) \in Seq(Tokens) /\ Path(Matched(u)) \subseteq Cached(tree)
<1> DEFINE n == Len(Prompt[u])
           ids == SubSeq(Prompt[u], 1, n - 1)
           m == MatchLen(tree, ids)
           h == SubSeq(ids, 1, m)
<1>1. ids \in Seq(Tokens)
  BY PromptTypes
<1>2. h = Matched(u)
  BY DEF Matched
<1> HIDE DEF n, ids
<1>3. m \in 0 .. Len(ids) /\ \A k \in 1 .. Len(ids) : SubSeq(ids, 1, k) \in Cached(tree) <=> k <= m
  BY <1>1, MatchSplits DEF Shape
<1> HIDE DEF m
<1>4. /\ h \in Seq(Tokens) /\ Len(h) = m /\ \A i \in 1 .. m : h[i] = ids[i]
  BY <1>1, <1>3
<1> HIDE DEF h
<1>5. Begins(h, ids)
  BY <1>1, <1>3, <1>4 DEF Begins
<1>6. \A k \in 0 .. m : SubSeq(h, 1, k) = SubSeq(ids, 1, k)
  BY <1>1, <1>4, <1>5, BeginsPath
<1>7. ASSUME NEW q \in Path(h) PROVE q \in Cached(tree)
  <2>1. Len(q) \in 1 .. m /\ q = SubSeq(h, 1, Len(q))
    BY <1>4, PathFacts
  <2>2. Len(q) \in 0 .. m /\ Len(q) \in 1 .. Len(ids) /\ Len(q) <= m
    BY <1>3, <2>1
  <2>3. q = SubSeq(ids, 1, Len(q))
    BY <1>6, <2>1, <2>2
  <2> QED BY <1>3, <2>2, <2>3
<1> QED BY <1>2, <1>4, <1>7

\* the slots of two owners differ
LEMMA SlotsDiffer ==
  ASSUME PageBase, NEW u \in Owned, NEW v \in Owned, u # v
  PROVE  req[u].slot # req[v].slot
BY DEF PageBase, ReplyBase, LifeBase, SlotInv, SlotsExclusive

LEMMA PagesOfFacts ==
  ASSUME NEW t, Shape(t), NEW h \in Seq(Tokens), Path(h) \subseteq Cached(t)
  PROVE  PagesOf(t, h) \in Seq(Pages) /\ Len(PagesOf(t, h)) = Len(h)
<1>1. \A i \in 1 .. Len(h) : t.page[SubSeq(h, 1, i)] \in Pages
  BY PathFacts DEF Shape
<1>2. Len(h) \in Nat
  OBVIOUS
<1>3. PagesOf(t, h) \in [1 .. Len(h) -> Pages]
  BY <1>1 DEF PagesOf
<1> QED BY <1>2, <1>3

LEMMA AdmitNewPages ==
  ASSUME PageBase, PageBase', Holding, Places, RefCountsExact, AdmitNew,
         NEW u, u = Head(pending)
  PROVE  Holding' /\ Places' /\ RefCountsExact'
<1> DEFINE h == Matched(u)
           slot == BackSlot
           r == NextReq(u, slot, Len(h), h)
<1>1. /\ pending # <<>> /\ budget > 0 /\ ~Holds(u) /\ freeSlots # <<>>
      /\ Add(u, r)
      /\ tree' = Lock(tree, h)
      /\ pageRow' = [pageRow EXCEPT ![slot] = PagesOf(tree, h)]
  BY DEF AdmitNew, Admissible
<1>2. u \in Uids /\ u \notin freed
  BY <1>1, HeadWaits
<1>3. slot \in Slots
  <2>1. freeSlots \in Seq(Slots)
    BY DEF PageBase, ReplyBase, LifeBase, SlotInv, ControlTypeOK
  <2> QED BY <1>1, <2>1 DEF BackSlot
<1>4. budget \in Int
  BY DEF PageBase, ReplyBase, CountInv, Numbers
<1> HIDE DEF slot
<1>5. /\ h \in Seq(Tokens) /\ Path(h) \subseteq Cached(tree)
      /\ Len(h) \in Nat /\ Len(h) < Len(Prompt[u]) /\ h = SubSeq(Prompt[u], 1, Len(h))
  BY <1>2, MatchedIsCached, MatchedLen DEF Holding
<1> HIDE DEF h
<1>6. Len(Prompt[u]) \in Nat /\ Prompt[u] \in Seq(Tokens)
  BY <1>2, PromptTypes
<1>7. /\ IsReq(r) /\ r.slot = slot /\ r.cached = Len(h) /\ r.handle = h
      /\ r.device \in Int /\ Len(h) <= r.device /\ r.device <= Len(Prompt[u])
      /\ r.ids = SubSeq(Prompt[u], 1, r.device)
  BY <1>1, <1>2, <1>4, <1>5, <1>6, NextReqGrows
<1> HIDE DEF r
<1>8. /\ req' = [req EXCEPT ![u] = r]
      /\ UNCHANGED <<pc, freed, freePages, lazyFree>>
  BY <1>1 DEF Add, deferVars
<1>9. DOMAIN req = Uids /\ slot # NoSlot
  BY <1>3, SchedulerAssumption
     DEF PageBase, ReplyBase, LifeBase, SlotInv, ControlTypeOK, Slots, NoSlot
<1>10. /\ \A v \in Uids \ {u} : req'[v] = req[v]
       /\ req'[u] = r
  BY <1>2, <1>8, <1>9
<1>11. u \notin Owned /\ Owned' = Owned \cup {u}
  BY <1>1, <1>2, <1>7, <1>8, <1>9, <1>10 DEF Owned, Holds
<1>12. \A v \in Owned : v \in Uids /\ v # u /\ req'[v] = req[v]
  BY <1>10, <1>11 DEF Owned
<1>13. \A v \in Owned : req[v].slot # slot /\ req[v].slot \in Slots
  <2>1. \A v \in Owned : req'[v].slot # req'[u].slot
    BY <1>11, <1>12, SlotsDiffer DEF PageBase, ReplyBase, LifeBase, SlotInv, SlotsExclusive
  <2> QED BY <1>7, <1>10, <1>12, <2>1, OwnedFacts
<1>14. PagesOf(tree, h) \in Seq(Pages) /\ Len(PagesOf(tree, h)) = Len(h)
  BY <1>5, PagesOfFacts DEF Holding
<1>15. Lists' /\ Stock' = Stock
  <2>1. pageRow' \in [Slots -> Seq(Pages)]
    BY <1>1, <1>14 DEF Holding, Lists
  <2> QED BY <1>8, <2>1 DEF Holding, Lists, Stock
<1>16. /\ \A v \in Owned : /\ PageRow(v)' = PageRow(v) /\ Mine(v)' = Mine(v)
                           /\ Private(v)' = Private(v)
       /\ PageRow(u)' = PagesOf(tree, h) /\ Mine(u)' = {} /\ Private(u)' = {}
  <2>1. \A v \in Owned : PageRow(v)' = PageRow(v)
    BY <1>1, <1>12, <1>13 DEF PageRow, Holding, Lists
  <2>2. \A v \in Owned : Mine(v)' = Mine(v)
    BY <1>12 DEF Mine
  <2>3. PageRow(u)' = PagesOf(tree, h)
    BY <1>1, <1>3, <1>7, <1>10 DEF PageRow, Holding, Lists
  <2>4. Mine(u)' = {}
    BY <1>5, <1>7, <1>10 DEF Mine
  <2> QED BY <2>1, <2>2, <2>3, <2>4 DEF Private
<1>17. /\ Shape(tree') /\ Cached(tree') = Cached(tree) /\ tree'.page = tree.page
       /\ \A q \in Cached(tree) :
            tree'.ref[q] = IF q \in Path(h) THEN tree.ref[q] + 1 ELSE tree.ref[q]
  <2>1. Shape(tree) /\ tree' = Shift(tree, h, 1)
    BY <1>1 DEF Holding, Lock
  <2> QED BY <2>1, ShiftShape
<1>18. Begins(r.handle, r.ids)
  <2>1. Len(r.ids) = r.device /\ \A i \in 1 .. r.device : r.ids[i] = Prompt[u][i]
    BY <1>5, <1>6, <1>7
  <2>2. \A i \in 1 .. Len(h) : h[i] = Prompt[u][i] /\ i \in 1 .. r.device
    BY <1>5, <1>6, <1>7
  <2> QED BY <1>7, <2>1, <2>2 DEF Begins
<1>19. Holding'
  <2>1. Lengths'
    <3> SUFFICES ASSUME NEW v \in Owned'
                 PROVE  /\ req'[v].cached \in Nat /\ req'[v].cached <= req'[v].device
                        /\ Len(PageRow(v)') = req'[v].cached
                        /\ Len(req'[v].handle) <= req'[v].cached
      BY DEF Lengths
    <3>1. CASE v = u
      BY <1>5, <1>7, <1>10, <1>14, <1>16, <3>1
    <3>2. CASE v \in Owned
      BY <1>12, <1>16, <3>2 DEF Holding, Lengths
    <3> QED BY <1>11, <3>1, <3>2
  <2>2. Handles'
    <3> SUFFICES ASSUME NEW v \in Owned'
                 PROVE  /\ req'[v].handle \in Seq(Tokens)
                        /\ Begins(req'[v].handle, req'[v].ids)
                        /\ Path(req'[v].handle) \subseteq Cached(tree')
      BY DEF Handles
    <3>1. CASE v = u
      BY <1>5, <1>7, <1>10, <1>17, <1>18, <3>1
    <3>2. CASE v \in Owned
      BY <1>12, <1>17, <3>2 DEF Holding, Handles
    <3> QED BY <1>11, <3>1, <3>2
  <2> QED BY <1>15, <1>17, <2>1, <2>2 DEF Holding
<1>20. Singly'
  BY <1>11, <1>15, <1>16, <1>17 DEF Places, Singly
<1>21. Disjoint'
  BY <1>11, <1>15, <1>16, <1>17 DEF Places, Disjoint
<1>22. Complete'
  BY <1>11, <1>15, <1>16, <1>17 DEF Places, Complete
<1>23. ASSUME NEW q \in Cached(tree') PROVE tree'.ref[q] = Cardinality(Users(q)')
  <2>1. tree.ref[q] = Cardinality(Users(q)) /\ u \notin Users(q)
    BY <1>11, <1>17, <1>23 DEF RefCountsExact, Users
  <2>2. Users(q)' = IF q \in Path(h) THEN Users(q) \cup {u} ELSE Users(q)
    <3>1. \A v \in Owned : v \in Users(q)' <=> v \in Users(q)
      BY <1>11, <1>12 DEF Users
    <3>2. u \in Users(q)' <=> q \in Path(h)
      BY <1>7, <1>10, <1>11 DEF Users
    <3>3. Users(q)' \subseteq Owned \cup {u} /\ Users(q) \subseteq Owned
      BY <1>11 DEF Users
    <3> QED BY <1>11, <3>1, <3>2, <3>3
  <2>3. IsFiniteSet(Users(q)) /\ Cardinality(Users(q)) \in Nat
    BY UsersFinite
  <2>4. Cardinality(Users(q) \cup {u}) = Cardinality(Users(q)) + 1
    BY <2>1, <2>3, CountOne
  <2> QED BY <1>17, <2>1, <2>2, <2>4
<1>24. RefCountsExact'
  BY <1>23 DEF RefCountsExact, Users
<1> QED BY <1>19, <1>20, <1>21, <1>22, <1>24 DEF Places


-----------------------------------------------------------------------------
(* Reclaiming and launching.                                               *)

\* what evict leaves
LEMMA EvictShape ==
  ASSUME NEW t, Shape(t), NEW E, E \subseteq Cached(t), ClosedBelow(t, E),
         IsInjective(t.page), NEW t2, t2 = Evict(t, E)
  PROVE  /\ Shape(t2) /\ Cached(t2) = Cached(t) \ E /\ IsInjective(t2.page)
         /\ \A q \in Cached(t2) : t2.page[q] = t.page[q] /\ t2.ref[q] = t.ref[q]
         /\ Range(t2.page) = Range(t.page) \ {t.page[q] : q \in E}
<1> DEFINE C == Cached(t) \ E
           F == [q \in C |-> t.page[q]]
           G == [q \in C |-> t.ref[q]]
<1>1. t2 = [page |-> F, ref |-> G]
  BY DEF Evict
<1>2. Closed(C)
  BY DEF Shape, Closed, ClosedBelow
<1>3. IsFiniteSet(C)
  BY FS_Subset DEF Shape
<1>4. F \in [C -> Pages] /\ G \in [C -> Int]
  BY DEF Shape
<1>5. \A q \in C : F[q] = t.page[q] /\ G[q] = t.ref[q]
  OBVIOUS
<1> HIDE DEF F, G
<1>6. DOMAIN t2 = {"page", "ref"} /\ t2.page = F /\ t2.ref = G
  BY <1>1
<1>7. Cached(t2) = C
  BY <1>4, <1>6 DEF Cached
<1>8. Shape(t2)
  BY <1>2, <1>3, <1>4, <1>6, <1>7 DEF Shape
<1>9. DOMAIN t.page = Cached(t) /\ DOMAIN F = C
  BY <1>4 DEF Cached
<1>10. IsInjective(F)
  BY <1>5, <1>9 DEF IsInjective
<1>11. Range(F) = Range(t.page) \ {t.page[q] : q \in E}
  <2>1. ASSUME NEW q \in C PROVE t.page[q] \notin {t.page[p] : p \in E}
    BY <1>9 DEF IsInjective
  <2>2. \A q \in Cached(t) : q \in C \/ q \in E
    OBVIOUS
  <2>3. Range(F) = {t.page[q] : q \in C}
    BY <1>5, <1>9 DEF Range
  <2>4. Range(t.page) = {t.page[q] : q \in Cached(t)}
    BY <1>9 DEF Range
  <2> QED BY <2>1, <2>2, <2>3, <2>4
<1> QED BY <1>5, <1>6, <1>7, <1>8, <1>10, <1>11

LEMMA ReclaimPages ==
  ASSUME PageBase, Holding, Places, RefCountsExact, Reclaim
  PROVE  Holding' /\ Places' /\ RefCountsExact'
<1>1. /\ pc = "reclaim" /\ pc' = "launch"
      /\ UNCHANGED <<freed, req, pageRow, lazyFree>>
      /\ \/ UNCHANGED <<tree, freePages>>
         \/ \E E \in EvictionSets(tree, Needed - Len(freePages)) :
              /\ tree' = Evict(tree, E)
              /\ freePages' = freePages \o SetToSeq({tree.page[q] : q \in E})
  BY DEF Reclaim, deferVars, tableVars
<1>2. lazyFree = <<>> /\ freePages \in Seq(Pages)
  BY <1>1 DEF Holding, Lists
<1>3. Stock = freePages
  BY <1>2, ConcatEmptySeq DEF Stock
<1>4. Owned' = Owned
  BY <1>1 DEF Owned, Holds
<1>5. CASE UNCHANGED <<tree, freePages>>
  <2>1. Lists' /\ Stock' = Stock
    BY <1>1, <1>2, <1>5 DEF Holding, Lists, Stock
  <2>2. \A u \in Owned : /\ SamePlace(u) /\ req'[u].cached <= req'[u].device
                         /\ Begins(req'[u].handle, req'[u].ids)
    BY <1>1 DEF SamePlace, Holding, Lengths, Handles
  <2> QED BY <1>1, <1>4, <1>5, <2>1, <2>2, SamePages
<1>6. ASSUME NEW E \in EvictionSets(tree, Needed - Len(freePages)),
             tree' = Evict(tree, E),
             freePages' = freePages \o SetToSeq({tree.page[q] : q \in E})
      PROVE  Holding' /\ Places' /\ RefCountsExact'
  <2> DEFINE S == {tree.page[q] : q \in E}
             X == SetToSeq(S)
  <2>1. /\ E \subseteq Cached(tree) /\ ClosedBelow(tree, E)
        /\ \A q \in E : tree.ref[q] = 0
    BY DEF EvictionSets, Evictable
  <2>2. Shape(tree) /\ IsInjective(tree.page)
    BY DEF Holding, Places, Singly
  <2>3. /\ Shape(tree') /\ Cached(tree') = Cached(tree) \ E /\ IsInjective(tree'.page)
        /\ \A q \in Cached(tree') : tree'.page[q] = tree.page[q] /\ tree'.ref[q] = tree.ref[q]
        /\ Range(tree'.page) = Range(tree.page) \ S
    <3>1. ASSUME NEW t2, t2 = Evict(tree, E)
          PROVE  /\ Shape(t2) /\ Cached(t2) = Cached(tree) \ E /\ IsInjective(t2.page)
                 /\ \A q \in Cached(t2) : t2.page[q] = tree.page[q] /\ t2.ref[q] = tree.ref[q]
                 /\ Range(t2.page) = Range(tree.page) \ {tree.page[q] : q \in E}
      BY <2>1, <2>2, <3>1, EvictShape
    <3> QED BY <1>6, <3>1
  <2>4. S \subseteq Pages /\ S \subseteq Range(tree.page)
    BY <2>1, <2>2 DEF Shape, Range, Cached
  <2>5. IsFiniteSet(S)
    <3>1. Pages = 1 .. NumPages /\ NumPages \in Int
      BY SchedulerAssumption DEF Pages
    <3>2. IsFiniteSet(Pages)
      BY <3>1, FS_Interval
    <3> QED BY <2>4, <3>2, FS_Subset
  <2> HIDE DEF S
  <2>6. X \in Seq(S) /\ Range(X) = S /\ IsInjective(X)
    BY <2>5, SetToSeqFacts
  <2>7. freePages' = freePages \o X
    BY <1>6 DEF S
  <2> HIDE DEF X
  <2>8. X \in Seq(Pages)
    BY <2>4, <2>6
  <2>9. freePages' \in Seq(Pages) /\ lazyFree' = <<>>
    BY <1>1, <1>2, <2>7, <2>8, ConcatProperties
  <2>10. Stock' = Stock \o X
    <3>1. Stock' = freePages'
      BY <2>9, ConcatEmptySeq DEF Stock
    <3> QED BY <1>3, <2>7, <3>1
  <2>11. Range(Stock') = Range(Stock) \cup S /\ IsInjective(Stock')
    <3>1. IsInjective(Stock) /\ Range(Stock) \cap Range(X) = {}
      BY <2>4, <2>6 DEF Places, Singly, Disjoint
    <3> QED BY <1>2, <1>3, <2>6, <2>8, <2>10, <3>1, ConcatRange
  <2>12. \A u \in Owned : Path(req[u].handle) \cap E = {}
    <3> SUFFICES ASSUME NEW u \in Owned, NEW q \in E, q \in Path(req[u].handle)
                 PROVE  FALSE
      OBVIOUS
    <3>1. Cardinality(Users(q)) = 0
      BY <2>1 DEF RefCountsExact, Users
    <3>2. Users(q) = {}
      BY <3>1, UsersFinite, FS_EmptySet
    <3> QED BY <3>2 DEF Users
  <2>13. \A u \in Owned : /\ PageRow(u)' = PageRow(u) /\ Mine(u)' = Mine(u)
                          /\ Private(u)' = Private(u)
    <3>1. \A u \in Owned : PageRow(u)' = PageRow(u) /\ Mine(u)' = Mine(u)
      BY <1>1 DEF PageRow, Mine
    <3> QED BY <3>1 DEF Private
  <2>14. Holding'
    <3>1. Lists'
      BY <1>1, <2>9 DEF Holding, Lists
    <3>2. Lengths'
      BY <1>1, <1>4, <2>13 DEF Holding, Lengths
    <3>3. Handles'
      BY <1>1, <1>4, <2>3, <2>12 DEF Holding, Handles
    <3> QED BY <2>3, <3>1, <3>2, <3>3 DEF Holding
  <2>15. Singly'
    BY <1>4, <2>3, <2>11, <2>13 DEF Places, Singly
  <2>16. Disjoint'
    BY <1>4, <2>3, <2>4, <2>11, <2>13 DEF Places, Disjoint
  <2>17. Complete'
    BY <1>4, <2>3, <2>11, <2>13 DEF Places, Complete
  <2>18. RefCountsExact'
    <3>1. \A q : Users(q)' = Users(q)
      BY <1>1, <1>4 DEF Users
    <3>2. RefCountsExact <=> \A q \in Cached(tree) : tree.ref[q] = Cardinality(Users(q))
      BY DEF RefCountsExact, Users
    <3>3. RefCountsExact' <=> \A q \in Cached(tree') : tree'.ref[q] = Cardinality(Users(q)')
      BY DEF RefCountsExact, Users
    <3> QED BY <2>3, <3>1, <3>2, <3>3
  <2> QED BY <2>14, <2>15, <2>16, <2>17, <2>18 DEF Places
<1> QED BY <1>1, <1>5, <1>6


\* the first request of the batch is not freed
LEMMA LaunchOwns ==
  ASSUME PageBase, LaunchOne, NEW u, u = Head(batch)
  PROVE  /\ u \in Owned /\ u \notin Gone /\ pc = "launch"
         /\ u \in Range(batch) /\ IsReq(req[u])
         /\ req' = [req EXCEPT ![u] = CompleteOne(req[u])]
         /\ UNCHANGED <<pc, freed, lazyFree, tree>>
<1>1. /\ u \in Holders /\ u \in Uids
      /\ Range(batch) = {u} \cup Range(batch')
      /\ req' = [req EXCEPT ![u] = CompleteOne(req[u])] /\ pc = "launch"
      /\ UNCHANGED <<pc, freed>>
  BY LaunchMoves DEF PageBase, ReplyBase, LifeBase
<1>2. u \notin Gone
  BY <1>1 DEF PageBase, ReplyBase, LifeBase, LifeInv, Farewell
<1>3. u \in Owned
  BY <1>1, <1>2, OwnedHolds DEF PageBase
<1>4. UNCHANGED <<lazyFree, tree>>
  BY DEF LaunchOne
<1> QED BY <1>1, <1>2, <1>3, <1>4, OwnedFacts

\* the pages of u's new row: its old ones, then the first free ones
LaunchesRow(u, c, d) ==
  /\ c \in Nat /\ d \in Nat /\ c <= d /\ d - c <= Len(freePages)
  /\ freePages \in Seq(Pages)
  /\ freePages' = SubSeq(freePages, d - c + 1, Len(freePages))
  /\ PageRow(u)' \in Seq(Pages) /\ Len(PageRow(u)') = d
  /\ \A i \in 1 .. d : PageRow(u)'[i] = IF i <= c THEN PageRow(u)[i]
                                        ELSE freePages[i - c]
  /\ pageRow' = [pageRow EXCEPT ![req[u].slot] = PageRow(u)']
  /\ req'[u].slot = req[u].slot /\ req'[u].handle = req[u].handle
  /\ req'[u].cached = d /\ req'[u].ids = req[u].ids
  /\ req'[u].device \in Int /\ d <= req'[u].device

LEMMA LaunchRow ==
  ASSUME PageBase, Holding, LaunchOne, NEW u, u = Head(batch)
  PROVE  LaunchesRow(u, req[u].cached, req[u].device)
<1> DEFINE c == req[u].cached
           d == req[u].device
<1>0. c = req[u].cached /\ d = req[u].device
  OBVIOUS
<1> HIDE DEF c, d
<1> DEFINE ext == d - c
           row == PageRow(u) \o SubSeq(freePages, 1, ext)
<1>1. /\ u \in Owned /\ u \in Uids /\ IsReq(req[u]) /\ req[u].slot \in Slots
      /\ req' = [req EXCEPT ![u] = CompleteOne(req[u])]
  BY LaunchOwns, OwnedFacts
<1>2. /\ c \in Nat /\ d \in Int /\ c <= d /\ Len(PageRow(u)) = c
      /\ PageRow(u) \in Seq(Pages) /\ freePages \in Seq(Pages)
      /\ pageRow \in [Slots -> Seq(Pages)]
  BY <1>0, <1>1, OwnedFacts DEF Holding, Lengths, Lists, PageRow
<1>3. d \in Nat /\ ext \in Nat
  BY <1>2
<1>4. /\ ext <= Len(freePages)
      /\ freePages' = SubSeq(freePages, ext + 1, Len(freePages))
      /\ pageRow' = [pageRow EXCEPT ![req[u].slot] =
                       SubSeq(pageRow[req[u].slot], 1, req[u].cached)
                         \o SubSeq(freePages, 1, ext)]
  BY <1>0 DEF LaunchOne, ExtendLen
<1>5. SubSeq(pageRow[req[u].slot], 1, req[u].cached) = PageRow(u)
  BY <1>0, <1>2, SubSeqFull DEF PageRow
<1>6. pageRow' = [pageRow EXCEPT ![req[u].slot] = row]
  BY <1>4, <1>5
<1>7. /\ req'[u].slot = req[u].slot /\ req'[u].handle = req[u].handle
      /\ req'[u].cached = d /\ req'[u].ids = req[u].ids
      /\ req'[u].device = IF d < req[u].max THEN d + 1 ELSE d
  <2>1. req'[u] = CompleteOne(req[u])
    BY <1>1 DEF PageBase, ReplyBase, LifeBase, SlotInv, ControlTypeOK
  <2>2. CompleteOne(req[u]).handle = req[u].handle
    BY <1>1 DEF CompleteOne, IsReq, NoReq
  <2> QED BY <1>0, <1>1, <2>1, <2>2, CompleteOneKeeps
<1>8. PageRow(u)' = row
  BY <1>1, <1>2, <1>6, <1>7 DEF PageRow
<1> HIDE DEF ext
<1>9. /\ row \in Seq(Pages) /\ Len(row) = c + ext
      /\ \A i \in 1 .. c + ext : row[i] = IF i <= c THEN PageRow(u)[i]
                                          ELSE freePages[i - c]
  <2> DEFINE A == SubSeq(freePages, 1, ext)
  <2>1. /\ A \in Seq(Pages) /\ Len(A) = ext /\ \A i \in 1 .. ext : A[i] = freePages[i]
    BY <1>2, <1>3, <1>4
  <2> HIDE DEF A
  <2>2. /\ PageRow(u) \o A \in Seq(Pages)
        /\ Len(PageRow(u) \o A) = c + ext
        /\ \A i \in 1 .. c + ext : (PageRow(u) \o A)[i] = IF i <= c THEN PageRow(u)[i]
                                                          ELSE A[i - c]
    <3>1. ASSUME NEW s \in Seq(Pages), Len(s) = c
          PROVE  /\ s \o A \in Seq(Pages) /\ Len(s \o A) = c + ext
                 /\ \A i \in 1 .. c + ext : (s \o A)[i] = IF i <= c THEN s[i] ELSE A[i - c]
      <4>1. /\ s \o A \in Seq(Pages) /\ Len(s \o A) = Len(s) + Len(A)
            /\ \A i \in 1 .. Len(s) + Len(A) :
                 (s \o A)[i] = IF i <= Len(s) THEN s[i] ELSE A[i - Len(s)]
        BY <2>1, ConcatProperties, Zenon
      <4> QED BY <2>1, <3>1, <4>1
    <3>2. PageRow(u) \in Seq(Pages) /\ Len(PageRow(u)) = c
      BY <1>2
    <3> QED BY <3>1, <3>2, Zenon
  <2>3. \A i \in 1 .. c + ext : ~(i <= c) => i - c \in 1 .. ext
    BY <1>2, <1>3
  <2> QED BY <2>1, <2>2, <2>3 DEF A
<1> HIDE DEF row
<1>10. c + ext = d
  BY <1>2 DEF ext
<1>11. ext = d - c
  BY DEF ext
<1>12. req'[u].device \in Int /\ d <= req'[u].device
  BY <1>2, <1>7
<1>13. /\ PageRow(u)' \in Seq(Pages) /\ Len(PageRow(u)') = d
       /\ \A i \in 1 .. d : PageRow(u)'[i] = IF i <= c THEN PageRow(u)[i]
                                             ELSE freePages[i - c]
       /\ pageRow' = [pageRow EXCEPT ![req[u].slot] = PageRow(u)']
  BY <1>6, <1>8, <1>9, <1>10
<1>14. /\ freePages' = SubSeq(freePages, d - c + 1, Len(freePages))
       /\ d - c <= Len(freePages)
  BY <1>4, <1>11
<1>15. LaunchesRow(u, c, d)
  BY <1>2, <1>3, <1>7, <1>12, <1>13, <1>14 DEF LaunchesRow
<1> QED BY <1>0, <1>15

LEMMA LaunchPages ==
  ASSUME PageBase, Holding, Places, RefCountsExact, LaunchOne, NEW u, u = Head(batch)
  PROVE  Holding' /\ Places' /\ RefCountsExact'
<1> DEFINE c == req[u].cached
           d == req[u].device
           h == req[u].handle
           A == Span(freePages, 0, d - c)
           B == Span(freePages, d - c, Len(freePages))
<1>1. /\ u \in Owned /\ u \in Uids /\ pc = "launch"
      /\ req' = [req EXCEPT ![u] = CompleteOne(req[u])]
      /\ UNCHANGED <<pc, freed, lazyFree, tree>>
  BY LaunchOwns, OwnedFacts
<1>2. /\ c \in Nat /\ d \in Nat /\ c <= d /\ d - c <= Len(freePages)
      /\ freePages \in Seq(Pages)
      /\ freePages' = SubSeq(freePages, d - c + 1, Len(freePages))
      /\ PageRow(u)' \in Seq(Pages) /\ Len(PageRow(u)') = d
      /\ \A i \in 1 .. d : PageRow(u)'[i] = IF i <= c THEN PageRow(u)[i]
                                            ELSE freePages[i - c]
      /\ pageRow' = [pageRow EXCEPT ![req[u].slot] = PageRow(u)']
      /\ req'[u].slot = req[u].slot /\ req'[u].handle = h
      /\ req'[u].cached = d /\ req'[u].ids = req[u].ids
      /\ req'[u].device \in Int /\ d <= req'[u].device
  <2>1. LaunchesRow(u, c, d)
    BY LaunchRow
  <2> QED BY <2>1 DEF LaunchesRow
<1>3. /\ h \in Seq(Tokens) /\ Len(h) \in Nat /\ Len(h) <= c
      /\ Begins(h, req[u].ids) /\ Path(h) \subseteq Cached(tree)
  BY <1>1 DEF Holding, Lengths, Handles
<1>4. DOMAIN req = Uids
  BY DEF PageBase, ReplyBase, LifeBase, SlotInv, ControlTypeOK
<1>5. \A v \in Uids \ {u} : req'[v] = req[v]
  BY <1>1, <1>4
<1>6. Owned' = Owned
  BY <1>1, <1>2, <1>5 DEF Owned, Holds
<1>7. Mine(u) = Len(h) + 1 .. c /\ Mine(u)' = Len(h) + 1 .. d
  BY <1>2 DEF Mine
<1> HIDE DEF c, d, h
<1>8. \A v \in Owned : v # u =>
         /\ v \in Uids /\ req'[v] = req[v]
         /\ PageRow(v)' = PageRow(v) /\ Mine(v)' = Mine(v) /\ Private(v)' = Private(v)
  <2>1. \A v \in Owned : v # u => v \in Uids /\ req'[v] = req[v]
    BY <1>5, OwnedFacts
  <2>2. \A v \in Owned : v # u => req[v].slot # req[u].slot /\ req[v].slot \in Slots
    BY <1>1, SlotsDiffer, OwnedFacts
  <2>3. \A v \in Owned : v # u => PageRow(v)' = PageRow(v)
    BY <1>2, <2>1, <2>2 DEF PageRow, Holding, Lists
  <2>4. \A v \in Owned : v # u => Mine(v)' = Mine(v)
    BY <2>1 DEF Mine
  <2> QED BY <2>1, <2>3, <2>4 DEF Private
<1>9. lazyFree = <<>> /\ lazyFree' = <<>>
  BY <1>1 DEF Holding, Lists
<1>10. Stock = freePages
  BY <1>2, <1>9, ConcatEmptySeq DEF Stock
<1>11. d - c \in Nat /\ Len(freePages) \in Nat
  BY <1>2
<1>12. /\ freePages' \in Seq(Pages) /\ Range(freePages') = B
  <2>1. /\ SubSeq(freePages, d - c + 1, Len(freePages)) \in Seq(Pages)
        /\ Range(SubSeq(freePages, d - c + 1, Len(freePages)))
             = Span(freePages, d - c, Len(freePages))
    <3>1. ASSUME NEW a \in Nat, NEW s \in Seq(Pages)
          PROVE  /\ SubSeq(s, a + 1, Len(s)) \in Seq(Pages)
                 /\ Range(SubSeq(s, a + 1, Len(s))) = Span(s, a, Len(s))
      BY PartFacts
    <3> QED BY <1>2, <1>11, <3>1, Zenon
  <2> QED BY <1>2, <2>1
<1>13. Stock' = freePages'
  BY <1>9, <1>12, ConcatEmptySeq DEF Stock
<1>14. \A i, j \in 1 .. Len(freePages) : freePages[i] = freePages[j] => i = j
  BY <1>2, <1>10 DEF Places, Singly, IsInjective
<1>15. IsInjective(Stock')
  <2>1. \A i, j \in d - c + 1 .. Len(freePages) : freePages[i] = freePages[j] => i = j
    BY <1>11, <1>14
  <2>2. Len(freePages) <= Len(freePages)
    BY <1>11
  <2>3. IsInjective(SubSeq(freePages, d - c + 1, Len(freePages)))
    BY <1>2, <1>11, <2>1, <2>2, PartInjective, Zenon
  <2> QED BY <1>2, <1>13, <2>3
<1>16. Range(Stock) = A \cup B /\ A \cap B = {}
  <2>1. /\ \A i \in 1 .. Len(freePages) : i \in 0 + 1 .. d - c \/ i \in d - c + 1 .. Len(freePages)
        /\ \A i \in 0 + 1 .. d - c : i \in 1 .. Len(freePages) /\ i <= d - c
        /\ \A i \in d - c + 1 .. Len(freePages) : i \in 1 .. Len(freePages) /\ ~(i <= d - c)
    BY <1>2, <1>11
  <2>2. Range(Stock) = {freePages[i] : i \in 1 .. Len(freePages)}
    BY <1>2, <1>10 DEF Range
  <2>3. Range(Stock) = A \cup B
    BY <2>1, <2>2 DEF Span
  <2>4. A \cap B = {}
    BY <1>14, <2>1 DEF Span
  <2> QED BY <2>3, <2>4
<1>17. Private(u)' = Private(u) \cup A
  <2>1. /\ \A i \in Mine(u) : i \in Mine(u)' /\ i \in 1 .. d /\ i <= c
        /\ \A i \in 0 + 1 .. d - c : /\ i + c \in Mine(u)' /\ i + c \in 1 .. d
                                     /\ ~(i + c <= c) /\ (i + c) - c = i
        /\ \A i \in Mine(u)' : /\ i \in 1 .. d
                               /\ i <= c => i \in Mine(u)
                               /\ ~(i <= c) => i - c \in 0 + 1 .. d - c
    BY <1>2, <1>3, <1>7
  <2>2. \A i \in Mine(u) : PageRow(u)'[i] = PageRow(u)[i]
    BY <1>2, <2>1
  <2>3. \A i \in 0 + 1 .. d - c : PageRow(u)'[i + c] = freePages[i]
    BY <1>2, <2>1
  <2>4. \A i \in Mine(u)' : \/ i \in Mine(u)
                            \/ i - c \in 0 + 1 .. d - c /\ PageRow(u)'[i] = freePages[i - c]
    BY <1>2, <2>1
  <2>5. Private(u)' \subseteq Private(u) \cup A
    BY <2>2, <2>4 DEF Private, Span
  <2>6. Private(u) \cup A \subseteq Private(u)'
    BY <2>1, <2>2, <2>3 DEF Private, Span
  <2> QED BY <2>5, <2>6
<1>18. \A i, j \in Mine(u)' : PageRow(u)'[i] = PageRow(u)'[j] => i = j
  <2> SUFFICES ASSUME NEW i \in Mine(u)', NEW j \in Mine(u)',
                      PageRow(u)'[i] = PageRow(u)'[j]
               PROVE  i = j
    OBVIOUS
  <2>1. ASSUME NEW k \in Mine(u)'
        PROVE  /\ k \in Int
               /\ k <= c => /\ k \in Mine(u) /\ PageRow(u)'[k] = PageRow(u)[k]
                            /\ PageRow(u)'[k] \in Private(u)
               /\ ~(k <= c) => /\ k - c \in 1 .. Len(freePages)
                               /\ PageRow(u)'[k] = freePages[k - c]
                               /\ PageRow(u)'[k] \in Range(Stock)
    <3>1. k \in Int /\ k \in 1 .. d /\ (k <= c => k \in Mine(u))
          /\ (~(k <= c) => k - c \in 1 .. Len(freePages))
      BY SMTT(30), <1>2, <1>3, <1>7
    <3>2. \A n \in 1 .. Len(freePages) : freePages[n] \in Range(Stock)
      BY <1>2, <1>10 DEF Range
    <3> QED BY <1>2, <3>1, <3>2 DEF Private
  <2>2. Private(u) \cap Range(Stock) = {}
    BY <1>1 DEF Places, Disjoint
  <2>3. CASE i <= c /\ j <= c
    BY <1>1, <2>1, <2>3 DEF Places, Singly
  <2>4. CASE ~(i <= c) /\ ~(j <= c)
    <3>1. i - c = j - c
      BY <1>14, <2>1, <2>4
    <3> QED BY <1>2, <2>1, <3>1
  <2>5. CASE i <= c /\ ~(j <= c)
    BY <2>1, <2>2, <2>5
  <2>6. CASE ~(i <= c) /\ j <= c
    BY <2>1, <2>2, <2>6
  <2> QED BY <2>3, <2>4, <2>5, <2>6
<1> HIDE DEF A, B
<1>19. Holding'
  <2>1. Lists'
    BY <1>1, <1>2, <1>9, <1>12, OwnedFacts DEF Holding, Lists
  <2>2. Lengths'
    <3> SUFFICES ASSUME NEW v \in Owned
                 PROVE  /\ req'[v].cached \in Nat /\ req'[v].cached <= req'[v].device
                        /\ Len(PageRow(v)') = req'[v].cached
                        /\ Len(req'[v].handle) <= req'[v].cached
      BY <1>6 DEF Lengths
    <3>1. CASE v = u
      BY <1>2, <1>3, <3>1
    <3>2. CASE v # u
      BY <1>8, <3>2 DEF Holding, Lengths
    <3> QED BY <3>1, <3>2
  <2>3. Handles'
    <3> SUFFICES ASSUME NEW v \in Owned
                 PROVE  /\ req'[v].handle \in Seq(Tokens)
                        /\ Begins(req'[v].handle, req'[v].ids)
                        /\ Path(req'[v].handle) \subseteq Cached(tree)
      BY <1>1, <1>6 DEF Handles
    <3>1. CASE v = u
      BY <1>2, <1>3, <3>1
    <3>2. CASE v # u
      BY <1>8, <3>2 DEF Holding, Handles
    <3> QED BY <3>1, <3>2
  <2> QED BY <1>1, <2>1, <2>2, <2>3 DEF Holding
<1>20. Singly'
  <2>1. \A v \in Owned : \A i, j \in Mine(v)' : PageRow(v)'[i] = PageRow(v)'[j] => i = j
    <3> TAKE v \in Owned
    <3>1. CASE v = u
      BY <1>18, <3>1
    <3>2. CASE v # u
      BY <1>8, <3>2 DEF Places, Singly
    <3> QED BY <3>1, <3>2
  <2> QED BY <1>1, <1>6, <1>15, <2>1 DEF Places, Singly
<1>21. /\ Range(Stock') = B /\ Private(u)' = Private(u) \cup A
       /\ A \cap B = {} /\ Range(Stock) = A \cup B
  BY <1>12, <1>13, <1>16, <1>17
<1>22. Disjoint'
  <2>1. ASSUME NEW v \in Owned
        PROVE  Private(v)' \cap (Range(Stock') \cup Range(tree.page)) = {}
    <3>1. CASE v = u
      BY <1>21, <3>1 DEF Places, Disjoint
    <3>2. CASE v # u
      BY <1>8, <1>21, <3>2 DEF Places, Disjoint
    <3> QED BY <3>1, <3>2
  <2>2. ASSUME NEW v \in Owned, v # u
        PROVE  Private(v)' \cap Private(u)' = {}
    <3>1. Private(v)' = Private(v) /\ Private(v) \cap Private(u) = {}
          /\ Private(v) \cap Range(Stock) = {}
      BY <1>1, <1>8, <2>2 DEF Places, Disjoint
    <3> QED BY <1>21, <3>1
  <2>3. ASSUME NEW v \in Owned, NEW w \in Owned, v # w
        PROVE  Private(v)' \cap Private(w)' = {}
    <3>1. CASE v # u /\ w # u
      <4>1. Private(v)' = Private(v) /\ Private(w)' = Private(w)
        BY <1>8, <3>1
      <4> QED BY <2>3, <4>1 DEF Places, Disjoint
    <3>2. CASE v = u
      BY <2>2, <2>3, <3>2
    <3>3. CASE w = u
      BY <2>2, <2>3, <3>3
    <3> QED BY <3>1, <3>2, <3>3
  <2>4. Range(Stock') \cap Range(tree.page) = {}
    BY <1>21 DEF Places, Disjoint
  <2> QED BY <1>1, <1>6, <2>1, <2>3, <2>4 DEF Disjoint
<1>23. Complete'
  <2> SUFFICES ASSUME NEW p \in Pages, p \notin Range(Stock'), p \notin Range(tree.page)
               PROVE  \E v \in Owned : p \in Private(v)'
    BY <1>1, <1>6 DEF Complete
  <2>1. p \in A \/ \E v \in Owned : p \in Private(v)
    BY <1>21 DEF Places, Complete
  <2> QED BY <1>1, <1>8, <1>21, <2>1
<1>24. RefCountsExact'
  <2>1. \A q : Users(q)' = Users(q)
    <3>1. \A v \in Owned : req'[v].handle = req[v].handle
      BY <1>2, <1>8 DEF h
    <3> QED BY <1>6, <3>1 DEF Users
  <2>2. RefCountsExact <=> \A q \in Cached(tree) : tree.ref[q] = Cardinality(Users(q))
    BY DEF RefCountsExact, Users
  <2>3. RefCountsExact' <=> \A q \in Cached(tree') : tree'.ref[q] = Cardinality(Users(q)')
    BY DEF RefCountsExact, Users
  <2> QED BY <1>1, <2>1, <2>2, <2>3
<1> QED BY <1>19, <1>20, <1>22, <1>23, <1>24 DEF Places


-----------------------------------------------------------------------------
(* Chunked requests.                                                       *)

LEMMA SameChunked ==
  ASSUME Chunks, Owned' \subseteq Owned,
         \A u \in Owned : /\ req'[u].chunked = req[u].chunked
                          /\ req'[u].cached = req[u].cached,
         \/ batch' = <<>> \/ pc' = "filter"
         \/ pc # "filter" /\ UNCHANGED <<batch, req>>
  PROVE  Chunks'
<1>1. \A u \in Owned' : req'[u].chunked => req'[u].cached <= Len(Prompt[u])
  BY DEF Chunks
<1>2. pc' # "filter" =>
        \A u \in Range(batch') : req'[u].chunked => req'[u].device < Len(Prompt[u])
  BY RangeEmpty DEF Chunks
<1> QED BY <1>1, <1>2 DEF Chunks

LEMMA PassChunks ==
  ASSUME PageBase, Chunks,
         \/ BeginAdmission \/ Reclaim \/ EndStep \/ UNCHANGED vars
         \/ SchedulePrefill \/ BeginStep \/ EndLaunch
         \/ BeginFilter \/ FilterOne \/ SkipChunk
  PROVE  Chunks'
<1> USE DEF queueVars, batchVars, deferVars, tableVars, clientVars
<1>1. UNCHANGED <<req, freed>>
  BY DEF BeginAdmission, Reclaim, EndStep, vars, SchedulePrefill, BeginFilter,
         FilterOne, SkipChunk, BeginStep, EndLaunch
<1>2. Owned' = Owned
  BY <1>1 DEF Owned, Holds
<1>3. CASE UNCHANGED vars
  BY <1>1, <1>3 DEF vars, Chunks, Owned, Holds
<1>4. CASE ~UNCHANGED vars
  <2>1. \/ batch' = <<>> \/ pc' = "filter"
        \/ pc # "filter" /\ UNCHANGED batch
    BY <1>4 DEF BeginAdmission, Reclaim, EndStep, SchedulePrefill, BeginFilter,
                FilterOne, SkipChunk, Process, BeginStep, EndLaunch
  <2> QED BY <1>1, <1>2, <2>1, SameChunked
<1> QED BY <1>3, <1>4

LEMMA DecodeChunks ==
  ASSUME PageBase, Chunks, ScheduleBurst \/ ScheduleDecode  PROVE Chunks'
<1>1. UNCHANGED <<req, freed, running>>
  BY DEF ScheduleBurst, ScheduleDecode, DecodeBatch, queueVars, deferVars
<1>2. Owned' = Owned
  BY <1>1 DEF Owned, Holds
<1>3. batch' = running \/ (pc # "filter" /\ batch' = batch)
  BY DEF ScheduleBurst, ScheduleDecode, DecodeBatch
<1>4. \A u \in Range(running) : ~req[u].chunked
  BY DEF PageBase, ReplyBase, LifeBase, LifeInv, Apart
<1>5. \A u \in Range(batch') : req[u].chunked => req[u].device < Len(Prompt[u])
  BY <1>3, <1>4 DEF Chunks
<1> QED BY <1>1, <1>2, <1>5 DEF Chunks

\* a step that hands a record on while no batch is made
LEMMA HandedChunks ==
  ASSUME Chunks, batch' = <<>>, NEW u \in Uids, NEW r, Becomes(u, r), r.slot = req[u].slot,
         r.chunked = req[u].chunked, r.cached = req[u].cached, freed \subseteq freed'
  PROVE  Chunks'
<1>1. \A v \in Uids : /\ req'[v].slot = req[v].slot /\ req'[v].chunked = req[v].chunked
                      /\ req'[v].cached = req[v].cached
  BY DEF Becomes
<1>2. Owned' \subseteq Owned /\ Owned \subseteq Uids
  BY <1>1 DEF Owned, Holds
<1> QED BY <1>1, <1>2, SameChunked

LEMMA AdmitChunks ==
  ASSUME PageBase, Holding, Chunks, AdmitChunk \/ AdmitNew, NEW u, u = Head(pending)
  PROVE  Chunks'
<1>1. pc = "admit" /\ pending # <<>> /\ budget > 0
  BY DEF AdmitChunk, AdmitNew
<1>2. /\ u \in Uids /\ u \in Waiting /\ u \notin freed
      /\ Holds(u) => u \in Owned /\ req[u].chunked
  BY <1>1, HeadWaits
<1>3. budget \in Int /\ DOMAIN req = Uids /\ batch \in Seq(Uids)
  BY DEF PageBase, ReplyBase, CountInv, Numbers, LifeBase, SlotInv, ControlTypeOK
<1>4. \E slot, handle : \E cached \in Nat :
        cached <= Len(Prompt[u]) /\ Add(u, NextReq(u, slot, cached, handle))
  <2>1. CASE AdmitChunk
    <3>1. Holds(u) /\ Add(u, NextReq(u, req[u].slot, req[u].cached, req[u].handle))
      BY <2>1 DEF AdmitChunk
    <3>2. req[u].cached \in Nat /\ req[u].cached <= Len(Prompt[u])
      BY <1>2, <3>1 DEF Holding, Lengths, Chunks
    <3> QED BY <3>1, <3>2
  <2>2. CASE AdmitNew
    <3>1. Add(u, NextReq(u, BackSlot, Len(Matched(u)), Matched(u)))
      BY <2>2 DEF AdmitNew
    <3>2. Len(Matched(u)) \in Nat /\ Len(Matched(u)) < Len(Prompt[u])
          /\ Len(Prompt[u]) \in Nat
      <4>1. Matched(u) \in Seq(Tokens)
        BY <1>2, MatchedIsCached DEF Holding
      <4> QED BY <1>2, <4>1, MatchedLen, PromptTypes
    <3>3. Len(Matched(u)) <= Len(Prompt[u])
      BY <3>2
    <3> QED BY <3>1, <3>2, <3>3
  <2> QED BY <2>1, <2>2
<1>5. PICK slot, handle : \E cached \in Nat :
        cached <= Len(Prompt[u]) /\ Add(u, NextReq(u, slot, cached, handle))
  BY <1>4
<1>6. PICK cached \in Nat :
        cached <= Len(Prompt[u]) /\ Add(u, NextReq(u, slot, cached, handle))
  BY <1>5
<1> DEFINE r == NextReq(u, slot, cached, handle)
<1>7. /\ r.cached = cached /\ r.cached <= Len(Prompt[u])
      /\ r.chunked => r.device < Len(Prompt[u])
  BY <1>1, <1>2, <1>3, <1>6, NextReqGrows
<1>8. /\ req' = [req EXCEPT ![u] = r] /\ batch' = Append(batch, u)
      /\ UNCHANGED <<pc, freed>>
  BY <1>6 DEF Add, deferVars
<1> HIDE DEF r
<1>9. /\ \A v \in Uids \ {u} : req'[v] = req[v]
      /\ req'[u] = r
  BY <1>2, <1>3, <1>8
<1>10. \A v \in Owned' : v = u \/ v \in Owned
  BY <1>8, <1>9 DEF Owned, Holds
<1>11. Range(batch') = Range(batch) \cup {u} /\ Range(batch) \subseteq Uids
  BY <1>2, <1>3, <1>8, RangeAppend, RangeIn
<1>12. \A v \in Owned' : req'[v].chunked => req'[v].cached <= Len(Prompt[v])
  <2>1. \A v \in Owned : v \in Uids
    BY OwnedFacts
  <2> QED BY <1>7, <1>9, <1>10, <2>1 DEF Chunks
<1>13. \A v \in Range(batch') : req'[v].chunked => req'[v].device < Len(Prompt[v])
  BY <1>1, <1>7, <1>9, <1>11 DEF Chunks
<1> QED BY <1>12, <1>13 DEF Chunks

LEMMA LaunchChunks ==
  ASSUME PageBase, Holding, Chunks, LaunchOne, NEW u, u = Head(batch)
  PROVE  Chunks'
<1>1. /\ u \in Owned /\ u \in Uids /\ u \in Range(batch) /\ pc = "launch" /\ IsReq(req[u])
      /\ req' = [req EXCEPT ![u] = CompleteOne(req[u])]
      /\ UNCHANGED <<pc, freed>>
  BY LaunchOwns, OwnedFacts
<1>2. /\ u \notin Range(batch') /\ Range(batch) = {u} \cup Range(batch')
      /\ Range(batch) \subseteq Uids
  <2>1. u \notin Range(batch') /\ Range(batch) = {u} \cup Range(batch')
    BY LaunchMoves DEF PageBase, ReplyBase, LifeBase
  <2>2. batch \in Seq(Uids)
    BY DEF PageBase, ReplyBase, LifeBase, SlotInv, ControlTypeOK
  <2> QED BY <2>1, <2>2, RangeIn
<1>3. DOMAIN req = Uids
  BY DEF PageBase, ReplyBase, LifeBase, SlotInv, ControlTypeOK
<1>4. /\ \A v \in Uids \ {u} : req'[v] = req[v]
      /\ req'[u].slot = req[u].slot /\ req'[u].chunked = req[u].chunked
      /\ req'[u].cached = req[u].device
  BY <1>1, <1>3, CompleteOneKeeps
<1>5. Owned' = Owned /\ Owned \subseteq Uids
  BY <1>1, <1>4 DEF Owned, Holds
<1>6. req[u].device \in Int /\ Len(Prompt[u]) \in Int
  BY <1>1, OwnedFacts, PromptTypes
<1>7. \A v \in Owned' : req'[v].chunked => req'[v].cached <= Len(Prompt[v])
  <2>1. req[u].chunked => req[u].device <= Len(Prompt[u])
    BY <1>1, <1>6 DEF Chunks
  <2> QED BY <1>4, <1>5, <2>1 DEF Chunks
<1>8. \A v \in Range(batch') : req'[v].chunked => req'[v].device < Len(Prompt[v])
  BY <1>1, <1>2, <1>4 DEF Chunks
<1> QED BY <1>7, <1>8 DEF Chunks


-----------------------------------------------------------------------------
(* What is put off.                                                        *)

\* those a deferred action will cache
Caching == {a.uid : a \in {a \in Range(deferredActions) : ~a.finished}}

\* a request whose caching is put off still owns its pages, nothing else of it
\* is under way, and its freeing is not put off as well
Put ==
  /\ Caching \cap Freeing = {} /\ Caching \subseteq Owned
  /\ Caching \cap (UidsIn(flight) \cup UidsIn(prev)) = {}
  /\ ~Overlap => deferredActions = <<>>

\* without overlap, or with no abort in the two states that AbortHazard names
Safe == ~Overlap \/ ~AbortAnyTime

PageInv == Holding /\ Places /\ RefCountsExact /\ Chunks /\ Put

LEMMA DeferredList ==
  ASSUME PageBase
  PROVE  /\ deferredActions \in Seq([uid : Uids, finished : BOOLEAN])
         /\ DOMAIN req = Uids /\ SlotInv /\ LifeInv /\ Replies /\ ControlTypeOK
BY DEF PageBase, ReplyBase, LifeBase, SlotInv, ControlTypeOK

LEMMA DeferredCaching ==
  ASSUME PageBase, NEW u \in Uids, NEW finished \in BOOLEAN, NEW r, Defer(u, r, finished)
  PROVE  /\ Caching' = IF finished THEN Caching ELSE Caching \cup {u}
         /\ Freeing' = IF finished THEN Freeing \cup {u} ELSE Freeing
<1> DEFINE a == [uid |-> u, finished |-> finished]
           A == [uid : Uids, finished : BOOLEAN]
<1>1. /\ a \in A /\ deferredActions \in Seq(A) /\ a.uid = u /\ a.finished = finished
      /\ deferredActions' = Append(deferredActions, a)
  BY DeferredList DEF Defer
<1>2. Freeing' = IF finished THEN Freeing \cup {u} ELSE Freeing
  BY <1>1, DeferredAppend
<1> HIDE DEF a, A
<1>3. Range(deferredActions') = Range(deferredActions) \cup {a}
  BY <1>1, RangeAppend
<1> QED BY <1>1, <1>2, <1>3 DEF Caching

LEMMA SamePut ==
  ASSUME Put, Owned \subseteq Owned', UNCHANGED deferredActions,
         UidsIn(flight') \cup UidsIn(prev') \subseteq UidsIn(flight) \cup UidsIn(prev)
  PROVE  Put'
<1>1. Caching' = Caching /\ Freeing' = Freeing
  BY DEF Caching, Freeing
<1> QED BY <1>1 DEF Put

-----------------------------------------------------------------------------
(* The steps that do nothing with the cache.                               *)

LEMMA PlainPages ==
  ASSUME PageBase, Holding, Places, RefCountsExact, Owned' = Owned,
         UNCHANGED <<req, pageRow, tree, freePages, lazyFree>>,
         pc' = "process" \/ pc # "process"
  PROVE  Holding' /\ Places' /\ RefCountsExact'
<1>1. Lists' /\ Stock' = Stock
  BY DEF Holding, Lists, Stock
<1>2. \A u \in Owned : /\ SamePlace(u) /\ req'[u].cached <= req'[u].device
                       /\ Begins(req'[u].handle, req'[u].ids)
  BY DEF SamePlace, Holding, Lengths, Handles
<1> QED BY <1>1, <1>2, SamePages

\* at the end of a step the pages freed lazily join the free ones
LEMMA EndStepPages ==
  ASSUME PageBase, Holding, Places, RefCountsExact, EndStep
  PROVE  Holding' /\ Places' /\ RefCountsExact'
<1>1. /\ freePages' = freePages \o lazyFree /\ lazyFree' = <<>>
      /\ UNCHANGED <<req, freed, pageRow, tree>>
  BY DEF EndStep, deferVars, tableVars
<1>2. freePages' \in Seq(Pages)
  BY <1>1, ConcatProperties DEF Holding, Lists
<1>3. Stock' = freePages'
  BY <1>1, <1>2, ConcatEmptySeq DEF Stock
<1>4. Lists' /\ Stock' = Stock
  <2>1. lazyFree' \in Seq(Pages)
    BY <1>1
  <2> QED BY <1>1, <1>2, <1>3, <2>1 DEF Holding, Lists, Stock
<1>5. Owned' = Owned
  BY <1>1 DEF Owned, Holds
<1>6. \A u \in Owned : /\ SamePlace(u) /\ req'[u].cached <= req'[u].device
                       /\ Begins(req'[u].handle, req'[u].ids)
  BY <1>1 DEF SamePlace, Holding, Lengths, Handles
<1> QED BY <1>1, <1>4, <1>5, <1>6, SamePages

\* a step that is none of those that give, take or cache pages
LEMMA QuietPages ==
  ASSUME PageBase, PageInv,
         \/ BeginAdmission \/ UNCHANGED vars \/ ScheduleBurst \/ ScheduleDecode
         \/ SchedulePrefill \/ BeginStep \/ EndLaunch \/ BeginFilter \/ FilterOne
         \/ SkipChunk
  PROVE  PageInv'
<1> USE DEF queueVars, batchVars, deferVars, tableVars, cacheVars, clientVars
<1>1. UNCHANGED <<req, freed, deferredActions, pageRow, tree, freePages, lazyFree>>
  BY DEF BeginAdmission, vars, ScheduleBurst, ScheduleDecode, SchedulePrefill,
         DecodeBatch, BeginStep, EndLaunch, BeginFilter, FilterOne, SkipChunk
<1>2. Owned' = Owned
  BY <1>1 DEF Owned, Holds
<1>3. pc' = "process" \/ pc # "process"
  BY DEF BeginAdmission, vars, ScheduleBurst, ScheduleDecode, SchedulePrefill,
         DecodeBatch, BeginStep, EndLaunch, BeginFilter, FilterOne, SkipChunk, Process
<1>4. Holding' /\ Places' /\ RefCountsExact'
  BY <1>1, <1>2, <1>3, PlainPages DEF PageInv
<1>5. Chunks'
  BY PassChunks, DecodeChunks DEF PageInv
<1>6. Put'
  <2>1. CASE EndLaunch
    <3>1. deferredActions = <<>>
      BY <2>1, DeferredList DEF EndLaunch, LifeInv, Phases
    <3>2. Caching' = {} /\ Freeing' = {}
      BY <1>1, <3>1, RangeEmpty DEF Caching, Freeing
    <3> QED BY <1>1, <3>1, <3>2 DEF Put
  <2>2. CASE ~EndLaunch
    <3>1. CASE SkipChunk
      <4>1. UidsIn(prev) = {Current.uid} \cup UidsIn(prev') /\ UNCHANGED flight
        BY <3>1, DeferredList, ProcessMoves DEF SkipChunk
      <4> QED BY <1>1, <1>2, <4>1, SamePut DEF PageInv
    <3>2. CASE BeginStep
      <4>1. prev' = flight /\ flight' = <<>>
        BY <3>2 DEF BeginStep
      <4> QED BY <1>1, <1>2, <4>1, SamePut, EntriesEmpty DEF PageInv
    <3>3. CASE ~SkipChunk /\ ~BeginStep
      <4>1. UNCHANGED <<flight, prev>>
        BY <2>2, <3>3 DEF BeginAdmission, vars, ScheduleBurst, ScheduleDecode,
           SchedulePrefill, DecodeBatch, BeginFilter, FilterOne
      <4> QED BY <1>1, <1>2, <4>1, SamePut DEF PageInv
    <3> QED BY <3>1, <3>2, <3>3
  <2> QED BY <2>1, <2>2
<1> QED BY <1>4, <1>5, <1>6 DEF PageInv

LEMMA SubmitPages ==
  ASSUME PageBase, PageInv, NEW u \in Uids, Submit(u)  PROVE PageInv'
<1>1. /\ u \notin submitted /\ freed' = freed \ {u} /\ pc = "idle" /\ pc' = pc
      /\ UNCHANGED <<req, deferredActions, pageRow, tree, freePages, lazyFree,
                     flight, prev, batch>>
  BY DEF Submit, batchVars, tableVars, cacheVars
<1>2. ~Holds(u)
  BY <1>1 DEF PageBase, ReplyBase, LifeBase, SlotInv, AllSubmitted, Holders
<1>3. Owned' = Owned
  BY <1>1, <1>2 DEF Owned, Holds
<1>4. Holding' /\ Places' /\ RefCountsExact'
  BY <1>1, <1>3, PlainPages DEF PageInv
<1>5. Chunks'
  BY <1>1, <1>3 DEF PageInv, Chunks
<1>6. Put'
  BY <1>1, <1>3, SamePut DEF PageInv
<1> QED BY <1>4, <1>5, <1>6 DEF PageInv

\* the steps that make and launch a batch
LEMMA BatchPages ==
  ASSUME PageBase, PageBase', PageInv,
         AdmitChunk \/ AdmitNew \/ Reclaim \/ LaunchOne \/ EndStep
  PROVE  PageInv'
<1>1. Holding' /\ Places' /\ RefCountsExact'
  BY AdmitChunkPages, AdmitNewPages, ReclaimPages, LaunchPages, EndStepPages DEF PageInv
<1>2. Chunks'
  BY PassChunks, AdmitChunks, LaunchChunks DEF PageInv
<1>3. /\ UNCHANGED <<deferredActions, flight, prev, freed>>
  BY DEF AdmitChunk, AdmitNew, Add, Reclaim, LaunchOne, EndStep, deferVars
<1>4. Owned \subseteq Owned'
  <2> SUFFICES ASSUME NEW v \in Uids, Holds(v)  PROVE req'[v].slot # NoSlot
    BY <1>3 DEF Owned, Holds
  <2>1. CASE AdmitChunk \/ AdmitNew
    <3> DEFINE u == Head(pending)
    <3>1. PICK r : Admits(u, r)
      BY <2>1, AdmitMakes DEF PageBase, ReplyBase
    <3>2. req' = [req EXCEPT ![u] = r] /\ r.slot # NoSlot
      BY <3>1 DEF Admits, Add
    <3> HIDE DEF u
    <3> QED BY <3>2, DeferredList DEF Holds
  <2>2. CASE LaunchOne
    <3> DEFINE u == Head(batch)
    <3>1. IsReq(req[u]) /\ req' = [req EXCEPT ![u] = CompleteOne(req[u])]
      BY <2>2, LaunchOwns
    <3> HIDE DEF u
    <3>2. CompleteOne(req[u]).slot = req[u].slot
      BY <3>1, CompleteOneKeeps
    <3> QED BY <3>1, <3>2, DeferredList DEF Holds
  <2>3. CASE Reclaim \/ EndStep
    BY <2>3 DEF Reclaim, EndStep, Holds
  <2> QED BY <2>1, <2>2, <2>3
<1>5. Put'
  BY <1>3, <1>4, SamePut DEF PageInv
<1> QED BY <1>1, <1>2, <1>5 DEF PageInv


-----------------------------------------------------------------------------
(* The steps that cache or free a request.                                 *)

\* all of PageInv but what is said of the batch and of the deferred actions
CacheInv == Holding /\ Places /\ RefCountsExact

LEMMA OwnRecord ==
  ASSUME PageBase, Holding, NEW u \in Owned  PROVE SameButIds(u, req[u])
BY OwnedFacts DEF SameButIds, Holding, Handles

\* a new record, and nothing else
LEMMA UpdatePages ==
  ASSUME PageBase, CacheInv, NEW u \in Uids, NEW r, IsReq(r), r.slot = req[u].slot,
         u \in Owned => SameButIds(u, r), req' = [req EXCEPT ![u] = r],
         UNCHANGED <<pc, pageRow, freed, cacheVars>>
  PROVE  CacheInv' /\ Owned' = Owned
<1>1. /\ \A v \in Uids \ {u} : req'[v] = req[v]
      /\ req'[u] = r
  BY DeferredList
<1>2. Owned' = Owned
  BY <1>1 DEF Owned, Holds
<1>3. Lists' /\ Stock' = Stock
  BY DEF CacheInv, Holding, Lists, Stock, cacheVars
<1>4. \A v \in Owned : /\ SamePlace(v) /\ req'[v].cached <= req'[v].device
                       /\ Begins(req'[v].handle, req'[v].ids)
  <2> TAKE v \in Owned
  <2>1. CASE v = u
    BY <1>1, <2>1 DEF SamePlace, SameButIds, CacheInv, Holding, Lengths
  <2>2. CASE v # u
    BY <1>1, <2>2, OwnedFacts DEF SamePlace, CacheInv, Holding, Lengths, Handles
  <2> QED BY <2>1, <2>2
<1> QED BY <1>2, <1>3, <1>4, SamePages DEF CacheInv, cacheVars

LEMMA CachePages ==
  ASSUME PageBase, CacheInv, NEW u \in Owned, NEW r, SameButIds(u, r),
         CacheReq(u, r, FALSE), UNCHANGED <<pc, pageRow, freed>>
  PROVE  CacheInv' /\ Owned' = Owned
<1>1. u \in Uids /\ IsReq(r) /\ r.slot = req[u].slot
  BY OwnedFacts DEF SameButIds
<1>2. Becomes(u, r)
  BY <1>1, CacheReqBecomes, DeferredList
<1>3. Owned' = Owned
  BY <1>1, <1>2 DEF Becomes, Owned, Holds
<1> QED BY <1>3, CacheReqPages, CacheReqRefs DEF CacheInv

LEMMA FreePages ==
  ASSUME PageBase, CacheInv, NEW u \in Holders, NEW r, IsReq(r), r.slot = req[u].slot,
         u \in Owned => SameButIds(u, r), FreeReqResources(u, r),
         UNCHANGED <<pc, pageRow>>
  PROVE  CacheInv' /\ Owned' = Owned \ {u} /\ freed' = freed \cup {u}
<1>1. u \in Uids /\ Holds(u)
  BY DEF Holders
<1>2. Becomes(u, r) /\ freed' = freed \cup {u}
  BY <1>1, FreeBecomes, DeferredList
<1>3. Owned' = Owned \ {u}
  BY <1>1, <1>2 DEF Becomes, Owned, Holds
<1>4. CASE u \in freed
  <2>1. req' = [req EXCEPT ![u] = r] /\ UNCHANGED <<freed, cacheVars>>
    BY <1>4 DEF FreeReqResources
  <2> QED BY <1>1, <1>2, <1>3, <2>1, UpdatePages
<1>5. CASE u \notin freed
  <2>1. u \in Owned /\ CacheReq(u, r, TRUE)
    BY <1>1, <1>5 DEF FreeReqResources, Owned
  <2>2. Owned' = IF TRUE THEN Owned \ {u} ELSE Owned
    BY <1>3
  <2> QED BY <1>2, <1>3, <2>1, <2>2, CacheReqPages, CacheReqRefs DEF CacheInv
<1> QED BY <1>4, <1>5

\* process_forward_output lets go of u, now or later
LEMMA FreeOrDeferPages ==
  ASSUME PageBase, CacheInv, Put, NEW u \in Holders, NEW r, IsReq(r),
         r.slot = req[u].slot, u \in Owned => SameButIds(u, r), u \notin Caching,
         FreeReqResourcesOrDefer(u, r), UNCHANGED <<pc, pageRow, flight>>,
         UidsIn(prev') \subseteq UidsIn(prev)
  PROVE  CacheInv' /\ Put'
<1>1. u \in Uids
  BY DEF Holders
<1>2. CASE MustDefer
  <2>1. Defer(u, r, TRUE)
    BY <1>2 DEF FreeReqResourcesOrDefer
  <2>2. CacheInv' /\ Owned' = Owned
    BY <1>1, <2>1, UpdatePages DEF Defer
  <2>3. Caching' = Caching /\ Freeing' = Freeing \cup {u}
    BY <1>1, <2>1, DeferredCaching
  <2>4. Overlap
    BY <1>2 DEF MustDefer
  <2> QED BY <2>2, <2>3, <2>4 DEF Put
<1>3. CASE ~MustDefer
  <2>1. FreeReqResources(u, r) /\ UNCHANGED deferredActions
    BY <1>3 DEF FreeReqResourcesOrDefer
  <2>2. CacheInv' /\ Owned' = Owned \ {u}
    BY <2>1, FreePages
  <2>3. Caching' = Caching /\ Freeing' = Freeing
    BY <2>1 DEF Caching, Freeing
  <2> QED BY <2>1, <2>2, <2>3 DEF Put
<1> QED BY <1>2, <1>3

LEMMA CacheOrDeferPages ==
  ASSUME PageBase, CacheInv, Put, NEW u \in Owned, NEW r, SameButIds(u, r),
         u \notin Freeing, u \notin UidsIn(flight) \cup UidsIn(prev'),
         CacheReqOrDefer(u, r), UNCHANGED <<pc, pageRow, flight>>,
         UidsIn(prev') \subseteq UidsIn(prev)
  PROVE  CacheInv' /\ Put'
<1>1. u \in Uids /\ IsReq(r) /\ r.slot = req[u].slot
  BY OwnedFacts DEF SameButIds
<1>2. CASE MustDefer
  <2>1. Defer(u, r, FALSE)
    BY <1>2 DEF CacheReqOrDefer
  <2>2. CacheInv' /\ Owned' = Owned
    BY <1>1, <2>1, UpdatePages DEF Defer
  <2>3. Caching' = Caching \cup {u} /\ Freeing' = Freeing
    BY <1>1, <2>1, DeferredCaching
  <2>4. Overlap
    BY <1>2 DEF MustDefer
  <2> QED BY <2>2, <2>3, <2>4 DEF Put
<1>3. CASE ~MustDefer
  <2>1. CacheReq(u, r, FALSE) /\ UNCHANGED <<freed, deferredActions>>
    BY <1>3 DEF CacheReqOrDefer
  <2>2. CacheInv' /\ Owned' = Owned
    BY <2>1, CachePages
  <2>3. Caching' = Caching /\ Freeing' = Freeing
    BY <2>1 DEF Caching, Freeing
  <2> QED BY <2>1, <2>2, <2>3 DEF Put
<1> QED BY <1>2, <1>3

LEMMA AbortPages ==
  ASSUME Safe, PageBase, PageInv, NEW u \in Uids, Abort(u)  PROVE PageInv'
<1>1. /\ pc = "idle"
      /\ AbortAnyTime \/ ~AbortHazard(u)
      /\ \/ UNCHANGED <<freed, req, cacheVars>>
         \/ Holds(u) /\ FreeReqResources(u, req[u])
      /\ UNCHANGED <<pc, pageRow, batch, flight, prev, deferredActions>>
  BY DEF Abort, batchVars, cacheVars
<1>2. u \notin Caching
  <2>1. CASE ~Overlap
    BY <2>1, RangeEmpty DEF PageInv, Put, Caching
  <2>2. CASE Overlap
    <3>1. ~AbortHazard(u)
      BY <1>1, <2>2 DEF Safe
    <3> SUFFICES ASSUME NEW a \in Range(deferredActions), ~a.finished, a.uid = u
                 PROVE  FALSE
      BY DEF Caching
    <3>2. PICK i \in DOMAIN deferredActions : deferredActions[i] = a
      BY DEF Range
    <3>3. a \in [uid : Uids, finished : BOOLEAN]
      BY DeferredList, RangeIn
    <3>4. a = [uid |-> u, finished |-> FALSE]
      BY <3>3
    <3> QED BY <3>1, <3>2, <3>4 DEF AbortHazard
  <2> QED BY <2>1, <2>2
<1>3. Caching' = Caching /\ Freeing' = Freeing
  BY <1>1 DEF Caching, Freeing
<1>4. batch = <<>> /\ IsReq(req[u])
  <2>1. batch = <<>>
    BY <1>1, DeferredList DEF LifeInv, Phases
  <2>2. IsReq(req[u])
    BY DeferredList DEF SlotInv, ReqFields
  <2> QED BY <2>1, <2>2
<1>5. CASE UNCHANGED <<freed, req, cacheVars>>
  <2>1. Owned' = Owned
    BY <1>5 DEF Owned, Holds
  <2>2. Holding' /\ Places' /\ RefCountsExact'
    BY <1>1, <1>5, <2>1, PlainPages DEF PageInv, cacheVars
  <2>3. Chunks'
    BY <1>1, <1>5, <2>1 DEF PageInv, Chunks
  <2>4. Put'
    BY <1>1, <2>1, SamePut DEF PageInv
  <2> QED BY <2>2, <2>3, <2>4 DEF PageInv
<1>6. CASE Holds(u) /\ FreeReqResources(u, req[u])
  <2>1. u \in Holders
    BY <1>6 DEF Holders
  <2>2. u \in Owned => SameButIds(u, req[u])
    BY OwnRecord DEF PageInv
  <2>3. CacheInv' /\ Owned' = Owned \ {u} /\ freed' = freed \cup {u}
    BY <1>1, <1>4, <1>6, <2>1, <2>2, FreePages DEF PageInv, CacheInv
  <2>4. Chunks'
    <3>1. Becomes(u, req[u])
      BY <1>4, <1>6, FreeBecomes, DeferredList
    <3> QED BY <1>1, <1>4, <2>3, <3>1, HandedChunks DEF PageInv
  <2>5. Put'
    BY <1>1, <1>2, <1>3, <2>3 DEF PageInv, Put
  <2> QED BY <2>3, <2>4, <2>5 DEF PageInv, CacheInv
<1> QED BY <1>1, <1>5, <1>6

LEMMA FlushPages ==
  ASSUME PageBase, PageInv, FlushAction  PROVE PageInv'
<1> DEFINE act == Head(deferredActions)
           A == [uid : Uids, finished : BOOLEAN]
           u == act.uid
<1>1. /\ pc = "schedule" /\ deferredActions # <<>>
      /\ \/ act.finished /\ FreeReqResources(u, req[u])
         \/ ~act.finished /\ CacheReq(u, req[u], FALSE) /\ UNCHANGED freed
      /\ deferredActions' = Tail(deferredActions)
      /\ UNCHANGED <<pc, pageRow, batch, flight, prev>>
  BY DEF FlushAction, batchVars
<1>2. /\ act \in A /\ Range(deferredActions) = {act} \cup Range(deferredActions')
      /\ deferredActions[1] = act
  <2>1. deferredActions \in Seq(A)
    BY DeferredList
  <2>2. act \in A /\ Range(deferredActions) = {act} \cup Range(deferredActions')
    BY <1>1, <2>1, HeadTail
  <2> QED BY <1>1, <2>1, <2>2
<1>3. u \in Uids /\ u \in Holders
  <2>1. 1 \in DOMAIN deferredActions
    <3>1. deferredActions \in Seq(A)
      BY DeferredList
    <3> QED BY <1>1, <3>1
  <2> QED BY <1>2, <2>1 DEF PageBase, ReplyBase, LifeBase, SlotInv, AllHold
<1>4. /\ Caching' \subseteq Caching /\ Freeing' \subseteq Freeing
      /\ act.finished => u \in Freeing
      /\ ~act.finished => u \in Caching
  BY <1>2 DEF Caching, Freeing
<1> HIDE DEF act, A
<1>5. batch = <<>> /\ IsReq(req[u])
  BY <1>1, <1>3, DeferredList DEF LifeInv, Phases, SlotInv, ReqFields
<1>6. u \in Owned => SameButIds(u, req[u])
  BY OwnRecord DEF PageInv
<1>7. CacheInv' /\ freed \subseteq freed' /\ Becomes(u, req[u])
      /\ Caching' \subseteq Owned'
  <2>1. CASE act.finished
    <3>1. FreeReqResources(u, req[u])
      BY <1>1, <2>1
    <3>2. CacheInv' /\ Owned' = Owned \ {u} /\ freed' = freed \cup {u}
      BY <1>1, <1>3, <1>5, <1>6, <3>1, FreePages DEF PageInv, CacheInv
    <3>3. Becomes(u, req[u])
      BY <1>3, <1>5, <3>1, FreeBecomes, DeferredList
    <3>4. u \notin Caching
      BY <1>4, <2>1 DEF PageInv, Put
    <3> QED BY <1>4, <3>2, <3>3, <3>4 DEF PageInv, Put
  <2>2. CASE ~act.finished
    <3>1. CacheReq(u, req[u], FALSE) /\ UNCHANGED freed
      BY <1>1, <2>2
    <3>2. u \in Owned
      BY <1>4, <2>2 DEF PageInv, Put
    <3>3. CacheInv' /\ Owned' = Owned
      BY <1>1, <1>6, <3>1, <3>2, CachePages DEF PageInv, CacheInv
    <3>4. Becomes(u, req[u])
      BY <1>3, <1>5, <3>1, CacheReqBecomes, DeferredList
    <3> QED BY <1>4, <3>1, <3>3, <3>4 DEF PageInv, Put
  <2> QED BY <2>1, <2>2
<1>8. Chunks'
  BY <1>1, <1>3, <1>5, <1>7, HandedChunks DEF PageInv
<1>9. Put'
  <2>1. Overlap
    BY <1>1 DEF PageInv, Put
  <2> QED BY <1>1, <1>4, <1>7, <2>1 DEF PageInv, Put
<1> QED BY <1>7, <1>8, <1>9 DEF PageInv, CacheInv


LEMMA ReleasePages ==
  ASSUME PageBase, PageInv, ReleaseSuppressed, NEW u, u = Current.uid  PROVE PageInv'
<1>1. /\ Process
      /\ \/ FreeReqResourcesOrDefer(u, req[u])
         \/ UNCHANGED <<freed, deferredActions, req, cacheVars>>
      /\ UNCHANGED <<pc, pageRow, batch, flight>>
  BY DEF ReleaseSuppressed, batchVars
<1>2. /\ u \in Uids /\ u \in Holders /\ UidsIn(prev) = {u} \cup UidsIn(prev')
      /\ batch = <<>> /\ pc = "process"
  BY <1>1, ProcessMoves, DeferredList
<1>3. u \notin Caching
  BY <1>2 DEF PageInv, Put
<1>4. IsReq(req[u])
  BY <1>2, DeferredList DEF SlotInv, ReqFields
<1>5. CASE FreeReqResourcesOrDefer(u, req[u])
  <2>1. u \in Owned => SameButIds(u, req[u])
    BY OwnRecord DEF PageInv
  <2>2. CacheInv' /\ Put'
    BY <1>1, <1>2, <1>3, <1>4, <1>5, <2>1, FreeOrDeferPages DEF PageInv, CacheInv
  <2>3. Becomes(u, req[u]) /\ freed \subseteq freed'
    BY <1>2, <1>4, <1>5, FreeOrDeferBecomes, DeferredList
  <2>4. Chunks'
    BY <1>1, <1>2, <2>3, HandedChunks DEF PageInv
  <2> QED BY <2>2, <2>4 DEF PageInv, CacheInv
<1>6. CASE UNCHANGED <<freed, deferredActions, req, cacheVars>>
  <2>1. Owned' = Owned
    BY <1>6 DEF Owned, Holds
  <2>2. Holding' /\ Places' /\ RefCountsExact'
    BY <1>1, <1>2, <1>6, <2>1, PlainPages DEF PageInv, cacheVars
  <2>3. Chunks'
    BY <1>1, <1>6, <2>1 DEF PageInv, Chunks
  <2>4. Put'
    BY <1>1, <1>2, <1>6, <2>1, SamePut DEF PageInv
  <2> QED BY <2>2, <2>3, <2>4 DEF PageInv
<1> QED BY <1>1, <1>5, <1>6

\* the host's copy of a request grows, and goes on with what its handle says
LEMMA AppendedSame ==
  ASSUME PageBase, Holding, NEW u \in Owned, u = Current.uid, Current \in Entry
  PROVE  SameButIds(u, Appended)
<1>1. /\ IsReq(Appended) /\ Appended.slot = req[u].slot /\ Appended.cached = req[u].cached
      /\ Appended.device = req[u].device
      /\ Appended.ids = Append(req[u].ids, Current.token)
  BY OwnedFacts, AppendedIsReq, AppendedBecomes, DeferredList
<1>2. Appended.handle = req[u].handle
  BY OwnedFacts DEF Appended, IsReq, NoReq
<1> DEFINE s == req[u].ids
           h == req[u].handle
           t == Append(s, Current.token)
<1>3. s \in Seq(Tokens) /\ h \in Seq(Tokens) /\ Begins(h, s) /\ Current.token \in Tokens
  BY OwnedFacts DEF Holding, Handles, Entry
<1> HIDE DEF s, h
<1>4. /\ t \in Seq(Tokens) /\ Len(t) = Len(s) + 1 /\ \A i \in 1 .. Len(s) : t[i] = s[i]
      /\ Len(s) \in Nat /\ Len(h) \in Nat
  BY <1>3
<1> HIDE DEF t
<1>5. Begins(h, t)
  <2>1. Len(h) <= Len(t) /\ \A i \in 1 .. Len(h) : i \in 1 .. Len(s)
    BY <1>3, <1>4 DEF Begins
  <2> QED BY <1>3, <1>4, <2>1 DEF Begins
<1> QED BY <1>1, <1>2, <1>4, <1>5 DEF SameButIds, s, h, t

LEMMA DeliverPages ==
  ASSUME PageBase, PageInv, DeliverLast \/ DeliverNext, NEW u, u = Current.uid
  PROVE  PageInv'
<1>1. PICK finished \in BOOLEAN : Deliver(finished)
  BY DEF DeliverLast, DeliverNext
<1>2. /\ Process /\ u \notin Gone /\ UNCHANGED <<pc, pageRow, batch, flight>>
  BY <1>1, DeliverMoves, DeferredList DEF Deliver, batchVars
<1>3. /\ u \in Uids /\ u \in Holders /\ UidsIn(prev) = {u} \cup UidsIn(prev')
      /\ batch = <<>> /\ pc = "process" /\ u \notin UidsIn(prev') /\ Current \in Entry
  BY <1>2, ProcessMoves, DeferredList
<1>4. u \in Owned
  BY <1>2, <1>3, OwnedHolds DEF PageBase
<1>5. u \notin Caching /\ u \notin Freeing
  BY <1>2, <1>3, DeferredList DEF PageInv, Put, LifeInv, Farewell
<1>6. SameButIds(u, Appended)
  BY <1>3, <1>4, AppendedSame DEF PageInv
<1>7. IsReq(Appended) /\ Appended.slot = req[u].slot
  BY <1>6 DEF SameButIds
<1>8. \/ FreeReqResourcesOrDefer(u, Appended)
      \/ ~PendingUses(u) /\ CacheReqOrDefer(u, Appended)
      \/ /\ req' = [req EXCEPT ![u] = Appended]
         /\ UNCHANGED <<freed, deferredActions, cacheVars>>
  BY DEF DeliverLast, DeliverNext
<1>9. CacheInv' /\ Put'
  <2>1. CASE FreeReqResourcesOrDefer(u, Appended)
    BY <1>2, <1>3, <1>5, <1>6, <1>7, <2>1, FreeOrDeferPages DEF PageInv, CacheInv
  <2>2. CASE ~PendingUses(u) /\ CacheReqOrDefer(u, Appended)
    <3>1. u \notin UidsIn(flight) \cup UidsIn(prev')
      BY <1>3, <2>2, UsesFlight
    <3> QED BY <1>2, <1>3, <1>4, <1>5, <1>6, <2>2, <3>1, CacheOrDeferPages DEF PageInv, CacheInv
  <2>3. CASE /\ req' = [req EXCEPT ![u] = Appended]
             /\ UNCHANGED <<freed, deferredActions, cacheVars>>
    <3>1. CacheInv' /\ Owned' = Owned
      BY <1>2, <1>3, <1>6, <1>7, <2>3, UpdatePages DEF PageInv, CacheInv
    <3> QED BY <1>2, <1>3, <2>3, <3>1, SamePut DEF PageInv
  <2> QED BY <1>8, <2>1, <2>2, <2>3
<1>10. Chunks'
  <2>1. Becomes(u, Appended) /\ freed \subseteq freed'
    BY DeliverBecomes, ResultFrees DEF PageBase, ReplyBase
  <2>2. Appended.chunked = req[u].chunked /\ Appended.cached = req[u].cached
    BY <1>3, AppendedBecomes, DeferredList
  <2> QED BY <1>2, <1>3, <1>7, <2>1, <2>2, HandedChunks DEF PageInv
<1> QED BY <1>9, <1>10 DEF PageInv, CacheInv

-----------------------------------------------------------------------------
(* The invariant.                                                          *)

LEMMA PageInit == Init => PageInv
<1> SUFFICES ASSUME Init  PROVE PageInv
  OBVIOUS
<1>1. Owned = {}
  BY DEF Init, Owned, Holds, NoReq
<1>2. /\ tree = [page |-> <<>>, ref |-> <<>>]
      /\ tree.page = <<>> /\ tree.ref = <<>> /\ DOMAIN tree = {"page", "ref"}
  BY DEF Init, EmptyTree
<1>3. Cached(tree) = {}
  BY <1>2 DEF Cached
<1>4. Range(tree.page) = {} /\ IsInjective(tree.page)
  BY <1>2, RangeEmpty
<1>5. Shape(tree)
  <2>1. tree.page \in [{} -> Pages] /\ tree.ref \in [{} -> Int]
    BY <1>2
  <2> QED BY <1>2, <1>3, <2>1, FS_EmptySet DEF Shape, Closed
<1>6. NumPages \in Nat
  BY SchedulerAssumption
<1>7. /\ freePages \in Seq(Pages) /\ Range(freePages) = Pages /\ IsInjective(freePages)
      /\ lazyFree = <<>>
  BY <1>6 DEF Init, Pages, Range, IsInjective
<1>8. Stock = freePages
  BY <1>7, ConcatEmptySeq DEF Stock
<1>9. Holding
  <2>1. pageRow \in [Slots -> Seq(Pages)] /\ lazyFree \in Seq(Pages)
    BY <1>7 DEF Init
  <2> QED BY <1>1, <1>5, <1>7, <2>1 DEF Holding, Lists, Lengths, Handles
<1>10. Places
  BY <1>1, <1>4, <1>7, <1>8 DEF Places, Singly, Disjoint, Complete
<1>11. RefCountsExact
  BY <1>3 DEF RefCountsExact
<1>12. Chunks
  BY <1>1, RangeEmpty DEF Init, Chunks
<1>13. Put
  <2>1. deferredActions = <<>> /\ flight = <<>> /\ prev = <<>>
    BY DEF Init
  <2>2. Caching = {} /\ Freeing = {}
    BY <2>1, RangeEmpty DEF Caching, Freeing
  <2> QED BY <2>1, <2>2 DEF Put
<1> QED BY <1>9, <1>10, <1>11, <1>12, <1>13 DEF PageInv

LEMMA PageBaseInit == Init => PageBase
BY ReplyBaseInit, MirrorInit DEF PageBase

LEMMA PageBaseStep == PageBase /\ [Next]_vars => PageBase'
BY ReplyBaseStep, MirrorStep DEF PageBase

LEMMA PageStep ==
  ASSUME Safe, PageBase, PageInv, [Next]_vars  PROVE PageInv'
<1>1. PageBase'
  BY PageBaseStep
<1>2. ASSUME NEW u \in Uids, Submit(u) \/ Abort(u)  PROVE PageInv'
  BY <1>2, SubmitPages, AbortPages
<1>3. CASE Step
  <2>1. CASE ReleaseSuppressed  BY <2>1, ReleasePages
  <2>2. CASE DeliverLast \/ DeliverNext  BY <2>2, DeliverPages
  <2>3. CASE AdmitChunk \/ AdmitNew \/ Reclaim \/ LaunchOne \/ EndStep
    BY <1>1, <2>3, BatchPages
  <2>4. CASE FlushAction  BY <2>4, FlushPages
  <2> QED BY <1>3, <2>1, <2>2, <2>3, <2>4, QuietPages DEF Step
<1>4. CASE UNCHANGED vars
  BY <1>4, QuietPages
<1> QED BY <1>2, <1>3, <1>4 DEF Next, Wait

-----------------------------------------------------------------------------
(* The theorems.                                                           *)

\* the positions of p in a list without repetitions
PositionsIn(name, s, p) == {<<name, i>> : i \in {j \in DOMAIN s : s[j] = p}}

LEMMA PositionsOf ==
  ASSUME NEW s, IsInjective(s), NEW p, NEW name
  PROVE  /\ p \notin Range(s) => PositionsIn(name, s, p) = {}
         /\ p \in Range(s) => \E x : PositionsIn(name, s, p) = {x}
<1> DEFINE P == PositionsIn(name, s, p)
<1>1. ASSUME p \notin Range(s)  PROVE P = {}
  <2>1. {j \in DOMAIN s : s[j] = p} = {}
    BY <1>1 DEF Range
  <2> QED BY <2>1 DEF PositionsIn
<1>2. ASSUME p \in Range(s)  PROVE \E x : P = {x}
  <2>1. PICK i \in DOMAIN s : s[i] = p
    BY <1>2 DEF Range
  <2>2. {j \in DOMAIN s : s[j] = p} = {i}
    BY <2>1 DEF IsInjective
  <2>3. P = {<<name, i>>}
    BY <2>2 DEF PositionsIn
  <2> QED BY <2>3
<1> QED BY <1>1, <1>2

LEMMA StockSplits ==
  ASSUME Lists, Singly
  PROVE  /\ IsInjective(freePages) /\ IsInjective(lazyFree)
         /\ Range(Stock) = Range(freePages) \cup Range(lazyFree)
         /\ Range(freePages) \cap Range(lazyFree) = {}
<1> DEFINE s == freePages
           t == lazyFree
           z == s \o t
<1>1. s \in Seq(Pages) /\ t \in Seq(Pages) /\ IsInjective(z)
  BY DEF Lists, Singly, Stock
<1>2. Range(z) = Range(s) \cup Range(t)
  BY <1>1, ConcatRange
<1>3. /\ Len(z) = Len(s) + Len(t) /\ Len(s) \in Nat /\ Len(t) \in Nat
      /\ DOMAIN z = 1 .. Len(z) /\ DOMAIN s = 1 .. Len(s) /\ DOMAIN t = 1 .. Len(t)
      /\ \A i \in 1 .. Len(s) : z[i] = s[i]
      /\ \A i \in 1 .. Len(t) : z[Len(s) + i] = t[i]
  BY <1>1
<1> HIDE DEF s, t, z
<1>4. ASSUME NEW i \in DOMAIN s, NEW j \in DOMAIN s, s[i] = s[j]  PROVE i = j
  <2>1. z[i] = z[j] /\ i \in DOMAIN z /\ j \in DOMAIN z
    BY <1>3, <1>4
  <2> QED BY <1>1, <2>1 DEF IsInjective
<1>5. ASSUME NEW i \in DOMAIN t, NEW j \in DOMAIN t, t[i] = t[j]  PROVE i = j
  <2>1. /\ z[Len(s) + i] = z[Len(s) + j]
        /\ Len(s) + i \in DOMAIN z /\ Len(s) + j \in DOMAIN z
    BY <1>3, <1>5
  <2>2. Len(s) + i = Len(s) + j
    BY <1>1, <2>1 DEF IsInjective
  <2> QED BY <1>3, <2>2
<1>6. ASSUME NEW i \in DOMAIN s, NEW j \in DOMAIN t, s[i] = t[j]  PROVE FALSE
  <2>1. /\ z[i] = z[Len(s) + j] /\ i \in DOMAIN z /\ Len(s) + j \in DOMAIN z
        /\ i # Len(s) + j
    BY <1>3, <1>6
  <2> QED BY <1>1, <2>1 DEF IsInjective
<1>7. Range(s) \cap Range(t) = {}
  BY <1>6 DEF Range
<1>8. IsInjective(s) /\ IsInjective(t)
  BY <1>4, <1>5 DEF IsInjective
<1> QED BY <1>2, <1>7, <1>8 DEF s, t, z, Stock

\* the positions of p in the private parts of the rows
PositionsInRows(p) ==
  UNION {{<<"row", u, i>> : i \in {j \in Mine(u) : PageRow(u)[j] = p}} : u \in Owned}

LEMMA RowsOf ==
  ASSUME Singly, Disjoint, NEW p
  PROVE  /\ (\A u \in Owned : p \notin Private(u)) => PositionsInRows(p) = {}
         /\ (\E u \in Owned : p \in Private(u)) => \E x : PositionsInRows(p) = {x}
<1> DEFINE R == PositionsInRows(p)
           At(u) == {<<"row", u, i>> : i \in {j \in Mine(u) : PageRow(u)[j] = p}}
<1>1. ASSUME NEW u \in Owned, p \notin Private(u)  PROVE At(u) = {}
  <2>1. {j \in Mine(u) : PageRow(u)[j] = p} = {}
    BY <1>1 DEF Private
  <2> QED BY <2>1
<1>2. ASSUME NEW u \in Owned, p \in Private(u)
      PROVE  \E x : R = {x}
  <2>1. PICK i \in Mine(u) : PageRow(u)[i] = p
    BY <1>2 DEF Private
  <2>2. {j \in Mine(u) : PageRow(u)[j] = p} = {i}
    BY <2>1 DEF Singly
  <2>3. At(u) = {<<"row", u, i>>}
    BY <2>2
  <2>4. \A v \in Owned : v # u => At(v) = {}
    BY <1>1, <1>2 DEF Disjoint
  <2> HIDE DEF At
  <2>5. UNION {At(v) : v \in Owned} = {<<"row", u, i>>}
    BY <2>3, <2>4
  <2>6. R = {<<"row", u, i>>}
    BY <2>5 DEF At, PositionsInRows
  <2> QED BY <2>6
<1>3. ASSUME \A u \in Owned : p \notin Private(u)  PROVE R = {}
  <2>1. \A u \in Owned : At(u) = {}
    BY <1>1, <1>3
  <2> HIDE DEF At
  <2>2. UNION {At(v) : v \in Owned} = {}
    BY <2>1
  <2> QED BY <2>2 DEF At, PositionsInRows
<1> QED BY <1>2, <1>3

LEMMA OnePlace ==
  ASSUME Lists, Places, NEW p \in Pages  PROVE Cardinality(PlacesOf(p)) = 1
<1> DEFINE F == PositionsIn("free", freePages, p)
           L == PositionsIn("lazy", lazyFree, p)
           C == PositionsIn("cached", tree.page, p)
           R == PositionsInRows(p)
           inRow == \E u \in Owned : p \in Private(u)
<1>1. PlacesOf(p) = F \cup L \cup C \cup R
  BY DEF PlacesOf, PositionsIn, PositionsInRows, Cached, Mine, PageRow
<1>2. /\ (p \notin Range(freePages) => F = {}) /\ (p \in Range(freePages) => \E x : F = {x})
      /\ (p \notin Range(lazyFree) => L = {}) /\ (p \in Range(lazyFree) => \E x : L = {x})
  BY StockSplits, PositionsOf DEF Places
<1>3. (p \notin Range(tree.page) => C = {}) /\ (p \in Range(tree.page) => \E x : C = {x})
  BY PositionsOf DEF Places, Singly
<1>4. (~inRow => R = {}) /\ (inRow => \E x : R = {x})
  BY RowsOf DEF Places
<1>5. /\ \/ p \in Range(freePages) \/ p \in Range(lazyFree)
         \/ p \in Range(tree.page) \/ inRow
      /\ ~(p \in Range(freePages) /\ p \in Range(lazyFree))
      /\ ~(p \in Range(freePages) \cup Range(lazyFree) /\ p \in Range(tree.page))
      /\ ~(p \in Range(freePages) \cup Range(lazyFree) \cup Range(tree.page) /\ inRow)
  BY StockSplits DEF Places, Disjoint, Complete
<1> HIDE DEF F, L, C, R, inRow
<1>6. \E x : PlacesOf(p) = {x}
  <2>1. CASE p \in Range(freePages)
    <3>1. L = {} /\ C = {} /\ R = {}  BY <1>2, <1>3, <1>4, <1>5, <2>1
    <3> QED BY <1>1, <1>2, <2>1, <3>1
  <2>2. CASE p \in Range(lazyFree)
    <3>1. F = {} /\ C = {} /\ R = {}  BY <1>2, <1>3, <1>4, <1>5, <2>2
    <3> QED BY <1>1, <1>2, <2>2, <3>1
  <2>3. CASE p \in Range(tree.page)
    <3>1. F = {} /\ L = {} /\ R = {}  BY <1>2, <1>3, <1>4, <1>5, <2>3
    <3> QED BY <1>1, <1>3, <2>3, <3>1
  <2>4. CASE inRow
    <3>1. F = {} /\ L = {} /\ C = {}  BY <1>2, <1>3, <1>5, <2>4
    <3> QED BY <1>1, <1>4, <2>4, <3>1
  <2> QED BY <1>5, <2>1, <2>2, <2>3, <2>4
<1> QED BY <1>6, FS_Singleton

LEMMA PagesAlways ==
  ASSUME Safe  PROVE Spec => [](PageBase /\ PageInv)
<1>1. Init => PageBase /\ PageInv
  BY PageBaseInit, PageInit
<1>2. PageBase /\ PageInv /\ [Next]_vars => (PageBase /\ PageInv)'
  BY PageBaseStep, PageStep
<1> QED BY <1>1, <1>2, PTL DEF Spec

(* Each KV page is in exactly one place at every step, for every instance  *)
(* of the scheduler whose clients do not abort in the two states that leak *)
(* (or without overlap scheduling, which has none of them).                *)
THEOREM PagesOwnedOnce == Safe => (Spec => []PageOwnedOnce)
<1> SUFFICES ASSUME Safe  PROVE Spec => []PageOwnedOnce
  OBVIOUS
<1>1. PageBase /\ PageInv => PageOwnedOnce
  BY OnePlace DEF PageInv, Holding, PageOwnedOnce
<1>2. Spec => [](PageBase /\ PageInv)
  BY PagesAlways
<1> QED BY <1>1, <1>2, PTL

(* A cached prefix has one lock for each request that holds it or what     *)
(* lies below it, so none of them is evicted under a request and none      *)
(* stays locked for ever.                                                  *)
THEOREM LocksExact == Safe => (Spec => []RefCountsExact)
<1> SUFFICES ASSUME Safe  PROVE Spec => []RefCountsExact
  OBVIOUS
<1>1. PageBase /\ PageInv => RefCountsExact
  BY DEF PageInv
<1>2. Spec => [](PageBase /\ PageInv)
  BY PagesAlways
<1> QED BY <1>1, <1>2, PTL

-----------------------------------------------------------------------------
(* What the pages hold.                                                    *)

\* no request computes what the cache has got from another one meanwhile
Alone ==
  \A u \in Owned : \A n \in Mine(u) : SubSeq(Row(u), 1, n) \notin Cached(tree)

\* what a request reads: its own pages hold its own tokens, the others are
\* those of its handle
ReadsRight(u) ==
  /\ req[u].cached <= Len(Row(u))
  /\ req[u].chunked => req[u].cached <= Len(req[u].ids)
  /\ \A i \in Mine(u) : kv[PageRow(u)[i]] = SubSeq(Row(u), 1, i)
  /\ \A i \in 1 .. Len(req[u].handle) :
       PageRow(u)[i] = tree.page[SubSeq(req[u].handle, 1, i)]

\* what the cache files
Filed == \A q \in Cached(tree) : kv[tree.page[q]] = q

\* a chunk in the batch is no longer than what the request knows of its prompt
Loaded ==
  pc # "filter" =>
    \A u \in Range(batch) : req[u].chunked => req[u].device <= Len(req[u].ids)

KVInv == Filed /\ (\A u \in Owned : ReadsRight(u)) /\ Loaded

KeepsReads(u) == ReadsRight(u) => ReadsRight(u)'

\* cached prefixes that stay keep their pages
KeepsPages == \A q \in Cached(tree') : q \in Cached(tree) => tree'.page[q] = tree.page[q]

ReadsSame(u) == /\ PageRow(u)' = PageRow(u) /\ Row(u)' = Row(u)
                /\ \A i \in Mine(u) : kv'[PageRow(u)[i]] = kv[PageRow(u)[i]]

LEMMA SameReads ==
  ASSUME PageBase, Handles, Handles', NEW u \in Owned, u \in Owned', SamePlace(u),
         req'[u].chunked = req[u].chunked, req'[u].ids \in Seq(Tokens),
         Len(req[u].ids) <= Len(req'[u].ids), ReadsSame(u), KeepsPages
  PROVE  KeepsReads(u)
<1> SUFFICES ASSUME ReadsRight(u)  PROVE ReadsRight(u)'
  BY DEF KeepsReads
<1>1. /\ req'[u].slot = req[u].slot /\ req'[u].cached = req[u].cached
      /\ req'[u].handle = req[u].handle
  BY DEF SamePlace
<1>2. /\ PageRow(u)' = PageRow(u) /\ Row(u)' = Row(u) /\ Mine(u)' = Mine(u)
      /\ \A i \in Mine(u) : kv'[PageRow(u)[i]] = kv[PageRow(u)[i]]
  BY <1>1 DEF ReadsSame, Mine
<1>3. req[u].chunked => req[u].cached <= Len(req'[u].ids)
  <2>1. /\ req[u].cached \in Int /\ Len(req[u].ids) \in Int /\ Len(req'[u].ids) \in Int
    BY OwnedFacts
  <2> QED BY <2>1 DEF ReadsRight
<1>4. ASSUME NEW i \in 1 .. Len(req[u].handle)
      PROVE  tree'.page[SubSeq(req[u].handle, 1, i)] = tree.page[SubSeq(req[u].handle, 1, i)]
  <2>1. req[u].handle \in Seq(Tokens) /\ Path(req[u].handle) \subseteq Cached(tree)
    BY DEF Handles
  <2>2. Path(req[u].handle) \subseteq Cached(tree')
    BY <1>1 DEF Handles
  <2>3. SubSeq(req[u].handle, 1, i) \in Path(req[u].handle)
    BY <2>1, PathFacts
  <2> QED BY <2>1, <2>2, <2>3 DEF KeepsPages
<1> QED BY <1>1, <1>2, <1>3, <1>4 DEF ReadsRight

LEMMA KeptReads ==
  ASSUME PageBase, Handles, Handles', NEW u \in Owned, u \in Owned', SamePlace(u),
         req'[u].chunked = req[u].chunked, req'[u].ids \in Seq(Tokens),
         Len(req[u].ids) <= Len(req'[u].ids),
         UNCHANGED <<kv, pageRow, tokenRow>>, KeepsPages
  PROVE  KeepsReads(u)
<1>1. ReadsSame(u)
  BY DEF SamePlace, ReadsSame, PageRow, Row
<1> QED BY <1>1, SameReads

LEMMA KeptFiled ==
  ASSUME Filed, KeepsPages, UNCHANGED kv, Cached(tree') \subseteq Cached(tree)
  PROVE  Filed'
BY DEF Filed, KeepsPages

-----------------------------------------------------------------------------
(* The steps that write nothing and file nothing.                          *)

LEMMA QuietKV ==
  ASSUME PageBase, PageInv, PageInv', KVInv,
         \/ \E u \in Uids : Submit(u)
         \/ BeginAdmission \/ UNCHANGED vars \/ ScheduleBurst \/ ScheduleDecode
         \/ SchedulePrefill \/ BeginStep \/ EndLaunch \/ BeginFilter \/ FilterOne
         \/ SkipChunk \/ Reclaim \/ EndStep
  PROVE  KVInv'
<1> USE DEF queueVars, batchVars, deferVars, tableVars, cacheVars, clientVars
<1>1. UNCHANGED <<req, pageRow, tokenRow, kv>>
  BY DEF Submit, BeginAdmission, vars, ScheduleBurst, ScheduleDecode, SchedulePrefill,
         DecodeBatch, BeginStep, EndLaunch, BeginFilter, FilterOne, SkipChunk, Reclaim, EndStep
<1>2. Owned' = Owned
  <2>1. CASE \E u \in Uids : Submit(u)
    <3>1. PICK u \in Uids : Submit(u)
      BY <2>1
    <3>2. u \notin submitted /\ freed' = freed \ {u}
      BY <3>1 DEF Submit
    <3>3. ~Holds(u)
      BY <3>1, <3>2 DEF PageBase, ReplyBase, LifeBase, SlotInv, AllSubmitted, Holders
    <3> QED BY <1>1, <3>2, <3>3 DEF Owned, Holds
  <2>2. CASE ~\E u \in Uids : Submit(u)
    <3>1. UNCHANGED freed
      BY <2>2 DEF BeginAdmission, vars, ScheduleBurst, ScheduleDecode, SchedulePrefill,
         DecodeBatch, BeginStep, EndLaunch, BeginFilter, FilterOne, SkipChunk, Reclaim, EndStep
    <3> QED BY <1>1, <3>1 DEF Owned, Holds
  <2> QED BY <2>1, <2>2
<1>3. KeepsPages /\ Cached(tree') \subseteq Cached(tree)
  <2>1. CASE UNCHANGED tree
    BY <2>1 DEF KeepsPages
  <2>2. CASE \E E \in EvictionSets(tree, Needed - Len(freePages)) : tree' = Evict(tree, E)
    <3>1. PICK E \in EvictionSets(tree, Needed - Len(freePages)) : tree' = Evict(tree, E)
      BY <2>2
    <3>2. E \subseteq Cached(tree) /\ ClosedBelow(tree, E)
      BY DEF EvictionSets, Evictable
    <3>3. Shape(tree) /\ IsInjective(tree.page)
      BY DEF PageInv, Holding, Places, Singly
    <3>4. /\ Cached(tree') = Cached(tree) \ E
          /\ \A q \in Cached(tree') : tree'.page[q] = tree.page[q]
      BY <3>1, <3>2, <3>3, EvictShape
    <3> QED BY <3>4 DEF KeepsPages
  <2>3. \/ UNCHANGED tree
        \/ \E E \in EvictionSets(tree, Needed - Len(freePages)) : tree' = Evict(tree, E)
    BY DEF Submit, BeginAdmission, vars, ScheduleBurst, ScheduleDecode, SchedulePrefill,
         DecodeBatch, BeginStep, EndLaunch, BeginFilter, FilterOne, SkipChunk, Reclaim, EndStep
  <2> QED BY <2>1, <2>2, <2>3
<1>4. Filed'
  BY <1>1, <1>3, KeptFiled DEF KVInv
<1>5. ASSUME NEW u \in Owned  PROVE ReadsRight(u)'
  <2>1. SamePlace(u) /\ req[u].ids \in Seq(Tokens)
    BY <1>1, OwnedFacts DEF SamePlace
  <2>2. Len(req[u].ids) <= Len(req'[u].ids)
    BY <1>1, <2>1
  <2>3. KeepsReads(u)
    BY <1>1, <1>2, <1>3, <2>1, <2>2, KeptReads DEF PageInv, Holding
  <2> QED BY <2>3 DEF KeepsReads, KVInv
<1>6. Loaded'
  <2>1. CASE UNCHANGED vars
    BY <2>1 DEF vars, KVInv, Loaded
  <2>2. CASE ScheduleBurst \/ ScheduleDecode
    <3>1. batch' = running \/ (pc # "filter" /\ batch' = batch)
      BY <2>2 DEF ScheduleBurst, ScheduleDecode, DecodeBatch
    <3>2. \A u \in Range(running) : ~req[u].chunked
      BY DEF PageBase, ReplyBase, LifeBase, LifeInv, Apart
    <3> QED BY <1>1, <3>1, <3>2 DEF KVInv, Loaded
  <2>3. CASE ~UNCHANGED vars /\ ~(ScheduleBurst \/ ScheduleDecode)
    <3>1. \/ batch' = <<>> \/ pc' = "filter"
          \/ pc # "filter" /\ UNCHANGED batch
      BY <2>3 DEF Submit, BeginAdmission, Reclaim, EndStep, SchedulePrefill, BeginFilter,
                  FilterOne, SkipChunk, Process, BeginStep, EndLaunch
    <3> QED BY <1>1, <3>1, RangeEmpty DEF KVInv, Loaded
  <2> QED BY <2>1, <2>2, <2>3
<1> QED BY <1>2, <1>4, <1>5, <1>6 DEF KVInv

-----------------------------------------------------------------------------
(* The steps that cache or free a request.                                 *)

\* two beginnings of a list agree as far as the shorter one goes
LEMMA SamePrefixes ==
  ASSUME NEW T, NEW s \in Seq(T), NEW t \in Seq(T), NEW w \in Seq(T),
         Begins(s, t), Begins(t, w)
  PROVE  \A n \in 0 .. Len(s) : SubSeq(s, 1, n) = SubSeq(w, 1, n)
<1>1. \A n \in 0 .. Len(s) : SubSeq(s, 1, n) = SubSeq(t, 1, n)
  BY BeginsPath
<1>2. \A n \in 0 .. Len(t) : SubSeq(t, 1, n) = SubSeq(w, 1, n)
  BY BeginsPath
<1>3. Len(s) <= Len(t) /\ Len(s) \in Nat /\ Len(t) \in Nat
  BY DEF Begins
<1>4. \A n \in 0 .. Len(s) : n \in 0 .. Len(t)
  BY <1>3
<1> QED BY <1>1, <1>2, <1>4

\* what cache_req files is right, and what it gives the request as its handle
\* too: nothing was cached meanwhile that the request has computed itself
CachesRight(u, finished) == /\ Filed' /\ KeepsPages
                            /\ ~finished => ReadsRight(u)'

LEMMA CacheReqKV ==
  ASSUME PageBase, Holding, Places, Filed, Alone, NEW u \in Owned, ReadsRight(u), NEW r,
         SameButIds(u, r), Begins(r.ids, Row(u)), r.chunked = req[u].chunked,
         Len(req[u].ids) <= Len(r.ids), NEW finished \in BOOLEAN,
         CacheReq(u, r, finished), UNCHANGED <<pc, pageRow, tokenRow, kv>>
  PROVE  CachesRight(u, finished)
<1> DEFINE ids == Take(r.ids, r.cached)
           m == MatchLen(tree, ids)
           row == PageRow(u)
           h == req[u].handle
           c == req[u].cached
<1>1. /\ row \in Seq(Pages) /\ Len(row) = c /\ c \in Nat
      /\ ids \in Seq(Tokens) /\ Len(ids) <= c /\ Begins(ids, r.ids) /\ Begins(h, ids)
      /\ h \in Seq(Tokens) /\ m \in Len(h) .. Len(ids)
      /\ \A k \in 1 .. Len(ids) : SubSeq(ids, 1, k) \in Cached(tree) <=> k <= m
  BY CacheReqParts DEF SameButIds, Holding, Lengths
<1>2. /\ tree' = CacheTree(tree, ids, row, h, finished)
      /\ req' = [req EXCEPT ![u] = IF finished THEN r ELSE [r EXCEPT !.handle = ids]]
  <2>1. CacheReqEffect(u, r, finished)
    BY CacheReqDoes
  <2> QED BY <2>1 DEF CacheReqEffect
<1>3. u \in Uids /\ DOMAIN req = Uids /\ Row(u) \in Seq(Tokens) /\ r.ids \in Seq(Tokens)
  <2>1. u \in Uids /\ req[u].slot \in Slots
    BY OwnedFacts
  <2> QED BY <2>1, DeferredList DEF PageBase, MirrorInv, RowTypes, Row, SameButIds
<1>4. \A n \in 0 .. Len(ids) : SubSeq(ids, 1, n) = SubSeq(Row(u), 1, n)
  BY <1>1, <1>3, SamePrefixes
<1> HIDE DEF ids, m, row, h
<1>5. /\ Cached(tree') = Cached(tree) \cup Path(ids)
      /\ \A q \in Cached(tree') :
           tree'.page[q] = IF q \in Cached(tree) THEN tree.page[q] ELSE row[Len(q)]
  <2>1. Shape(tree) /\ Len(ids) <= Len(row)
    BY <1>1 DEF Holding
  <2> QED BY <1>1, <1>2, <2>1, CacheTreeShape
<1>6. KeepsPages
  BY <1>5 DEF KeepsPages
<1>7. Len(h) \in Nat /\ Len(ids) \in Nat /\ m \in Nat /\ Len(h) <= m /\ m <= Len(ids)
  BY <1>1
<1>8. \A i \in Len(h) + 1 .. c : i \in Mine(u) /\ kv[row[i]] = SubSeq(Row(u), 1, i)
  BY DEF ReadsRight, Mine, row, h
<1>9. \A k \in 1 .. Len(ids) : SubSeq(ids, 1, k) \in Path(ids) /\ Len(SubSeq(ids, 1, k)) = k
  BY <1>1, PathFacts
<1>10. ASSUME NEW q \in Cached(tree')  PROVE kv[tree'.page[q]] = q
  <2>1. CASE q \in Cached(tree)
    BY <1>5, <2>1 DEF Filed
  <2>2. CASE q \notin Cached(tree)
    <3>1. Len(q) \in 1 .. Len(ids) /\ q = SubSeq(ids, 1, Len(q))
      BY <1>1, <1>5, <2>2, PathFacts
    <3>2. ~(Len(q) <= m)
      BY <1>1, <2>2, <3>1
    <3>3. Len(q) \in Len(h) + 1 .. c /\ Len(q) \in 0 .. Len(ids)
      BY <1>1, <1>7, <3>1, <3>2
    <3> QED BY <1>4, <1>5, <1>8, <2>2, <3>1, <3>3
  <2> QED BY <2>1, <2>2
<1>11. Filed'
  BY <1>10 DEF Filed
<1>12. m = Len(h)
  <2> SUFFICES ASSUME Len(h) < m  PROVE FALSE
    BY <1>7
  <2>1. Len(h) + 1 \in 1 .. Len(ids) /\ Len(h) + 1 <= m /\ Len(h) + 1 \in Len(h) + 1 .. c
        /\ Len(h) + 1 \in 0 .. Len(ids)
    BY <1>1, <1>7
  <2>2. SubSeq(ids, 1, Len(h) + 1) \in Cached(tree)
    BY <1>1, <2>1
  <2>3. SubSeq(ids, 1, Len(h) + 1) = SubSeq(Row(u), 1, Len(h) + 1)
    BY <1>4, <2>1
  <2> QED BY <1>8, <2>1, <2>2, <2>3 DEF Alone
<1>13. ASSUME ~finished  PROVE ReadsRight(u)'
  <2>1. /\ req'[u].slot = req[u].slot /\ req'[u].cached = c /\ req'[u].handle = ids
        /\ req'[u].chunked = req[u].chunked /\ req'[u].ids = r.ids
    BY <1>2, <1>3, <1>13 DEF SameButIds, IsReq, NoReq
  <2>2. PageRow(u)' = row /\ Row(u)' = Row(u) /\ Mine(u)' = Len(ids) + 1 .. c
    BY <2>1 DEF PageRow, Row, Mine, row
  <2>3. c <= Len(Row(u)) /\ (req[u].chunked => c <= Len(r.ids))
    <3>1. Len(req[u].ids) \in Nat /\ Len(r.ids) \in Nat
      BY <1>3, OwnedFacts
    <3> QED BY <1>1, <3>1 DEF ReadsRight
  <2>4. \A i \in Len(ids) + 1 .. c : kv[row[i]] = SubSeq(Row(u), 1, i)
    <3>1. \A i \in Len(ids) + 1 .. c : i \in Len(h) + 1 .. c
      BY <1>1, <1>7
    <3> QED BY <1>8, <3>1
  <2>5. ASSUME NEW i \in 1 .. Len(ids)  PROVE row[i] = tree'.page[SubSeq(ids, 1, i)]
    <3>1. SubSeq(ids, 1, i) \in Cached(tree')
      BY <1>5, <1>9
    <3>2. CASE i <= m
      <4>1. i \in 1 .. Len(h) /\ i \in 0 .. Len(h)
        BY <1>7, <1>12, <3>2
      <4>2. SubSeq(h, 1, i) = SubSeq(ids, 1, i)
        BY <1>1, <4>1, BeginsPath
      <4>3. row[i] = tree.page[SubSeq(h, 1, i)]
        BY <4>1 DEF ReadsRight, row, h
      <4>4. SubSeq(ids, 1, i) \in Cached(tree)
        BY <1>1, <3>2
      <4> QED BY <1>5, <3>1, <4>2, <4>3, <4>4
    <3>3. CASE ~(i <= m)
      <4>1. SubSeq(ids, 1, i) \notin Cached(tree)
        BY <1>1, <3>3
      <4> QED BY <1>5, <1>9, <3>1, <4>1
    <3> QED BY <3>2, <3>3
  <2> QED BY <2>1, <2>2, <2>3, <2>4, <2>5 DEF ReadsRight
<1> QED BY <1>6, <1>11, <1>13 DEF CachesRight

\* the record of u is replaced, the tree takes what u has computed or nothing
Hands(u, r) ==
  \/ req' = [req EXCEPT ![u] = r] /\ UNCHANGED tree
  \/ u \in Owned /\ u \notin Owned' /\ CacheReq(u, r, TRUE)
  \/ u \in Owned /\ CacheReq(u, r, FALSE)

LEMMA FreeHands ==
  ASSUME NEW u \in Holders, NEW r, FreeReqResources(u, r)  PROVE Hands(u, r)
<1>1. CASE u \in freed
  BY <1>1 DEF FreeReqResources, Hands, cacheVars
<1>2. CASE u \notin freed
  <2>1. CacheReq(u, r, TRUE) /\ u \in freed'
    BY <1>2 DEF FreeReqResources
  <2>2. u \in Owned /\ u \notin Owned'
    BY <1>2, <2>1 DEF Owned, Holders
  <2> QED BY <2>1, <2>2 DEF Hands
<1> QED BY <1>1, <1>2

LEMMA FreeOrDeferHands ==
  ASSUME NEW u \in Holders, NEW r, FreeReqResourcesOrDefer(u, r)  PROVE Hands(u, r)
BY FreeHands DEF FreeReqResourcesOrDefer, Defer, Hands, cacheVars

LEMMA CacheOrDeferHands ==
  ASSUME NEW u \in Owned, NEW r, CacheReqOrDefer(u, r)  PROVE Hands(u, r)
BY DEF CacheReqOrDefer, Defer, Hands, cacheVars

LEMMA HandKV ==
  ASSUME PageBase, PageInv, PageInv', KVInv, Alone, NEW u \in Uids, NEW r, Hands(u, r),
         u \in Owned => /\ SameButIds(u, r) /\ Begins(r.ids, Row(u))
                        /\ r.chunked = req[u].chunked
                        /\ Len(req[u].ids) <= Len(r.ids),
         Owned' \subseteq Owned, batch' = <<>>, UNCHANGED <<pc, pageRow, tokenRow, kv>>
  PROVE  KVInv'
<1>1. Loaded'
  BY RangeEmpty DEF Loaded
<1>2. DOMAIN req = Uids
  BY DeferredList
<1>3. \A v \in Uids \ {u} : req'[v] = req[v]
  BY <1>2 DEF Hands, CacheReq
<1>4. Holding /\ Places /\ Filed /\ Handles /\ Handles'
  BY DEF PageInv, Holding, KVInv
<1>5. Filed' /\ KeepsPages
  <2>1. CASE UNCHANGED tree
    BY <1>4, <2>1 DEF KeepsPages, Filed
  <2>2. ASSUME u \in Owned, NEW finished \in BOOLEAN, CacheReq(u, r, finished)
        PROVE  Filed' /\ KeepsPages
    <3>1. ReadsRight(u)
      BY <2>2 DEF KVInv
    <3>2. CachesRight(u, finished)
      BY <1>4, <2>2, <3>1, CacheReqKV
    <3> QED BY <3>2 DEF CachesRight
  <2> QED BY <2>1, <2>2 DEF Hands
<1>6. ASSUME NEW v \in Owned'  PROVE ReadsRight(v)'
  <2>1. v \in Owned /\ v \in Uids /\ ReadsRight(v)
    BY OwnedFacts DEF KVInv
  <2>2. CASE v # u
    <3>1. req'[v] = req[v] /\ req[v].ids \in Seq(Tokens)
      BY <1>3, <2>1, <2>2, OwnedFacts
    <3>2. SamePlace(v) /\ Len(req[v].ids) <= Len(req'[v].ids)
      BY <3>1 DEF SamePlace
    <3>3. KeepsReads(v)
      BY <1>4, <1>5, <2>1, <3>1, <3>2, KeptReads
    <3> QED BY <2>1, <3>3 DEF KeepsReads
  <2>3. CASE v = u /\ req' = [req EXCEPT ![u] = r]
    <3>1. req'[u] = r /\ SameButIds(u, r)
      BY <1>2, <2>1, <2>3
    <3>2. SamePlace(u) /\ req'[u].ids \in Seq(Tokens) /\ Len(req[u].ids) <= Len(req'[u].ids)
          /\ req'[u].chunked = req[u].chunked
      BY <2>1, <2>3, <3>1 DEF SamePlace, SameButIds
    <3>3. KeepsReads(u)
      BY <1>4, <1>5, <2>1, <2>3, <3>2, KeptReads
    <3> QED BY <2>1, <2>3, <3>3 DEF KeepsReads
  <2>4. CASE v = u /\ CacheReq(u, r, FALSE)
    <3>1. CachesRight(u, FALSE)
      BY <1>4, <2>1, <2>4, CacheReqKV
    <3> QED BY <2>4, <3>1 DEF CachesRight
  <2> QED BY <2>1, <2>2, <2>3, <2>4 DEF Hands
<1> QED BY <1>1, <1>5, <1>6 DEF KVInv

LEMMA StayKV ==
  ASSUME PageBase, PageInv, PageInv', KVInv, Owned' \subseteq Owned, batch' = <<>>,
         UNCHANGED <<req, tree, pageRow, tokenRow, kv>>
  PROVE  KVInv'
<1>1. KeepsPages /\ Filed' /\ Loaded'
  BY RangeEmpty DEF KeepsPages, KVInv, Filed, Loaded
<1>2. ASSUME NEW v \in Owned'  PROVE ReadsRight(v)'
  <2>1. v \in Owned /\ ReadsRight(v) /\ SamePlace(v) /\ req[v].ids \in Seq(Tokens)
    BY OwnedFacts DEF KVInv, SamePlace
  <2>2. Len(req[v].ids) <= Len(req'[v].ids)
    BY <2>1
  <2>3. KeepsReads(v)
    BY <1>1, <2>1, <2>2, KeptReads DEF PageInv, Holding
  <2> QED BY <2>1, <2>3 DEF KeepsReads
<1> QED BY <1>1, <1>2 DEF KVInv

\* the record as it is
LEMMA OwnHands ==
  ASSUME PageBase, Holding, NEW u \in Owned
  PROVE  /\ SameButIds(u, req[u]) /\ Begins(req[u].ids, Row(u))
         /\ Len(req[u].ids) <= Len(req[u].ids)
<1>1. SameButIds(u, req[u]) /\ req[u].ids \in Seq(Tokens)
  BY OwnRecord, OwnedFacts
<1>2. Begins(req[u].ids, Row(u))
  BY DEF PageBase, MirrorInv, Mirrors
<1> QED BY <1>1, <1>2

\* the record with the token that arrives
LEMMA AppendedHands ==
  ASSUME PageBase, Holding, NEW u, u = Current.uid, u \in Owned,
         NEW finished \in BOOLEAN, Deliver(finished)
  PROVE  /\ SameButIds(u, Appended) /\ Begins(Appended.ids, Row(u))
         /\ Appended.chunked = req[u].chunked
         /\ Len(req[u].ids) <= Len(Appended.ids)
<1>1. /\ u \in Holders \ Gone /\ ~req[u].chunked
      /\ Len(Prompt[u]) + Sent(u) + 1 <= req[u].device
      /\ req[u].device = Len(Row(u))
      /\ Row(u)[Len(Prompt[u]) + Sent(u) + 1] = Current.token
  BY NextToken DEF PageBase
<1>2. Process /\ Current \in Entry /\ u \in Uids
  <2>1. Process /\ u \in Uids
    BY DeliverMoves, DeferredList
  <2> QED BY <2>1, ProcessMoves, DeferredList
<1>3. SameButIds(u, Appended)
  BY <1>2, AppendedSame
<1>4. Appended.chunked = req[u].chunked /\ Appended.ids = Append(req[u].ids, Current.token)
  BY <1>2, AppendedBecomes, DeferredList
<1>5. /\ req[u].ids \in Seq(Tokens) /\ Row(u) \in Seq(Tokens) /\ Current.token \in Tokens
      /\ Begins(req[u].ids, Row(u)) /\ Len(req[u].ids) = Len(Text(u))
  <2>1. req[u].slot \in Slots /\ req[u].ids \in Seq(Tokens)
    BY OwnedFacts
  <2> QED BY <1>1, <1>2, <2>1 DEF PageBase, MirrorInv, RowTypes, Mirrors, Row, Entry
<1>6. Len(Text(u)) = Len(Prompt[u]) + Sent(u)
  BY <1>2, TextTypes DEF PageBase
<1> DEFINE s == req[u].ids
           n == Len(s)
           t == Append(s, Current.token)
           row == Row(u)
<1>7. /\ s \in Seq(Tokens) /\ row \in Seq(Tokens) /\ n \in Nat /\ Len(row) \in Nat
      /\ n + 1 <= Len(row) /\ row[n + 1] = Current.token /\ Begins(s, row)
  BY <1>1, <1>5, <1>6
<1> HIDE DEF s, row
<1>8. /\ Len(t) = n + 1 /\ \A i \in 1 .. n : t[i] = s[i]
      /\ t[n + 1] = Current.token
  BY <1>5, <1>7
<1>9. \A i \in 1 .. n : s[i] = row[i]
  BY <1>7 DEF Begins
<1> HIDE DEF t, n
<1>10. \A i \in 1 .. n + 1 : i \in 1 .. n \/ i = n + 1
  BY <1>7
<1>11. Begins(t, row)
  BY <1>7, <1>8, <1>9, <1>10 DEF Begins
<1>12. n <= Len(t)
  BY <1>7, <1>8
<1> QED BY <1>3, <1>4, <1>11, <1>12 DEF t, n, s, row

LEMMA AbortKV ==
  ASSUME PageBase, PageInv, PageInv', KVInv, Alone, NEW u \in Uids, Abort(u)
  PROVE  KVInv'
<1>1. /\ pc = "idle" /\ pc' = pc
      /\ \/ UNCHANGED <<freed, req, tree>>
         \/ Holds(u) /\ FreeReqResources(u, req[u])
      /\ UNCHANGED <<pageRow, tokenRow, kv, batch>>
  BY DEF Abort, batchVars, cacheVars
<1>2. batch' = <<>> /\ IsReq(req[u])
  <2>1. batch = <<>>
    BY <1>1, DeferredList DEF LifeInv, Phases
  <2> QED BY <1>1, <2>1, DeferredList DEF SlotInv, ReqFields
<1>3. CASE UNCHANGED <<freed, req, tree>>
  <2>1. Owned' = Owned
    BY <1>3 DEF Owned, Holds
  <2> QED BY <1>1, <1>2, <1>3, <2>1, StayKV
<1>4. CASE Holds(u) /\ FreeReqResources(u, req[u])
  <2>1. u \in Holders
    BY <1>4 DEF Holders
  <2>2. Hands(u, req[u])
    BY <1>4, <2>1, FreeHands
  <2>3. Owned' \subseteq Owned
    <3>1. u \in Owned => SameButIds(u, req[u])
      BY OwnRecord DEF PageInv
    <3> QED BY <1>1, <1>2, <1>4, <2>1, <3>1, FreePages DEF PageInv, CacheInv
  <2> QED BY <1>1, <1>2, <2>2, <2>3, OwnHands, HandKV DEF PageInv
<1> QED BY <1>1, <1>3, <1>4

LEMMA FlushKV ==
  ASSUME PageBase, PageInv, PageInv', KVInv, Alone, FlushAction  PROVE KVInv'
<1> DEFINE act == Head(deferredActions)
           A == [uid : Uids, finished : BOOLEAN]
           u == act.uid
<1>1. /\ pc = "schedule" /\ deferredActions # <<>>
      /\ \/ act.finished /\ FreeReqResources(u, req[u])
         \/ ~act.finished /\ CacheReq(u, req[u], FALSE) /\ UNCHANGED freed
      /\ UNCHANGED <<pc, pageRow, tokenRow, kv, batch>>
  BY DEF FlushAction, batchVars
<1>2. /\ act \in A /\ Range(deferredActions) = {act} \cup Range(deferredActions')
      /\ deferredActions[1] = act /\ 1 \in DOMAIN deferredActions
  <2>1. deferredActions \in Seq(A)
    BY DeferredList
  <2>2. act \in A /\ Range(deferredActions) = {act} \cup Range(Tail(deferredActions))
    BY <1>1, <2>1, HeadTail
  <2> QED BY <1>1, <2>1, <2>2 DEF FlushAction
<1>3. u \in Uids /\ u \in Holders
  BY <1>2 DEF PageBase, ReplyBase, LifeBase, SlotInv, AllHold
<1>4. ~act.finished => u \in Owned
  BY <1>2 DEF PageInv, Put, Caching
<1> HIDE DEF act, A
<1>5. batch' = <<>> /\ IsReq(req[u])
  BY <1>1, <1>3, DeferredList DEF LifeInv, Phases, SlotInv, ReqFields
<1>6. Hands(u, req[u])
  <2>1. CASE act.finished
    BY <1>1, <1>3, <2>1, FreeHands
  <2>2. CASE ~act.finished
    BY <1>1, <1>4, <2>2 DEF Hands
  <2> QED BY <2>1, <2>2
<1>7. Owned' \subseteq Owned
  <2>1. u \in Owned => SameButIds(u, req[u])
    BY OwnRecord DEF PageInv
  <2>2. CASE act.finished
    BY <1>1, <1>3, <1>5, <2>1, <2>2, FreePages DEF PageInv, CacheInv
  <2>3. CASE ~act.finished
    BY <1>1, <1>4, <2>1, <2>3, CachePages DEF PageInv, CacheInv
  <2> QED BY <2>2, <2>3
<1> QED BY <1>1, <1>3, <1>5, <1>6, <1>7, OwnHands, HandKV DEF PageInv

\* a step of process_forward_output frees nothing but what it owned
LEMMA ProcessOwns ==
  ASSUME PageBase, NEW u \in Uids, NEW r, Becomes(u, r), r.slot = req[u].slot,
         freed \subseteq freed'
  PROVE  Owned' \subseteq Owned
BY DEF Becomes, Owned, Holds

LEMMA ReleaseKV ==
  ASSUME PageBase, PageInv, PageInv', KVInv, Alone, ReleaseSuppressed,
         NEW u, u = Current.uid
  PROVE  KVInv'
<1>1. /\ Process
      /\ \/ FreeReqResourcesOrDefer(u, req[u])
         \/ UNCHANGED <<freed, req, tree>>
      /\ UNCHANGED <<pc, pageRow, tokenRow, kv, batch>>
  BY DEF ReleaseSuppressed, batchVars, cacheVars
<1>2. /\ u \in Uids /\ u \in Holders /\ batch' = <<>> /\ IsReq(req[u])
  <2>1. u \in Uids /\ u \in Holders /\ batch = <<>>
    BY <1>1, ProcessMoves, DeferredList
  <2> QED BY <1>1, <2>1, DeferredList DEF SlotInv, ReqFields
<1>3. CASE FreeReqResourcesOrDefer(u, req[u])
  <2>1. Hands(u, req[u])
    BY <1>2, <1>3, FreeOrDeferHands
  <2>2. Becomes(u, req[u]) /\ freed \subseteq freed'
    BY <1>2, <1>3, FreeOrDeferBecomes, DeferredList
  <2>3. Owned' \subseteq Owned
    BY <1>2, <2>2, ProcessOwns
  <2> QED BY <1>1, <1>2, <2>1, <2>3, OwnHands, HandKV DEF PageInv
<1>4. CASE UNCHANGED <<freed, req, tree>>
  <2>1. Owned' = Owned
    BY <1>4 DEF Owned, Holds
  <2> QED BY <1>1, <1>2, <1>4, <2>1, StayKV
<1> QED BY <1>1, <1>3, <1>4

LEMMA DeliverKV ==
  ASSUME PageBase, PageInv, PageInv', KVInv, Alone, DeliverLast \/ DeliverNext,
         NEW u, u = Current.uid
  PROVE  KVInv'
<1>1. PICK finished \in BOOLEAN : Deliver(finished)
  BY DEF DeliverLast, DeliverNext
<1>2. /\ Process /\ u \notin Gone /\ UNCHANGED <<pc, pageRow, tokenRow, kv, batch>>
  BY <1>1, DeliverMoves, DeferredList DEF Deliver, batchVars
<1>3. u \in Uids /\ u \in Holders /\ batch' = <<>>
  BY <1>2, ProcessMoves, DeferredList
<1>4. u \in Owned
  BY <1>2, <1>3, OwnedHolds DEF PageBase
<1>5. Hands(u, Appended)
  <2>1. \/ FreeReqResourcesOrDefer(u, Appended)
        \/ CacheReqOrDefer(u, Appended)
        \/ req' = [req EXCEPT ![u] = Appended] /\ UNCHANGED tree
    BY DEF DeliverLast, DeliverNext, cacheVars
  <2> QED BY <1>3, <1>4, <2>1, FreeOrDeferHands, CacheOrDeferHands DEF Hands
<1>6. Becomes(u, Appended) /\ freed \subseteq freed'
  BY DeliverBecomes, ResultFrees DEF PageBase, ReplyBase
<1>7. /\ SameButIds(u, Appended) /\ Begins(Appended.ids, Row(u))
      /\ Appended.chunked = req[u].chunked
      /\ Len(req[u].ids) <= Len(Appended.ids)
  BY <1>1, <1>4, AppendedHands DEF PageInv
<1>8. Owned' \subseteq Owned
  BY <1>3, <1>6, <1>7, ProcessOwns DEF SameButIds
<1> QED BY <1>2, <1>3, <1>5, <1>7, <1>8, HandKV

-----------------------------------------------------------------------------
(* Admission.                                                              *)

\* those that the admission of u leaves alone
LEMMA AdmitOthers ==
  ASSUME PageBase, PageInv, PageInv', KVInv, NEW u \in Uids, NEW r,
         req' = [req EXCEPT ![u] = r], tokenRow' = [tokenRow EXCEPT ![r.slot] = r.ids],
         \/ pageRow' = pageRow
         \/ \E x : pageRow' = [pageRow EXCEPT ![r.slot] = x],
         UNCHANGED kv, KeepsPages, u \in Owned', \A v \in Owned' : v \in Owned \/ v = u,
         PageBase', NEW v \in Owned', v # u
  PROVE  ReadsRight(v)'
<1>1. DOMAIN req = Uids /\ v \in Owned /\ v \in Uids
  BY DeferredList DEF Owned
<1>2. req'[v] = req[v] /\ req'[u] = r
  BY <1>1
<1>3. req[v].slot # r.slot /\ req[v].slot \in Slots
  <2>1. req'[v].slot # req'[u].slot
    BY DEF PageBase, ReplyBase, LifeBase, SlotInv, SlotsExclusive
  <2> QED BY <1>1, <1>2, <2>1, OwnedFacts
<1>4. PageRow(v)' = PageRow(v)
  BY <1>2, <1>3 DEF PageRow, PageInv, Holding, Lists
<1>5. Row(v)' = Row(v)
  BY <1>2, <1>3 DEF Row, PageBase, MirrorInv, RowTypes
<1>6. SamePlace(v) /\ ReadsSame(v) /\ req[v].ids \in Seq(Tokens)
  BY <1>1, <1>2, <1>4, <1>5, OwnedFacts DEF SamePlace, ReadsSame
<1>7. Len(req[v].ids) <= Len(req'[v].ids)
  BY <1>2, <1>6
<1>8. KeepsReads(v)
  BY <1>1, <1>2, <1>6, <1>7, SameReads DEF PageInv, Holding
<1> QED BY <1>1, <1>8 DEF KVInv, KeepsReads

LEMMA AdmitLoaded ==
  ASSUME PageBase, Loaded, NEW u \in Uids, NEW r, req' = [req EXCEPT ![u] = r],
         pc = "admit", batch' = Append(batch, u), r.chunked => r.device <= Len(r.ids)
  PROVE  Loaded'
<1>1. DOMAIN req = Uids /\ batch \in Seq(Uids)
  BY DeferredList DEF ControlTypeOK
<1>2. Range(batch') = Range(batch) \cup {u} /\ Range(batch) \subseteq Uids
  BY <1>1, RangeAppend, RangeIn
<1>3. /\ \A v \in Uids \ {u} : req'[v] = req[v]
      /\ req'[u] = r
  BY <1>1
<1> QED BY <1>2, <1>3 DEF Loaded

\* what a chunked request has computed so far is the beginning of its prompt
LEMMA ChunkRow ==
  ASSUME PageBase, NEW u \in Owned, NEW n \in Nat, n <= Len(req[u].ids),
         n <= Len(Prompt[u])
  PROVE  SubSeq(Row(u), 1, n) = SubSeq(Prompt[u], 1, n)
<1>1. /\ u \in Uids /\ req[u].ids \in Seq(Tokens) /\ Prompt[u] \in Seq(Tokens)
      /\ Text(u) \in Seq(Tokens) /\ Len(Text(u)) = Len(Prompt[u]) + Sent(u)
      /\ Sent(u) \in Nat /\ Len(Prompt[u]) \in Nat
      /\ \A i \in 1 .. Len(Prompt[u]) : Text(u)[i] = Prompt[u][i]
  BY OwnedFacts, TextTypes, PromptTypes DEF PageBase
<1>2. /\ Row(u) \in Seq(Tokens) /\ Begins(req[u].ids, Row(u)) /\ Begins(req[u].ids, Text(u))
  BY OwnedFacts DEF PageBase, MirrorInv, RowTypes, Mirrors, Row
<1>3. Begins(Prompt[u], Text(u))
  BY <1>1 DEF Begins
<1>4. n \in 0 .. Len(req[u].ids) /\ n \in 0 .. Len(Prompt[u])
  BY <1>1
<1>5. SubSeq(req[u].ids, 1, n) = SubSeq(Row(u), 1, n)
  BY <1>1, <1>2, <1>4, BeginsPath
<1>6. SubSeq(req[u].ids, 1, n) = SubSeq(Text(u), 1, n)
  BY <1>1, <1>2, <1>4, BeginsPath
<1>7. SubSeq(Prompt[u], 1, n) = SubSeq(Text(u), 1, n)
  BY <1>1, <1>3, <1>4, BeginsPath
<1> QED BY <1>5, <1>6, <1>7

LEMMA AdmitChunkKV ==
  ASSUME PageBase, PageBase', PageInv, PageInv', KVInv, AdmitChunk,
         NEW u, u = Head(pending)
  PROVE  KVInv'
<1> DEFINE r == NextReq(u, req[u].slot, req[u].cached, req[u].handle)
<1>1. /\ pending # <<>> /\ budget > 0 /\ Holds(u) /\ Add(u, r) /\ pc = "admit"
      /\ UNCHANGED <<pageRow, tree>>
  BY DEF AdmitChunk
<1>2. u \in Uids /\ u \in Owned /\ req[u].chunked /\ req[u].slot \in Slots
  BY <1>1, HeadWaits, OwnedFacts
<1>3. budget \in Int
  BY DEF PageBase, ReplyBase, CountInv, Numbers
<1>4. req[u].cached \in Nat /\ req[u].cached <= Len(Prompt[u])
  BY <1>2 DEF PageInv, Holding, Lengths, Chunks
<1>5. /\ r.slot = req[u].slot /\ r.cached = req[u].cached
      /\ r.handle = req[u].handle /\ r.device \in Int /\ r.cached <= r.device
      /\ r.device <= Len(Prompt[u]) /\ r.ids = SubSeq(Prompt[u], 1, r.device)
  BY <1>1, <1>2, <1>3, <1>4, NextReqGrows
<1> HIDE DEF r
<1>6. /\ req' = [req EXCEPT ![u] = r] /\ batch' = Append(batch, u)
      /\ tokenRow' = [tokenRow EXCEPT ![r.slot] = r.ids]
      /\ UNCHANGED <<freed, kv>>
  BY <1>1 DEF Add, deferVars
<1>7. DOMAIN req = Uids
  BY DeferredList
<1>8. /\ \A v \in Uids \ {u} : req'[v] = req[v]
      /\ req'[u] = r
  BY <1>2, <1>6, <1>7
<1>9. Owned' = Owned
  BY <1>5, <1>6, <1>8 DEF Owned, Holds
<1>10. KeepsPages /\ Filed'
  BY <1>1, <1>6 DEF KeepsPages, KVInv, Filed
<1>11. Prompt[u] \in Seq(Tokens) /\ Len(Prompt[u]) \in Nat
  BY <1>2, PromptTypes
<1>12. r.ids \in Seq(Tokens) /\ Len(r.ids) = r.device
  BY <1>4, <1>5, <1>11
<1>13. Loaded'
  <2>1. r.device <= Len(r.ids)
    BY <1>5, <1>12
  <2> QED BY <1>1, <1>2, <1>6, <2>1, AdmitLoaded DEF KVInv
<1>14. ReadsRight(u)'
  <2>1. Row(u)' = r.ids
    BY <1>2, <1>5, <1>6, <1>8 DEF Row, PageBase, MirrorInv, RowTypes
  <2>2. PageRow(u)' = PageRow(u) /\ Mine(u)' = Mine(u)
    BY <1>1, <1>5, <1>8 DEF PageRow, Mine
  <2>3. req[u].cached <= Len(req[u].ids) /\ Len(req[u].ids) \in Nat
        /\ Len(req[u].handle) \in Nat
    BY <1>2, OwnedFacts DEF KVInv, ReadsRight, PageInv, Holding, Handles
  <2>4. ASSUME NEW i \in Mine(u)
        PROVE  kv[PageRow(u)[i]] = SubSeq(r.ids, 1, i)
    <3>1. i \in Nat /\ i <= Len(req[u].ids) /\ i <= Len(Prompt[u]) /\ i <= r.device
      BY <1>4, <1>5, <1>11, <2>3 DEF Mine
    <3>2. SubSeq(Row(u), 1, i) = SubSeq(Prompt[u], 1, i)
      BY <1>2, <3>1, ChunkRow
    <3>3. SubSeq(r.ids, 1, i) = SubSeq(Prompt[u], 1, i)
      <4>1. /\ r.device \in 0 .. Len(Prompt[u])
            /\ i \in 1 .. r.device \/ i = 0
        BY <1>5, <1>11, <3>1
      <4> QED BY <1>5, <1>11, <3>1, <4>1
    <3> QED BY <1>2, <3>2, <3>3 DEF KVInv, ReadsRight
  <2>5. /\ req'[u].cached = req[u].cached /\ req'[u].handle = req[u].handle
        /\ req'[u].ids = r.ids /\ req[u].cached <= Len(r.ids)
    BY <1>5, <1>8, <1>12
  <2> QED BY <1>1, <1>2, <1>6, <2>1, <2>2, <2>4, <2>5 DEF KVInv, ReadsRight
<1>15. ASSUME NEW v \in Owned', v # u  PROVE ReadsRight(v)'
  BY <1>1, <1>2, <1>6, <1>9, <1>10, <1>15, AdmitOthers
<1> QED BY <1>10, <1>13, <1>14, <1>15 DEF KVInv

LEMMA AdmitNewKV ==
  ASSUME PageBase, PageBase', PageInv, PageInv', KVInv, AdmitNew,
         NEW u, u = Head(pending)
  PROVE  KVInv'
<1> DEFINE h == Matched(u)
           slot == BackSlot
           r == NextReq(u, slot, Len(h), h)
<1>1. /\ pending # <<>> /\ budget > 0 /\ ~Holds(u) /\ freeSlots # <<>> /\ pc = "admit"
      /\ Add(u, r)
      /\ tree' = Lock(tree, h)
      /\ pageRow' = [pageRow EXCEPT ![slot] = PagesOf(tree, h)]
  BY DEF AdmitNew, Admissible
<1>2. u \in Uids /\ u \notin freed
  BY <1>1, HeadWaits
<1>3. slot \in Slots
  <2>1. freeSlots \in Seq(Slots)
    BY DEF PageBase, ReplyBase, LifeBase, SlotInv, ControlTypeOK
  <2> QED BY <1>1, <2>1 DEF BackSlot
<1>4. budget \in Int
  BY DEF PageBase, ReplyBase, CountInv, Numbers
<1> HIDE DEF slot
<1>5. /\ h \in Seq(Tokens) /\ Path(h) \subseteq Cached(tree)
      /\ Len(h) \in Nat /\ Len(h) < Len(Prompt[u])
  BY <1>2, MatchedIsCached, MatchedLen DEF PageInv, Holding
<1> HIDE DEF h
<1>6. Len(Prompt[u]) \in Nat /\ Prompt[u] \in Seq(Tokens)
  BY <1>2, PromptTypes
<1>7. /\ r.slot = slot /\ r.cached = Len(h) /\ r.handle = h
      /\ r.device \in Int /\ Len(h) <= r.device /\ r.device <= Len(Prompt[u])
      /\ r.ids = SubSeq(Prompt[u], 1, r.device)
  BY <1>1, <1>2, <1>4, <1>5, <1>6, NextReqGrows
<1> HIDE DEF r
<1>8. /\ req' = [req EXCEPT ![u] = r] /\ batch' = Append(batch, u)
      /\ tokenRow' = [tokenRow EXCEPT ![r.slot] = r.ids]
      /\ UNCHANGED <<freed, kv>>
  BY <1>1 DEF Add, deferVars
<1>9. DOMAIN req = Uids /\ slot # NoSlot
  BY <1>3, SchedulerAssumption, DeferredList DEF Slots, NoSlot
<1>10. /\ \A v \in Uids \ {u} : req'[v] = req[v]
       /\ req'[u] = r
  BY <1>2, <1>8, <1>9
<1>11. Owned' = Owned \cup {u}
  BY <1>1, <1>2, <1>7, <1>8, <1>9, <1>10 DEF Owned, Holds
<1>12. Cached(tree') = Cached(tree) /\ tree'.page = tree.page
  <2>1. Shape(tree) /\ tree' = Shift(tree, h, 1)
    BY <1>1 DEF PageInv, Holding, Lock
  <2> QED BY <2>1, ShiftShape
<1>13. KeepsPages /\ Filed'
  BY <1>8, <1>12 DEF KeepsPages, KVInv, Filed
<1>14. Len(r.ids) = r.device
  BY <1>5, <1>6, <1>7
<1>15. Loaded'
  <2>1. r.device <= Len(r.ids)
    BY <1>7, <1>14
  <2> QED BY <1>1, <1>2, <1>8, <2>1, AdmitLoaded DEF KVInv
<1>16. ReadsRight(u)'
  <2>1. Row(u)' = r.ids
    BY <1>3, <1>7, <1>8, <1>10 DEF Row, PageBase, MirrorInv, RowTypes
  <2>2. PageRow(u)' = PagesOf(tree, h)
    BY <1>1, <1>3, <1>7, <1>10 DEF PageRow, PageInv, Holding, Lists
  <2>3. Mine(u)' = {}
    BY <1>5, <1>7, <1>10 DEF Mine
  <2>4. \A i \in 1 .. Len(h) : PagesOf(tree, h)[i] = tree.page[SubSeq(h, 1, i)]
    BY DEF PagesOf
  <2>5. /\ req'[u].cached = Len(h) /\ req'[u].handle = h /\ req'[u].ids = r.ids
        /\ Len(h) <= Len(r.ids)
    BY <1>7, <1>10, <1>14
  <2> QED BY <1>12, <2>1, <2>2, <2>3, <2>4, <2>5 DEF ReadsRight
<1>17. ASSUME NEW v \in Owned', v # u  PROVE ReadsRight(v)'
  <2>1. \E x : pageRow' = [pageRow EXCEPT ![r.slot] = x]
    BY <1>1, <1>7
  <2> QED BY <1>2, <1>8, <1>11, <1>13, <1>17, <2>1, AdmitOthers
<1> QED BY <1>13, <1>15, <1>16, <1>17 DEF KVInv


-----------------------------------------------------------------------------
(* A launch: the forward fills the pages it was given.                     *)

\* the pages of the new positions hold the row's prefixes, and only free pages
\* are written
WritesRow(u, c, d) ==
  /\ \A i \in c + 1 .. d : kv'[PageRow(u)'[i]] = SubSeq(Row(u), 1, i)
  /\ \A p \in Pages : p \notin Range(Stock) => kv'[p] = kv[p]

LEMMA LaunchWrites ==
  ASSUME PageBase, PageInv, LaunchOne, NEW u, u = Head(batch)
  PROVE  WritesRow(u, req[u].cached, req[u].device)
<1> DEFINE c == req[u].cached
           d == req[u].device
           row == SubSeq(pageRow[req[u].slot], 1, c) \o SubSeq(freePages, 1, d - c)
<1>1. /\ u \in Owned /\ pc = "launch" /\ req[u].slot \in Slots
  BY LaunchOwns, OwnedFacts
<1>2. /\ c \in Nat /\ d \in Nat /\ c <= d /\ d - c <= Len(freePages)
      /\ freePages \in Seq(Pages)
      /\ \A i \in 1 .. d : PageRow(u)'[i] = IF i <= c THEN PageRow(u)[i]
                                            ELSE freePages[i - c]
      /\ pageRow' = [pageRow EXCEPT ![req[u].slot] = PageRow(u)']
  <2>1. LaunchesRow(u, c, d)
    BY LaunchRow DEF PageInv, Holding
  <2> QED BY <2>1 DEF LaunchesRow
<1>3. /\ pageRow' = [pageRow EXCEPT ![req[u].slot] = row]
      /\ kv' = [p \in Pages |->
                  IF \E i \in c + 1 .. d : row[i] = p
                  THEN LET i == CHOOSE j \in c + 1 .. d : row[j] = p
                       IN  SubSeq(tokenRow[req[u].slot], 1, i)
                  ELSE kv[p]]
  BY DEF LaunchOne, ExtendLen
<1>4. row = PageRow(u)'
  BY <1>1, <1>2, <1>3 DEF PageInv, Holding, Lists
<1> HIDE DEF row, c, d
<1>5. Stock = freePages
  <2>1. lazyFree = <<>>
    BY <1>1 DEF PageInv, Holding, Lists
  <2> QED BY <1>2, <2>1, ConcatEmptySeq DEF Stock
<1>6. \A i \in c + 1 .. d : /\ i \in 1 .. d /\ ~(i <= c) /\ i - c \in 1 .. Len(freePages)
                            /\ i \in Int
  BY <1>2
<1>7. \A i \in c + 1 .. d : row[i] = freePages[i - c] /\ row[i] \in Pages
                            /\ row[i] \in Range(Stock)
  BY <1>2, <1>4, <1>5, <1>6 DEF Range
<1>8. \A i, j \in c + 1 .. d : row[i] = row[j] => i = j
  <2>1. \A i, j \in 1 .. Len(freePages) : freePages[i] = freePages[j] => i = j
    BY <1>2, <1>5 DEF PageInv, Places, Singly, IsInjective
  <2> SUFFICES ASSUME NEW i \in c + 1 .. d, NEW j \in c + 1 .. d, row[i] = row[j]
               PROVE  i = j
    OBVIOUS
  <2>2. i - c = j - c
    BY <1>6, <1>7, <2>1
  <2> QED BY <1>2, <1>6, <2>2
<1>9. ASSUME NEW i \in c + 1 .. d
      PROVE  kv'[row[i]] = SubSeq(Row(u), 1, i)
  <2>1. (CHOOSE j \in c + 1 .. d : row[j] = row[i]) = i
    BY <1>8
  <2> QED BY <1>3, <1>7, <2>1 DEF Row
<1>10. ASSUME NEW p \in Pages, p \notin Range(Stock)
       PROVE  kv'[p] = kv[p]
  BY <1>3, <1>7, <1>10
<1> QED BY <1>4, <1>9, <1>10 DEF WritesRow, c, d

\* the row of a request that is launched has all that is launched of it
LEMMA LaunchCovers ==
  ASSUME PageBase, PageInv, Loaded, LaunchOne, NEW u, u = Head(batch)
  PROVE  req[u].device <= Len(Row(u))
<1> DEFINE d == req[u].device
           r == req[u]
<1>1. /\ u \in Owned /\ u \notin Gone /\ u \in Uids /\ u \in Holders /\ pc = "launch"
      /\ u \in Range(batch) /\ req[u].slot \in Slots /\ req[u].ids \in Seq(Tokens)
  BY LaunchOwns, OwnedFacts
<1>2. Row(u) \in Seq(Tokens) /\ Begins(r.ids, Row(u))
  BY <1>1 DEF Row, PageBase, MirrorInv, RowTypes, Mirrors
<1>3. d \in Nat
  BY <1>1, OwnedFacts DEF PageInv, Holding, Lengths
<1>4. CASE r.chunked
  <2>1. d <= Len(r.ids)
    BY <1>1, <1>4 DEF Loaded
  <2> QED BY <1>1, <1>2, <1>3, <2>1 DEF Begins
<1>5. CASE ~r.chunked
  <2>1. Len(Row(u)) = d
    BY <1>1, <1>5 DEF PageBase, MirrorInv, Ahead
  <2> QED BY <1>3, <2>1
<1> QED BY <1>4, <1>5

\* the row the device continues: at least as long as what is computed, and
\* what is computed stays
LaunchGrows(u, d) ==
  /\ d <= Len(Row(u)) /\ d <= Len(Row(u)')
  /\ \A i \in 0 .. d : SubSeq(Row(u)', 1, i) = SubSeq(Row(u), 1, i)
  /\ \A v \in Owned : v # u => Row(v)' = Row(v)

LEMMA LaunchText ==
  ASSUME PageBase, PageInv, KVInv, LaunchOne, NEW u, u = Head(batch)
  PROVE  LaunchGrows(u, req[u].device)
<1> DEFINE d == req[u].device
           r == req[u]
<1>1. /\ u \in Owned /\ u \notin Gone /\ u \in Uids /\ u \in Holders /\ pc = "launch"
      /\ u \in Range(batch) /\ req[u].slot \in Slots /\ req[u].ids \in Seq(Tokens)
  BY LaunchOwns, OwnedFacts
<1>2. Row(u) \in Seq(Tokens) /\ Begins(r.ids, Row(u))
  BY <1>1 DEF Row, PageBase, MirrorInv, RowTypes, Mirrors
<1>3. d \in Nat
  BY <1>1, OwnedFacts DEF PageInv, Holding, Lengths
<1>4. d <= Len(Row(u))
  BY LaunchCovers DEF KVInv
<1>5. /\ \A v \in Owned : v \in Uids /\ req[v].slot \in Slots
                          /\ req'[v].slot = req[v].slot
  <2>1. req' = [req EXCEPT ![u] = CompleteOne(req[u])] /\ DOMAIN req = Uids
    BY LaunchOwns, DeferredList
  <2>2. CompleteOne(req[u]).slot = req[u].slot
    BY <1>1, OwnedFacts, CompleteOneKeeps
  <2> QED BY <1>1, <2>1, <2>2, OwnedFacts
<1>6. tokenRow \in [Slots -> Seq(Tokens)]
  BY DEF PageBase, MirrorInv, RowTypes
<1>7. PICK t \in Tokens : \/ tokenRow' = tokenRow
                          \/ tokenRow' = [tokenRow EXCEPT ![r.slot] =
                                            Append(SubSeq(@, 1, d), t)]
  BY SchedulerAssumption DEF LaunchOne
<1> HIDE DEF d
<1>8. \A v \in Owned : v # u => Row(v)' = Row(v)
  <2>1. \A v \in Owned : v # u => req[v].slot # req[u].slot
    BY <1>1, SlotsDiffer
  <2> QED BY <1>1, <1>5, <1>6, <1>7, <2>1 DEF Row
<1>9. d <= Len(Row(u)') /\ \A i \in 0 .. d : SubSeq(Row(u)', 1, i) = SubSeq(Row(u), 1, i)
  <2>1. CASE tokenRow' = tokenRow
    <3>1. Row(u)' = Row(u)
      BY <1>1, <1>5, <2>1 DEF Row
    <3> QED BY <1>4, <3>1
  <2>2. CASE tokenRow' = [tokenRow EXCEPT ![r.slot] = Append(SubSeq(@, 1, d), t)]
    <3>1. Row(u)' = Append(SubSeq(Row(u), 1, d), t)
      BY <1>1, <1>5, <1>6, <2>2 DEF Row
    <3>2. ASSUME NEW s \in Seq(Tokens), d <= Len(s)
          PROVE  /\ Append(SubSeq(s, 1, d), t) \in Seq(Tokens)
                 /\ Len(Append(SubSeq(s, 1, d), t)) = d + 1
                 /\ \A i \in 1 .. d : Append(SubSeq(s, 1, d), t)[i] = s[i]
      BY <1>3, <3>2
    <3> DEFINE w == Append(SubSeq(Row(u), 1, d), t)
               x == SubSeq(Row(u), 1, d)
    <3>3. /\ w \in Seq(Tokens) /\ Len(w) = d + 1
          /\ \A i \in 1 .. d : w[i] = Row(u)[i]
      BY <1>2, <1>4, <3>2, Zenon
    <3>4. x \in Seq(Tokens) /\ Len(x) = d /\ \A i \in 1 .. d : x[i] = Row(u)[i]
      BY <1>2, <1>3, <1>4
    <3> HIDE DEF w, x
    <3>5. Begins(x, w) /\ Begins(x, Row(u))
      BY <1>3, <1>4, <3>3, <3>4 DEF Begins
    <3>6. \A i \in 0 .. d : SubSeq(x, 1, i) = SubSeq(w, 1, i)
      BY <3>3, <3>4, <3>5, BeginsPath
    <3>7. \A i \in 0 .. d : SubSeq(x, 1, i) = SubSeq(Row(u), 1, i)
      BY <1>2, <3>4, <3>5, BeginsPath
    <3>8. Row(u)' = w
      BY <3>1 DEF w
    <3> QED BY <1>3, <3>3, <3>6, <3>7, <3>8
  <2> QED BY <1>7, <2>1, <2>2
<1> QED BY <1>4, <1>8, <1>9 DEF LaunchGrows, d

LEMMA LaunchKV ==
  ASSUME PageBase, PageBase', PageInv, PageInv', KVInv, LaunchOne, NEW u, u = Head(batch)
  PROVE  KVInv'
<1> DEFINE c == req[u].cached
           d == req[u].device
<1>0. c = req[u].cached /\ d = req[u].device
  OBVIOUS
<1>1. /\ u \in Owned /\ u \in Uids /\ pc = "launch" /\ u \in Range(batch) /\ IsReq(req[u])
      /\ req' = [req EXCEPT ![u] = CompleteOne(req[u])]
      /\ UNCHANGED <<pc, freed, lazyFree, tree>>
  BY LaunchOwns, OwnedFacts
<1>2. /\ c \in Nat /\ d \in Nat /\ c <= d
      /\ \A i \in 1 .. d : PageRow(u)'[i] = IF i <= c THEN PageRow(u)[i]
                                            ELSE freePages[i - c]
      /\ pageRow' = [pageRow EXCEPT ![req[u].slot] = PageRow(u)']
      /\ req'[u].slot = req[u].slot /\ req'[u].handle = req[u].handle
      /\ req'[u].cached = d /\ req'[u].ids = req[u].ids
  <2>1. LaunchesRow(u, c, d)
    BY LaunchRow DEF PageInv, Holding
  <2> QED BY <2>1 DEF LaunchesRow
<1>3. /\ \A i \in c + 1 .. d : kv'[PageRow(u)'[i]] = SubSeq(Row(u), 1, i)
      /\ \A p \in Pages : p \notin Range(Stock) => kv'[p] = kv[p]
  <2>1. WritesRow(u, c, d)
    BY LaunchWrites
  <2> QED BY <2>1 DEF WritesRow
<1>4. /\ d <= Len(Row(u)) /\ d <= Len(Row(u)')
      /\ \A i \in 0 .. d : SubSeq(Row(u)', 1, i) = SubSeq(Row(u), 1, i)
      /\ \A v \in Owned : v # u => Row(v)' = Row(v)
  <2>1. LaunchGrows(u, d)
    BY LaunchText
  <2> QED BY <2>1 DEF LaunchGrows
<1>5. DOMAIN req = Uids
  BY DeferredList
<1>6. /\ \A v \in Uids \ {u} : req'[v] = req[v]
      /\ req'[u].chunked = req[u].chunked
  BY <1>1, <1>5, CompleteOneKeeps
<1>7. Owned' = Owned /\ Owned \subseteq Uids
  BY <1>1, <1>2, <1>6 DEF Owned, Holds
<1>8. /\ \A v \in Owned : Private(v) \subseteq Pages /\ Private(v) \cap Range(Stock) = {}
      /\ Range(tree.page) \subseteq Pages /\ Range(tree.page) \cap Range(Stock) = {}
  <2>1. \A v \in Owned : Private(v) \subseteq Pages
    <3> TAKE v \in Owned
    <3>1. /\ PageRow(v) \in Seq(Pages) /\ Len(PageRow(v)) = req[v].cached
          /\ Len(req[v].handle) \in Nat /\ req[v].cached \in Nat
      BY OwnedFacts DEF PageRow, PageInv, Holding, Lists, Lengths, Handles
    <3> QED BY <3>1 DEF Private, Mine
  <2>2. Range(tree.page) \subseteq Pages
    BY DEF PageInv, Holding, Shape, Range
  <2> QED BY <2>1, <2>2 DEF PageInv, Places, Disjoint
<1> HIDE DEF c, d
<1>9. Filed'
  <2>1. \A q \in Cached(tree) : tree.page[q] \in Range(tree.page)
    BY DEF PageInv, Holding, Shape, Cached, Range
  <2> QED BY <1>1, <1>3, <1>8, <2>1 DEF KVInv, Filed
<1>10. ASSUME NEW v \in Owned, v # u  PROVE ReadsRight(v)'
  <2>1. v \in Uids /\ req'[v] = req[v] /\ req[v].slot # req[u].slot /\ req[v].slot \in Slots
        /\ req[v].ids \in Seq(Tokens)
    BY <1>1, <1>6, <1>10, OwnedFacts, SlotsDiffer
  <2>2. PageRow(v)' = PageRow(v) /\ Row(v)' = Row(v)
    BY <1>2, <1>4, <1>10, <2>1 DEF PageRow, PageInv, Holding, Lists
  <2>3. \A i \in Mine(v) : kv'[PageRow(v)[i]] = kv[PageRow(v)[i]]
    BY <1>3, <1>8 DEF Private
  <2>4. SamePlace(v) /\ ReadsSame(v) /\ KeepsPages
    BY <1>1, <2>1, <2>2, <2>3 DEF SamePlace, ReadsSame, KeepsPages
  <2>5. Len(req[v].ids) <= Len(req'[v].ids)
    BY <2>1
  <2>6. KeepsReads(v)
    BY <1>7, <2>1, <2>4, <2>5, SameReads DEF PageInv, Holding
  <2> QED BY <2>6 DEF KVInv, KeepsReads
<1>11. ReadsRight(u)'
  <2>1. /\ Len(req[u].handle) \in Nat /\ Len(req[u].handle) <= c
    BY <1>0, <1>1 DEF PageInv, Holding, Lengths, Handles
  <2>2. req[u].chunked => d <= Len(req[u].ids)
    BY <1>0, <1>1 DEF KVInv, Loaded
  <2>3. Mine(u) = Len(req[u].handle) + 1 .. c /\ Mine(u)' = Len(req[u].handle) + 1 .. d
    BY <1>0, <1>2 DEF Mine
  <2>4. ASSUME NEW i \in Mine(u)'
        PROVE  kv'[PageRow(u)'[i]] = SubSeq(Row(u)', 1, i)
    <3>1. /\ i \in 0 .. d /\ i \in 1 .. d
          /\ i <= c => i \in Mine(u)
          /\ ~(i <= c) => i \in c + 1 .. d
      BY <1>2, <2>1, <2>3
    <3>2. kv'[PageRow(u)'[i]] = SubSeq(Row(u), 1, i)
      <4>1. CASE i <= c
        <5>1. PageRow(u)'[i] = PageRow(u)[i] /\ kv[PageRow(u)[i]] = SubSeq(Row(u), 1, i)
              /\ PageRow(u)[i] \in Private(u)
          BY <1>1, <1>2, <3>1, <4>1 DEF KVInv, ReadsRight, Private
        <5> QED BY <1>1, <1>3, <1>8, <5>1
      <4>2. CASE ~(i <= c)
        BY <1>3, <3>1, <4>2
      <4> QED BY <4>1, <4>2
    <3> QED BY <1>4, <3>1, <3>2
  <2>5. ASSUME NEW i \in 1 .. Len(req[u].handle)
        PROVE  PageRow(u)'[i] = tree.page[SubSeq(req[u].handle, 1, i)]
    <3>1. i \in 1 .. d /\ i <= c
      BY <1>2, <2>1
    <3> QED BY <1>1, <1>2, <3>1 DEF KVInv, ReadsRight
  <2> QED BY <1>1, <1>2, <1>4, <1>6, <2>2, <2>4, <2>5 DEF ReadsRight
<1>12. Loaded'
  <2>1. u \notin Range(batch') /\ Range(batch) = {u} \cup Range(batch')
    BY LaunchMoves DEF PageBase, ReplyBase, LifeBase
  <2>2. Range(batch) \subseteq Uids
    BY DeferredList, RangeIn DEF ControlTypeOK
  <2> QED BY <1>1, <1>6, <2>1, <2>2 DEF KVInv, Loaded
<1> QED BY <1>7, <1>9, <1>10, <1>11, <1>12 DEF KVInv


-----------------------------------------------------------------------------
(* The invariant of the contents, under Alone.                             *)

LEMMA KVInit == Init => KVInv
<1> SUFFICES ASSUME Init  PROVE KVInv
  OBVIOUS
<1>1. Owned = {} /\ Cached(tree) = {}
  BY DEF Init, Owned, Holds, NoReq, EmptyTree, Cached
<1>2. Range(batch) = {}
  BY RangeEmpty DEF Init
<1> QED BY <1>1, <1>2 DEF KVInv, Filed, Loaded

LEMMA KVStep ==
  ASSUME PageBase, PageBase', PageInv, PageInv', KVInv, Alone, [Next]_vars
  PROVE  KVInv'
<1>1. ASSUME NEW u \in Uids, Submit(u) \/ Abort(u)  PROVE KVInv'
  <2>1. CASE Submit(u)
    BY <2>1, QuietKV
  <2>2. CASE Abort(u)
    BY <2>2, AbortKV
  <2> QED BY <1>1, <2>1, <2>2
<1>2. CASE Step
  <2>1. CASE ReleaseSuppressed  BY <2>1, ReleaseKV
  <2>2. CASE DeliverLast \/ DeliverNext  BY <2>2, DeliverKV
  <2>3. CASE AdmitChunk  BY <2>3, AdmitChunkKV
  <2>4. CASE AdmitNew  BY <2>4, AdmitNewKV
  <2>5. CASE LaunchOne  BY <2>5, LaunchKV
  <2>6. CASE FlushAction  BY <2>6, FlushKV
  <2> QED BY <1>2, <2>1, <2>2, <2>3, <2>4, <2>5, <2>6, QuietKV DEF Step
<1>3. CASE UNCHANGED vars
  BY <1>3, QuietKV
<1> QED BY <1>1, <1>2, <1>3 DEF Next, Wait

\* what a request reads at a position is its own text up to there
LEMMA ReadsOwn ==
  ASSUME PageBase, PageInv, KVInv, NEW u \in Owned, NEW i \in 1 .. req[u].cached
  PROVE  kv[PageRow(u)[i]] = SubSeq(Row(u), 1, i)
<1>1. /\ req[u].cached \in Nat /\ Len(req[u].handle) \in Nat
      /\ req[u].handle \in Seq(Tokens) /\ req[u].ids \in Seq(Tokens)
      /\ Begins(req[u].handle, req[u].ids) /\ Path(req[u].handle) \subseteq Cached(tree)
  BY OwnedFacts DEF PageInv, Holding, Lengths, Handles
<1>2. Row(u) \in Seq(Tokens) /\ Begins(req[u].ids, Row(u))
  BY OwnedFacts DEF Row, PageBase, MirrorInv, RowTypes, Mirrors
<1>3. CASE i \in Mine(u)
  BY <1>3 DEF KVInv, ReadsRight
<1>4. CASE i \notin Mine(u)
  <2>1. i \in 1 .. Len(req[u].handle) /\ i \in 0 .. Len(req[u].handle)
    BY <1>1, <1>4 DEF Mine
  <2>2. SubSeq(req[u].handle, 1, i) \in Cached(tree)
    BY <1>1, <2>1, PathFacts
  <2>3. kv[PageRow(u)[i]] = SubSeq(req[u].handle, 1, i)
    BY <2>1, <2>2 DEF KVInv, Filed, ReadsRight
  <2>4. SubSeq(req[u].handle, 1, i) = SubSeq(Row(u), 1, i)
    BY <1>1, <1>2, <2>1, SamePrefixes
  <2> QED BY <2>3, <2>4
<1> QED BY <1>3, <1>4

(* Attention reads, at every position a request has computed, the key and  *)
(* value of its own token after its own prefix, and the cache files every  *)
(* page under what it holds, in every behaviour in which no request        *)
(* computes a prefix that another one has put in the cache meanwhile. That *)
(* is the one way the contents go wrong: cache_req gives such a request    *)
(* back the duplicates of its pages and leaves its row pointing at them.   *)
THEOREM KVRight == Safe => (Spec /\ []Alone => []KVCoherent)
<1> SUFFICES ASSUME Safe  PROVE Spec /\ []Alone => []KVCoherent
  OBVIOUS
<1>1. PageBase /\ PageInv /\ KVInv => KVCoherent
  BY ReadsOwn DEF KVCoherent, KVInv, Filed, PageRow, Row
<1>2. Init => KVInv
  BY KVInit
<1>3. PageBase /\ PageInv /\ (PageBase /\ PageInv)' /\ KVInv /\ Alone /\ [Next]_vars => KVInv'
  BY KVStep
<1>4. Spec => [](PageBase /\ PageInv)
  BY PagesAlways
<1> QED BY <1>1, <1>2, <1>3, <1>4, PTL DEF Spec

-----------------------------------------------------------------------------
(* What becomes of everything that is given out.                           *)

\* the last token of u is in s
LastIn(s, u) == \E e \in Final(s) : e.uid = u /\ ~e.canDecode

\* u waits, runs or is in the batch, or its freeing is put off, or a result to
\* come will free it
HasPlace(u) ==
  \/ u \in Waiting \cup Range(running) \cup Range(batch)
  \/ u \in Freeing \cup suppressed
  \/ pc = "launch" /\ u \in UidsIn(launched)
  \/ LastIn(prev, u) \/ LastIn(flight, u) \/ LastIn(launched, u)

\* nobody is forgotten, and one in the middle of its prompt waits for the rest
Remembered == \A u \in Owned : HasPlace(u) /\ (req[u].chunked => u \in Waiting)

\* what is suppressed is freed with the result that is on its way
Released ==
  /\ suppressed = deferredFree
  /\ suppressed \subseteq Answering(flight) \cup Answering(prev)

\* a forward that ends a prompt is one whose result is looked at
AsAsked ==
  \A e \in Range(flight) \cup Range(launched) : ~req[e.uid].chunked => ~e.chunked

\* who is dropped from the running ones has its last token launched
HasRoom(u) == RemainLen(req[u]) > 0 \/ u \in UidsIn(launched)
Dropped ==
  /\ pc = "launch" => \A u \in Range(running) : HasRoom(u)
  /\ pc = "filter" => \A u \in Range(batch) : HasRoom(u)

\* no slot is lost
SlotsKnown == \A s \in Slots : s \in Range(freeSlots) \/ \E u \in Owned : req[u].slot = s

AccountInv == Remembered /\ Released /\ AsAsked /\ Dropped /\ SlotsKnown

LEMMA EntryUids ==
  ASSUME PageBase
  PROVE  \A e \in Range(flight) \cup Range(launched) : e.uid \in Uids
<1>1. flight \in Seq(Entry) /\ launched \in Seq(Entry)
  BY DeferredList DEF ControlTypeOK
<1>2. Range(flight) \subseteq Entry /\ Range(launched) \subseteq Entry
  BY <1>1, RangeIn
<1>3. \A e \in Entry : e.uid \in Uids
  BY DEF Entry
<1> QED BY <1>2, <1>3

LEMMA SlotsStay ==
  ASSUME SlotsKnown, \A u \in Uids : req'[u].slot = req[u].slot,
         UNCHANGED <<freed, freeSlots>>
  PROVE  SlotsKnown' /\ Owned' = Owned
<1>1. Owned' = Owned
  BY DEF Owned, Holds
<1>2. Owned \subseteq Uids
  BY DEF Owned
<1> QED BY <1>1, <1>2 DEF SlotsKnown

LEMMA FreeSlot ==
  ASSUME PageBase, SlotsKnown, NEW u \in Holders, NEW r, IsReq(r), r.slot = req[u].slot,
         FreeReqResources(u, r)
  PROVE  SlotsKnown' /\ Owned' = Owned \ {u} /\ Becomes(u, r)
<1>1. u \in Uids /\ Holds(u)
  BY DEF Holders
<1>2. Becomes(u, r) /\ freed' = freed \cup {u}
  BY <1>1, FreeBecomes, DeferredList
<1>3. Owned' = Owned \ {u}
  BY <1>1, <1>2 DEF Becomes, Owned, Holds
<1>4. \A v \in Uids : req'[v].slot = req[v].slot
  BY <1>2 DEF Becomes
<1>5. CASE u \in freed
  <2>1. UNCHANGED <<freed, freeSlots>>
    BY <1>5 DEF FreeReqResources
  <2> QED BY <1>2, <1>3, <1>4, <2>1, SlotsStay
<1>6. CASE u \notin freed
  <2>1. freeSlots' = Append(freeSlots, req[u].slot)
    BY <1>6 DEF FreeReqResources
  <2>2. freeSlots \in Seq(Slots) /\ req[u].slot \in Slots
    BY <1>1, DeferredList DEF ControlTypeOK, Holds
  <2>3. Range(freeSlots') = Range(freeSlots) \cup {req[u].slot}
    BY <2>1, <2>2, RangeAppend
  <2>4. \A v \in Owned : v = u \/ (v \in Owned' /\ req'[v].slot = req[v].slot)
    BY <1>3, <1>4 DEF Owned
  <2> QED BY <1>2, <1>3, <2>3, <2>4 DEF SlotsKnown
<1> QED BY <1>5, <1>6

\* whoever is let go of is freed or in Freeing
LEMMA FreeOrDeferSlot ==
  ASSUME PageBase, SlotsKnown, NEW u \in Holders, NEW r, IsReq(r), r.slot = req[u].slot,
         FreeReqResourcesOrDefer(u, r)
  PROVE  /\ SlotsKnown' /\ Becomes(u, r)
         /\ Owned' \subseteq Owned /\ Freeing \subseteq Freeing'
         /\ u \in Owned' => u \in Freeing'
<1>1. u \in Uids
  BY DEF Holders
<1>2. CASE MustDefer
  <2>1. Defer(u, r, TRUE)
    BY <1>2 DEF FreeReqResourcesOrDefer
  <2>2. Freeing' = Freeing \cup {u}
    BY <1>1, <2>1, DeferredCaching
  <2>3. UNCHANGED <<freed, freeSlots>> /\ Becomes(u, r)
    BY <1>1, <2>1, UpdateBecomes, DeferredList DEF Defer
  <2>4. \A v \in Uids : req'[v].slot = req[v].slot
    BY <2>3 DEF Becomes
  <2> QED BY <2>2, <2>3, <2>4, SlotsStay
<1>3. CASE ~MustDefer
  <2>1. FreeReqResources(u, r) /\ UNCHANGED deferredActions
    BY <1>3 DEF FreeReqResourcesOrDefer
  <2>2. Freeing' = Freeing
    BY <2>1 DEF Freeing
  <2> QED BY <2>1, <2>2, FreeSlot
<1> QED BY <1>2, <1>3

LEMMA CacheOrDeferSlot ==
  ASSUME PageBase, SlotsKnown, NEW u \in Holders, NEW r, IsReq(r), r.slot = req[u].slot,
         CacheReqOrDefer(u, r)
  PROVE  SlotsKnown' /\ Becomes(u, r) /\ Owned' = Owned /\ Freeing' = Freeing
<1>1. u \in Uids
  BY DEF Holders
<1>2. Becomes(u, r) /\ UNCHANGED <<freed, Freeing>>
  BY <1>1, CacheOrDeferBecomes, DeferredList
<1>3. freeSlots' = freeSlots
  BY DEF CacheReqOrDefer, Defer
<1>4. \A v \in Uids : req'[v].slot = req[v].slot
  BY <1>2 DEF Becomes
<1> QED BY <1>2, <1>3, <1>4, SlotsStay


\* one entry of a batch per request, and the last tokens of the others stay
LEMMA LastInTail ==
  ASSUME PageBase, Process, NEW v, LastIn(prev, v)
  PROVE  \/ LastIn(prev', v)
         \/ v = Current.uid /\ ~Current.chunked /\ ~Current.canDecode
<1>1. Range(prev) = {Current} \cup Range(prev')
  BY ProcessMoves, DeferredList
<1>2. PICK e \in Final(prev) : e.uid = v /\ ~e.canDecode
  BY DEF LastIn
<1>3. e \in Range(prev) /\ ~e.chunked
  BY <1>2 DEF Final
<1>4. CASE e \in Range(prev')
  BY <1>2, <1>3, <1>4 DEF LastIn, Final
<1>5. CASE e = Current
  BY <1>2, <1>3, <1>5
<1> QED BY <1>1, <1>3, <1>4, <1>5

\* What the handling of a result has to show: whom it lets go of has a place
\* again, and the others keep theirs.
LEMMA ProcessAccount ==
  ASSUME PageBase, AccountInv, Process, NEW u, u = Current.uid,
         NEW r, Becomes(u, r), r.slot = req[u].slot, r.chunked = req[u].chunked,
         SlotsKnown', Owned' \subseteq Owned, Freeing \subseteq Freeing',
         Range(running) \subseteq Range(running') \cup {u},
         suppressed \subseteq suppressed' \cup {u}, Released',
         u \in Owned' => HasPlace(u)',
         UNCHANGED <<pc, pending, batch, chunks, launched, flight>>
  PROVE  AccountInv'
<1>1. /\ u \in Uids /\ pc = "process" /\ launched = <<>>
  BY ProcessMoves, DeferredList
<1>2. \A v \in Uids : req'[v].chunked = req[v].chunked
  BY <1>1, SameChunks
<1>3. Waiting' = Waiting
  BY DEF Waiting
<1>4. Remembered'
  <2> SUFFICES ASSUME NEW v \in Owned'
               PROVE  HasPlace(v)' /\ (req'[v].chunked => v \in Waiting')
    BY DEF Remembered
  <2>1. v \in Owned /\ v \in Uids
    BY DEF Owned
  <2>2. req'[v].chunked => v \in Waiting'
    BY <1>2, <1>3, <2>1 DEF AccountInv, Remembered
  <2>3. HasPlace(v)'
    <3>1. CASE v = u
      BY <3>1
    <3>2. CASE v # u
      <4>1. HasPlace(v)
        BY <2>1 DEF AccountInv, Remembered
      <4>2. CASE v \in Waiting \cup Range(running) \cup Range(batch)
        BY <1>3, <3>2, <4>2 DEF HasPlace
      <4>3. CASE v \in Freeing \cup suppressed
        BY <3>2, <4>3 DEF HasPlace
      <4>4. CASE LastIn(prev, v)
        BY <3>2, <4>4, LastInTail DEF HasPlace
      <4>5. CASE LastIn(flight, v) \/ LastIn(launched, v)
        BY <4>5 DEF HasPlace, LastIn
      <4> QED BY <1>1, <4>1, <4>2, <4>3, <4>4, <4>5 DEF HasPlace
    <3> QED BY <3>1, <3>2
  <2> QED BY <2>2, <2>3
<1>5. AsAsked'
  <2>1. \A e \in Range(flight) \cup Range(launched) : e.uid \in Uids
    BY EntryUids
  <2> QED BY <1>2, <2>1 DEF AccountInv, AsAsked
<1>6. Dropped'
  BY <1>1 DEF Dropped
<1> QED BY <1>4, <1>5, <1>6 DEF AccountInv

\* results that are skipped or dropped
LEMMA SkipAccount ==
  ASSUME PageBase, AccountInv, SkipChunk, NEW u, u = Current.uid
  PROVE  AccountInv'
<1>1. /\ Process /\ Current.chunked
      /\ UNCHANGED <<pc, pending, running, batch, chunks, launched, flight, suppressed,
                     freed, deferredFree, deferredActions, req, freeSlots>>
  BY DEF SkipChunk, queueVars, batchVars, deferVars, tableVars
<1>2. u \in Uids /\ Answering(prev') = Answering(prev)
  BY <1>1, ProcessMoves, DeferredList
<1>3. Becomes(u, req[u])
  BY <1>1 DEF Becomes
<1>4. SlotsKnown' /\ Owned' = Owned
  BY <1>1, SlotsStay DEF AccountInv
<1>5. Freeing' = Freeing
  BY <1>1 DEF Freeing
<1>6. Released'
  BY <1>1, <1>2 DEF AccountInv, Released
<1>7. ASSUME u \in Owned'  PROVE HasPlace(u)'
  <2>1. HasPlace(u)
    BY <1>4, <1>7 DEF AccountInv, Remembered
  <2>2. Waiting' = Waiting
    BY <1>1 DEF Waiting
  <2>3. LastIn(prev, u) => LastIn(prev', u)
    BY <1>1, LastInTail
  <2>4. /\ LastIn(flight, u) => LastIn(flight', u)
        /\ LastIn(launched, u) => LastIn(launched', u)
    BY <1>1
  <2> QED BY <1>1, <1>5, <2>1, <2>2, <2>3, <2>4 DEF HasPlace
<1> QED BY <1>1, <1>3, <1>4, <1>5, <1>6, <1>7, ProcessAccount

LEMMA ReleaseAccount ==
  ASSUME PageBase, AccountInv, ReleaseSuppressed, NEW u, u = Current.uid
  PROVE  AccountInv'
<1>1. /\ Process /\ ~Current.chunked /\ u \in suppressed
      /\ suppressed' = suppressed \ {u} /\ deferredFree' = deferredFree \ {u}
      /\ u \in deferredFree => FreeReqResourcesOrDefer(u, req[u])
      /\ UNCHANGED <<pc, pending, running, batch, chunks, launched, flight>>
  BY DEF ReleaseSuppressed, queueVars, batchVars
<1>2. /\ u \in Uids /\ u \in Holders /\ u \in Answering(prev)
      /\ Answering(prev) = {u} \cup Answering(prev')
  BY <1>1, ProcessMoves, DeferredList
<1>3. FreeReqResourcesOrDefer(u, req[u])
  BY <1>1 DEF AccountInv, Released
<1>4. IsReq(req[u])
  BY <1>2, DeferredList DEF SlotInv, ReqFields
<1>5. /\ SlotsKnown' /\ Becomes(u, req[u])
      /\ Owned' \subseteq Owned /\ Freeing \subseteq Freeing'
      /\ u \in Owned' => u \in Freeing'
  BY <1>2, <1>3, <1>4, FreeOrDeferSlot DEF AccountInv
<1>6. Released'
  BY <1>1, <1>2 DEF AccountInv, Released
<1>7. u \in Owned' => HasPlace(u)'
  BY <1>5 DEF HasPlace
<1> QED BY <1>1, <1>5, <1>6, <1>7, ProcessAccount

LEMMA DeliverLastAccount ==
  ASSUME PageBase, AccountInv, DeliverLast, NEW u, u = Current.uid
  PROVE  AccountInv'
<1>1. /\ Deliver(TRUE) /\ running' = Erase(running, u)
      /\ UNCHANGED <<pc, pending, batch, chunks, launched, flight>>
  BY DEF DeliverLast, Deliver, batchVars
<1>2. Process /\ ~Current.chunked /\ u \notin suppressed /\ u \in Uids
  BY <1>1, DeliverMoves, DeferredList
<1>3. /\ u \in Holders /\ u \in Answering(prev)
      /\ Answering(prev) = {u} \cup Answering(prev')
  BY <1>2, ProcessMoves, DeferredList
<1>4. /\ Appended.slot = req[u].slot /\ Appended.chunked = req[u].chunked
      /\ IsReq(Appended)
  BY <1>2, AppendedBecomes, AppendedIsReq, DeferredList
<1>5. Range(running) \subseteq Range(running') \cup {u}
  <2>1. running \in Seq(Uids) /\ IsInjective(running)
    BY DeferredList DEF ControlTypeOK, LifeInv, Once
  <2> QED BY <1>1, <2>1, EraseRange
<1>6. CASE PendingUses(u)
  <2>1. /\ suppressed' = suppressed \cup {u} /\ deferredFree' = deferredFree \cup {u}
        /\ req' = [req EXCEPT ![u] = Appended]
        /\ UNCHANGED <<freed, deferredActions, freeSlots>>
    BY <1>6 DEF DeliverLast
  <2>2. Becomes(u, Appended)
    BY <1>2, <2>1, UpdateBecomes, DeferredList
  <2>3. \A v \in Uids : req'[v].slot = req[v].slot
    BY <1>4, <2>2 DEF Becomes
  <2>4. SlotsKnown' /\ Owned' = Owned
    BY <2>1, <2>3, SlotsStay DEF AccountInv
  <2>5. Freeing' = Freeing
    BY <2>1 DEF Freeing
  <2>6. u \in Answering(flight)
    <3>1. ~req[u].chunked
      BY <1>3, DeferredList DEF LifeInv, Apart
    <3>2. PICK e \in Range(flight) : e.uid = u
      BY <1>6, UsesFlight DEF UidsIn
    <3>3. ~e.chunked
      BY <3>1, <3>2 DEF AccountInv, AsAsked
    <3> QED BY <3>2, <3>3 DEF Answering, Final
  <2>7. Released'
    BY <1>1, <1>2, <1>3, <2>1, <2>6 DEF AccountInv, Released
  <2>8. HasPlace(u)'
    BY <2>1 DEF HasPlace
  <2> QED BY <1>1, <1>2, <1>4, <1>5, <2>1, <2>2, <2>4, <2>5, <2>7, <2>8, ProcessAccount
<1>7. CASE ~PendingUses(u)
  <2>1. FreeReqResourcesOrDefer(u, Appended) /\ UNCHANGED <<suppressed, deferredFree>>
    BY <1>7 DEF DeliverLast
  <2>2. /\ SlotsKnown' /\ Becomes(u, Appended)
        /\ Owned' \subseteq Owned /\ Freeing \subseteq Freeing'
        /\ u \in Owned' => u \in Freeing'
    BY <1>3, <1>4, <2>1, FreeOrDeferSlot DEF AccountInv
  <2>3. Released'
    BY <1>1, <1>2, <1>3, <2>1 DEF AccountInv, Released
  <2>4. u \in Owned' => HasPlace(u)'
    BY <2>2 DEF HasPlace
  <2> QED BY <1>1, <1>2, <1>4, <1>5, <2>1, <2>2, <2>3, <2>4, ProcessAccount
<1> QED BY <1>6, <1>7

LEMMA DeliverNextAccount ==
  ASSUME PageBase, AccountInv, DeliverNext, NEW u, u = Current.uid
  PROVE  AccountInv'
<1>1. /\ Deliver(FALSE)
      /\ UNCHANGED <<pc, pending, running, batch, chunks, launched, flight,
                     suppressed, deferredFree>>
  BY DEF DeliverNext, Deliver, batchVars
<1>2. /\ Process /\ ~Current.chunked /\ u \notin suppressed /\ u \in Uids
      /\ Current.canDecode
  BY <1>1, DeliverMoves, DeferredList
<1>3. /\ u \in Holders /\ Answering(prev) = {u} \cup Answering(prev')
  BY <1>2, ProcessMoves, DeferredList
<1>4. /\ Appended.slot = req[u].slot /\ Appended.chunked = req[u].chunked
      /\ IsReq(Appended)
  BY <1>2, AppendedBecomes, AppendedIsReq, DeferredList
<1>5. SlotsKnown' /\ Becomes(u, Appended) /\ Owned' = Owned /\ Freeing' = Freeing
  <2>1. CASE Current.prefill /\ ~PendingUses(u)
    <3>1. CacheReqOrDefer(u, Appended)
      BY <2>1 DEF DeliverNext
    <3> QED BY <1>3, <1>4, <3>1, CacheOrDeferSlot DEF AccountInv
  <2>2. CASE ~(Current.prefill /\ ~PendingUses(u))
    <3>1. /\ req' = [req EXCEPT ![u] = Appended]
          /\ UNCHANGED <<freed, deferredActions, freeSlots>>
      BY <2>2 DEF DeliverNext
    <3>2. Becomes(u, Appended)
      BY <1>2, <3>1, UpdateBecomes, DeferredList
    <3>3. \A v \in Uids : req'[v].slot = req[v].slot
      BY <1>4, <3>2 DEF Becomes
    <3>4. SlotsKnown' /\ Owned' = Owned
      BY <3>1, <3>3, SlotsStay DEF AccountInv
    <3>5. Freeing' = Freeing
      BY <3>1 DEF Freeing
    <3> QED BY <3>2, <3>4, <3>5
  <2> QED BY <2>1, <2>2
<1>6. Released'
  BY <1>1, <1>2, <1>3 DEF AccountInv, Released
<1>7. ASSUME u \in Owned'  PROVE HasPlace(u)'
  <2>1. HasPlace(u)
    BY <1>5, <1>7 DEF AccountInv, Remembered
  <2>2. Waiting' = Waiting
    BY <1>1 DEF Waiting
  <2>3. LastIn(prev, u) => LastIn(prev', u)
    BY <1>2, LastInTail
  <2>4. /\ LastIn(flight, u) => LastIn(flight', u)
        /\ LastIn(launched, u) => LastIn(launched', u)
    BY <1>1
  <2> QED BY <1>1, <1>5, <2>1, <2>2, <2>3, <2>4 DEF HasPlace
<1> QED BY <1>1, <1>2, <1>4, <1>5, <1>6, <1>7, ProcessAccount


-----------------------------------------------------------------------------
(* The other steps.                                                        *)

\* A step that only moves requests from one list to the next.
LEMMA MovesAccount ==
  ASSUME AccountInv, UNCHANGED <<req, freed, freeSlots, suppressed, deferredFree,
                                 deferredActions>>,
         Waiting' = Waiting, \A v \in Owned : HasPlace(v) => HasPlace(v)',
         Answering(flight) \cup Answering(prev) \subseteq Answering(flight') \cup Answering(prev'),
         AsAsked', Dropped'
  PROVE  AccountInv'
<1>1. SlotsKnown' /\ Owned' = Owned
  BY SlotsStay DEF AccountInv
<1>2. Remembered'
  BY <1>1 DEF AccountInv, Remembered
<1>3. Released'
  BY DEF AccountInv, Released
<1> QED BY <1>1, <1>2, <1>3 DEF AccountInv

LEMMA QuietAccount ==
  ASSUME PageBase, AccountInv,
         BeginAdmission \/ Reclaim \/ EndStep \/ UNCHANGED vars
  PROVE  AccountInv'
<1>1. /\ UNCHANGED <<pending, running, batch, chunks, launched, flight, prev, suppressed,
                     freed, deferredFree, deferredActions, req, freeSlots>>
      /\ \/ UNCHANGED pc
         \/ pc = "schedule" /\ pc' = "admit"
         \/ pc = "reclaim" /\ pc' = "launch"
         \/ pc = "process" /\ pc' = "idle"
  BY DEF BeginAdmission, Reclaim, EndStep, vars, queueVars, batchVars, deferVars,
         tableVars, clientVars
<1>2. Waiting' = Waiting /\ Freeing' = Freeing
  BY <1>1 DEF Waiting, Freeing
<1>3. \A v \in Owned : HasPlace(v) => HasPlace(v)'
  BY <1>1, <1>2 DEF HasPlace, LastIn
<1>4. AsAsked'
  BY <1>1 DEF AccountInv, AsAsked
<1>5. Dropped'
  <2>1. CASE UNCHANGED pc
    BY <1>1, <2>1 DEF AccountInv, Dropped, HasRoom
  <2>2. CASE pc = "reclaim" /\ pc' = "launch"
    <3>1. \A v \in Range(running) : RemainLen(req[v]) > 0
      BY <2>2 DEF PageBase, ReplyBase, CountInv, Room
    <3> QED BY <1>1, <2>2, <3>1 DEF Dropped, HasRoom
  <2>3. CASE pc' \in {"admit", "idle"}
    BY <2>3 DEF Dropped
  <2> QED BY <1>1, <2>1, <2>2, <2>3
<1> QED BY <1>1, <1>2, <1>3, <1>4, <1>5, MovesAccount

LEMMA BeginStepAccount ==
  ASSUME PageBase, AccountInv, BeginStep  PROVE AccountInv'
<1>1. /\ pc = "idle" /\ pc' = "schedule" /\ prev' = flight /\ flight' = <<>>
      /\ UNCHANGED <<pending, running, batch, chunks, launched, suppressed,
                     freed, deferredFree, deferredActions, req, freeSlots>>
  BY DEF BeginStep, queueVars, batchVars, deferVars, tableVars
<1>2. prev = <<>> /\ launched = <<>>
  BY <1>1, DeferredList DEF LifeInv, Phases
<1>3. Waiting' = Waiting /\ Freeing' = Freeing
  BY <1>1 DEF Waiting, Freeing
<1>4. \A v : LastIn(prev, v) \/ LastIn(flight, v) => LastIn(prev', v)
  BY <1>1, <1>2, EntriesEmpty DEF LastIn
<1>5. \A v \in Owned : HasPlace(v) => HasPlace(v)'
  BY <1>1, <1>3, <1>4 DEF HasPlace
<1>6. AsAsked'
  BY <1>1, RangeEmpty DEF AccountInv, AsAsked
<1>7. Dropped'
  BY <1>1 DEF Dropped
<1>8. Answering(flight) \cup Answering(prev) \subseteq Answering(flight') \cup Answering(prev')
  BY <1>1, <1>2, EntriesEmpty
<1> QED BY <1>1, <1>3, <1>5, <1>6, <1>7, <1>8, MovesAccount

LEMMA DecodeAccount ==
  ASSUME PageBase, AccountInv, ScheduleBurst \/ ScheduleDecode  PROVE AccountInv'
<1>1. /\ pc \in {"schedule", "admit"} /\ pc' \in {"reclaim", "idle", "process"}
      /\ batch = <<>>
      /\ UNCHANGED <<pending, running, chunks, launched, flight, prev, suppressed,
                     freed, deferredFree, deferredActions, req, freeSlots>>
  <2>1. CASE ScheduleBurst
    BY <2>1, DeferredList DEF ScheduleBurst, DecodeBatch, deferVars, tableVars, LifeInv, Phases
  <2>2. CASE ScheduleDecode
    BY <2>2 DEF ScheduleDecode, DecodeBatch, AfterLaunch, queueVars, deferVars, tableVars
  <2> QED BY <2>1, <2>2
<1>2. Waiting' = Waiting /\ Freeing' = Freeing
  BY <1>1 DEF Waiting, Freeing
<1>3. \A v \in Owned : HasPlace(v) => HasPlace(v)'
  BY <1>1, <1>2, RangeEmpty DEF HasPlace
<1>4. AsAsked'
  BY <1>1 DEF AccountInv, AsAsked
<1>5. Dropped'
  BY <1>1 DEF Dropped
<1> QED BY <1>1, <1>2, <1>3, <1>4, <1>5, MovesAccount

LEMMA SchedulePrefillAccount ==
  ASSUME PageBase, AccountInv, SchedulePrefill  PROVE AccountInv'
<1>1. /\ pc = "admit" /\ pc' = "reclaim"
      /\ pending' = chunks \o pending /\ chunks' = <<>>
      /\ UNCHANGED <<running, batch, launched, flight, prev, suppressed,
                     freed, deferredFree, deferredActions, req, freeSlots>>
  BY DEF SchedulePrefill, deferVars, tableVars
<1>2. Waiting' = Waiting
  <2>1. chunks \in Seq(Uids) /\ pending \in Seq(Uids)
    BY DeferredList DEF ControlTypeOK
  <2>2. Range(chunks \o pending) = Range(chunks) \cup Range(pending)
    BY <2>1, ConcatRange
  <2> QED BY <1>1, <2>2, RangeEmpty DEF Waiting
<1>3. Freeing' = Freeing
  BY <1>1 DEF Freeing
<1>4. \A v \in Owned : HasPlace(v) => HasPlace(v)'
  BY <1>1, <1>2, <1>3 DEF HasPlace
<1>5. AsAsked'
  BY <1>1 DEF AccountInv, AsAsked
<1>6. Dropped'
  BY <1>1 DEF Dropped
<1> QED BY <1>1, <1>2, <1>4, <1>5, <1>6, MovesAccount

LEMMA BeginFilterAccount ==
  ASSUME PageBase, AccountInv, BeginFilter  PROVE AccountInv'
<1>1. /\ pc = "launch" /\ pc' = "filter" /\ batch = <<>>
      /\ batch' = running \o [i \in DOMAIN launched |-> launched[i].uid]
      /\ running' = <<>>
      /\ UNCHANGED <<pending, chunks, launched, flight, prev, suppressed,
                     freed, deferredFree, deferredActions, req, freeSlots>>
  BY DEF BeginFilter, deferVars, tableVars
<1>2. Range(batch') = Range(running) \cup UidsIn(launched)
  <2> DEFINE ids == [i \in DOMAIN launched |-> launched[i].uid]
  <2>1. running \in Seq(Uids) /\ launched \in Seq(Entry)
    BY DeferredList DEF ControlTypeOK
  <2>2. ids \in Seq(Uids) /\ Range(ids) = UidsIn(launched)
    <3>1. /\ DOMAIN launched = 1 .. Len(launched)
          /\ \A i \in DOMAIN launched : launched[i].uid \in Uids
      <4>1. \A e \in Entry : e.uid \in Uids
        BY DEF Entry
      <4>2. DOMAIN launched = 1 .. Len(launched) /\ \A i \in DOMAIN launched : launched[i] \in Entry
        BY <2>1
      <4> QED BY <4>1, <4>2
    <3>2. ids \in [1 .. Len(launched) -> Uids] /\ Len(launched) \in Nat
      BY <2>1, <3>1
    <3>4. ids \in Seq(Uids)
      <4> HIDE DEF ids
      <4> QED BY <3>2
    <3>3. Range(ids) = UidsIn(launched)
      BY DEF Range, UidsIn
    <3> QED BY <3>3, <3>4
  <2>3. batch' = running \o ids
    BY <1>1
  <2> HIDE DEF ids
  <2> QED BY <2>1, <2>2, <2>3, ConcatRange
<1>3. Waiting' = Waiting /\ Freeing' = Freeing
  BY <1>1 DEF Waiting, Freeing
<1>4. \A v \in Owned : HasPlace(v) => HasPlace(v)'
  BY <1>1, <1>2, <1>3, RangeEmpty DEF HasPlace
<1>5. AsAsked'
  BY <1>1 DEF AccountInv, AsAsked
<1>6. Dropped'
  BY <1>1, <1>2 DEF AccountInv, Dropped, HasRoom
<1> QED BY <1>1, <1>3, <1>4, <1>5, <1>6, MovesAccount

\* filter_reqs drops a request only when its last token is launched
LEMMA FilterAccount ==
  ASSUME PageBase, AccountInv, FilterOne, NEW u, u = Head(batch)
  PROVE  AccountInv'
<1>1. /\ u \in Uids /\ Range(batch) = {u} \cup Range(batch')
      /\ Range(running') = IF CanDecode(req[u]) THEN Range(running) \cup {u}
                           ELSE Range(running)
      /\ pc = "filter" /\ pc' = "filter"
      /\ UNCHANGED <<pending, chunks, launched, flight, prev, suppressed,
                     freed, deferredActions, req>>
  BY FilterMoves, DeferredList
<1>2. UNCHANGED <<deferredFree, freeSlots>>
  BY DEF FilterOne, deferVars, tableVars
<1>3. Waiting' = Waiting /\ Freeing' = Freeing
  BY <1>1 DEF Waiting, Freeing
<1>4. ASSUME NEW v \in Owned, HasPlace(v)  PROVE HasPlace(v)'
  <2>1. CASE v # u \/ CanDecode(req[u])
    BY <1>1, <1>3, <1>4, <2>1 DEF HasPlace
  <2>2. CASE v = u /\ ~CanDecode(req[u])
    <3>1. CASE req[u].chunked
      <4>1. u \in Waiting
        BY <2>2, <3>1 DEF AccountInv, Remembered
      <4> QED BY <1>3, <2>2, <4>1 DEF HasPlace
    <3>2. CASE ~req[u].chunked
      <4>1. u \in Range(batch) /\ ~(RemainLen(req[u]) > 0)
        BY <1>1, <2>2, <3>2 DEF CanDecode
      <4>2. u \in UidsIn(launched)
        BY <1>1, <4>1 DEF AccountInv, Dropped, HasRoom
      <4>3. PICK e \in Range(launched) : e.uid = u
        BY <4>2 DEF UidsIn
      <4>4. e \in Final(launched)
        BY <3>2, <4>3 DEF AccountInv, AsAsked, Final
      <4>5. u \notin Gone
        BY <4>1, DeferredList DEF LifeInv, Farewell
      <4>6. ~e.canDecode
        BY <4>1, <4>3, <4>4, <4>5 DEF PageBase, ReplyBase, CountInv, Marks
      <4>7. LastIn(launched', v)
        BY <1>1, <2>2, <4>3, <4>4, <4>6 DEF LastIn
      <4> QED BY <4>7 DEF HasPlace
    <3> QED BY <3>1, <3>2
  <2> QED BY <2>1, <2>2
<1>5. AsAsked'
  BY <1>1 DEF AccountInv, AsAsked
<1>6. Dropped'
  BY <1>1 DEF AccountInv, Dropped, HasRoom
<1> QED BY <1>1, <1>2, <1>3, <1>4, <1>5, <1>6, MovesAccount

LEMMA EndLaunchAccount ==
  ASSUME PageBase, AccountInv, EndLaunch  PROVE AccountInv'
<1>1. /\ pc = "filter" /\ pc' \in {"idle", "process"} /\ launched' = <<>>
      /\ \/ flight' = launched /\ prev' = prev
         \/ prev' = launched /\ flight' = flight /\ ~Overlap
      /\ UNCHANGED <<pending, running, batch, chunks, suppressed,
                     freed, deferredFree, deferredActions, req, freeSlots>>
  BY SchedulerAssumption DEF EndLaunch, AfterLaunch, queueVars, deferVars, tableVars
<1>2. flight = <<>> /\ (~Overlap => prev = <<>>)
  BY <1>1, DeferredList DEF LifeInv, Phases
<1>3. Waiting' = Waiting /\ Freeing' = Freeing
  BY <1>1 DEF Waiting, Freeing
<1>4. \A v : LastIn(prev, v) \/ LastIn(flight, v) \/ LastIn(launched, v)
               => LastIn(prev', v) \/ LastIn(flight', v)
  BY <1>1, <1>2, EntriesEmpty DEF LastIn
<1>5. \A v \in Owned : HasPlace(v) => HasPlace(v)'
  BY <1>1, <1>3, <1>4 DEF HasPlace
<1>6. AsAsked'
  BY <1>1, RangeEmpty DEF AccountInv, AsAsked
<1>7. Dropped'
  BY <1>1 DEF Dropped
<1>8. Answering(flight) \cup Answering(prev) \subseteq Answering(flight') \cup Answering(prev')
  BY <1>1, <1>2, EntriesEmpty
<1> QED BY <1>1, <1>3, <1>5, <1>6, <1>7, <1>8, MovesAccount


\* the next request of the batch gets its pages and its token
LEMMA LaunchAccount ==
  ASSUME PageBase, AccountInv, LaunchOne, NEW u, u = Head(batch)
  PROVE  AccountInv'
<1>1. /\ u \in Owned /\ pc = "launch" /\ IsReq(req[u])
      /\ req' = [req EXCEPT ![u] = CompleteOne(req[u])]
  BY LaunchOwns
<1>2. /\ u \in Uids /\ Range(batch) = {u} \cup Range(batch')
      /\ UNCHANGED <<pc, pending, running, chunks, flight, prev, suppressed,
                     freed, deferredActions>>
  BY LaunchMoves, DeferredList
<1>3. PICK e \in Entry : /\ e.uid = u /\ e.chunked = req[u].chunked
                         /\ launched' = Append(launched, e)
  BY LaunchMoves, DeferredList
<1>4. UNCHANGED <<deferredFree, freeSlots>>
  BY DEF LaunchOne, deferVars
<1>5. /\ Range(launched') = Range(launched) \cup {e}
      /\ UidsIn(launched') = UidsIn(launched) \cup {u}
      /\ Final(launched) \subseteq Final(launched')
  <2>1. launched \in Seq(Entry)
    BY DeferredList DEF ControlTypeOK
  <2> QED BY <1>3, <2>1, EntriesAppend
<1>6. \A v \in Uids : /\ req'[v].slot = req[v].slot /\ req'[v].chunked = req[v].chunked
                      /\ v # u => req'[v] = req[v]
  BY <1>1, <1>2, CompleteOneKeeps, DeferredList
<1>7. SlotsKnown' /\ Owned' = Owned
  BY <1>2, <1>4, <1>6, SlotsStay DEF AccountInv
<1>8. Waiting' = Waiting /\ Freeing' = Freeing
  BY <1>2 DEF Waiting, Freeing
<1>9. Remembered'
  <2> SUFFICES ASSUME NEW v \in Owned
               PROVE  HasPlace(v)' /\ (req'[v].chunked => v \in Waiting')
    BY <1>7 DEF Remembered
  <2>1. v \in Uids /\ HasPlace(v) /\ (req[v].chunked => v \in Waiting)
    BY DEF AccountInv, Remembered, Owned
  <2>2. LastIn(launched, v) => LastIn(launched', v)
    BY <1>5 DEF LastIn
  <2>3. (LastIn(prev, v) => LastIn(prev', v)) /\ (LastIn(flight, v) => LastIn(flight', v))
    BY <1>2
  <2>4. CASE v = u
    BY <1>1, <1>2, <1>5, <1>6, <1>8, <2>1, <2>4 DEF HasPlace
  <2>5. CASE v # u
    BY <1>1, <1>2, <1>5, <1>6, <1>8, <2>1, <2>2, <2>3, <2>5 DEF HasPlace
  <2> QED BY <2>4, <2>5
<1>10. Released'
  BY <1>2, <1>4 DEF AccountInv, Released
<1>11. AsAsked'
  <2>1. \A f \in Range(flight) \cup Range(launched) : f.uid \in Uids
    BY EntryUids
  <2> QED BY <1>2, <1>3, <1>5, <1>6, <2>1 DEF AccountInv, AsAsked
<1>12. Dropped'
  <2>1. Range(running) \subseteq Uids
    BY DeferredList, RangeIn DEF ControlTypeOK
  <2> QED BY <1>1, <1>2, <1>5, <1>6, <2>1 DEF AccountInv, Dropped, HasRoom
<1> QED BY <1>7, <1>9, <1>10, <1>11, <1>12 DEF AccountInv

LEMMA FrontRange ==
  ASSUME NEW S, NEW s \in Seq(S), s # <<>>
  PROVE  /\ s[Len(s)] \in S
         /\ Range(s) = Range(Front(s)) \cup {s[Len(s)]}
<1>1. Len(s) \in Nat /\ Len(s) > 0 /\ DOMAIN s = 1 .. Len(s)
  OBVIOUS
<1>2. /\ DOMAIN Front(s) = 1 .. Len(s) - 1
      /\ \A i \in 1 .. Len(s) - 1 : Front(s)[i] = s[i]
  BY <1>1 DEF Front
<1>3. \A i \in 1 .. Len(s) : i = Len(s) \/ i \in 1 .. Len(s) - 1
  <2> DEFINE n == Len(s)
  <2>1. n \in Nat
    BY <1>1
  <2> HIDE DEF n
  <2>2. \A i \in 1 .. n : i = n \/ i \in 1 .. n - 1
    BY <2>1
  <2> QED BY <2>2 DEF n
<1>4. 1 .. Len(s) - 1 \subseteq 1 .. Len(s) /\ Len(s) \in 1 .. Len(s)
  BY <1>1
<1>5. s[Len(s)] \in S
  BY <1>1, <1>4
<1>6. \A x \in Range(s) : x \in Range(Front(s)) \cup {s[Len(s)]}
  BY <1>1, <1>2, <1>3 DEF Range
<1>7. \A x \in Range(Front(s)) : x \in Range(s)
  BY <1>1, <1>2, <1>4 DEF Range
<1>8. s[Len(s)] \in Range(s)
  BY <1>1, <1>4 DEF Range
<1> QED BY <1>5, <1>6, <1>7, <1>8

\* what an admission leaves of the slots
LEMMA AdmitSlots ==
  ASSUME PageBase, AccountInv, AdmitChunk \/ AdmitNew, NEW u, u = Head(pending)
  PROVE  /\ \E r : Add(u, r)
         /\ SlotsKnown' /\ u \in Owned' /\ Owned' \subseteq Owned \cup {u}
<1>1. pending # <<>> /\ freed' = freed
  BY DEF AdmitChunk, AdmitNew, Add, deferVars
<1>2. u \in Uids /\ u \notin freed /\ DOMAIN req = Uids
  BY <1>1, HeadWaits, DeferredList
<1>3. CASE AdmitChunk
  <2> DEFINE r == NextReq(u, req[u].slot, req[u].cached, req[u].handle)
  <2>1. Holds(u) /\ Add(u, r) /\ freeSlots' = freeSlots
    BY <1>3 DEF AdmitChunk
  <2>2. r.slot = req[u].slot
    BY NextReqIsReq
  <2> HIDE DEF r
  <2>3. req' = [req EXCEPT ![u] = r]
    BY <2>1 DEF Add
  <2>4. \A v \in Uids : req'[v].slot = req[v].slot
    BY <1>2, <2>2, <2>3
  <2>5. SlotsKnown' /\ Owned' = Owned
    BY <1>1, <2>1, <2>4, SlotsStay DEF AccountInv
  <2>6. u \in Owned
    BY <1>2, <2>1 DEF Owned
  <2> QED BY <2>1, <2>5, <2>6
<1>4. CASE AdmitNew
  <2> DEFINE slot == BackSlot
             r == NextReq(u, slot, Len(Matched(u)), Matched(u))
  <2>1. /\ ~Holds(u) /\ freeSlots # <<>> /\ Add(u, r)
        /\ freeSlots' = Front(freeSlots)
    BY <1>4 DEF AdmitNew, Admissible
  <2>2. slot \in Slots /\ Range(freeSlots) = Range(freeSlots') \cup {slot}
    <3>1. freeSlots \in Seq(Slots)
      BY DeferredList DEF ControlTypeOK
    <3> QED BY <2>1, <3>1, FrontRange DEF BackSlot
  <2>3. r.slot = slot
    BY NextReqIsReq
  <2> HIDE DEF r, slot
  <2>4. req' = [req EXCEPT ![u] = r]
    BY <2>1 DEF Add
  <2>5. req'[u].slot = slot /\ \A v \in Uids \ {u} : req'[v] = req[v]
    BY <1>2, <2>3, <2>4
  <2>6. slot # NoSlot
    BY <2>2, SchedulerAssumption DEF Slots, NoSlot
  <2>7. Owned' = Owned \cup {u} /\ u \notin Owned
    BY <1>1, <1>2, <2>1, <2>5, <2>6 DEF Owned, Holds
  <2>8. \A v \in Owned : v \in Owned' /\ req'[v].slot = req[v].slot
    BY <2>5, <2>7 DEF Owned
  <2>9. SlotsKnown'
    BY <2>2, <2>5, <2>7, <2>8 DEF AccountInv, SlotsKnown
  <2> QED BY <2>1, <2>7, <2>9
<1> QED BY <1>3, <1>4

LEMMA AdmitAccount ==
  ASSUME PageBase, AccountInv, AdmitChunk \/ AdmitNew, NEW u, u = Head(pending)
  PROVE  AccountInv'
<1>1. /\ pc = "admit" /\ pending # <<>>
      /\ UNCHANGED <<deferredFree>>
  BY DEF AdmitChunk, AdmitNew, Add, deferVars
<1>2. PICK r : Add(u, r)
  BY AdmitSlots
<1>3. /\ SlotsKnown' /\ u \in Owned' /\ Owned' \subseteq Owned \cup {u}
  BY AdmitSlots
<1>4. /\ u \in Uids
      /\ Range(pending) = {u} \cup Range(pending')
      /\ Range(batch') = Range(batch) \cup {u}
      /\ Range(chunks') = IF r.chunked THEN Range(chunks) \cup {u} ELSE Range(chunks)
      /\ UNCHANGED <<pc, running, launched, flight, prev, suppressed, freed,
                     deferredActions, submitted, aborted, reply>>
      /\ req' = [req EXCEPT ![u] = r]
  BY <1>1, <1>2, AddMoves, DeferredList
<1>5. req'[u] = r /\ \A v \in Uids \ {u} : req'[v] = req[v]
  BY <1>4, DeferredList
<1>6. Remembered'
  <2> SUFFICES ASSUME NEW v \in Owned'
               PROVE  HasPlace(v)' /\ (req'[v].chunked => v \in Waiting')
    BY DEF Remembered
  <2>1. CASE v = u
    BY <1>4, <1>5, <2>1 DEF HasPlace, Waiting
  <2>2. CASE v # u
    <3>1. v \in Uids /\ HasPlace(v) /\ (req[v].chunked => v \in Waiting)
      BY <1>3, <2>2 DEF AccountInv, Remembered, Owned
    <3>2. v \in Waiting => v \in Waiting'
      BY <1>4, <2>2 DEF Waiting
    <3>3. Freeing' = Freeing
      BY <1>4 DEF Freeing
    <3>4. HasPlace(v)'
      BY <1>4, <3>1, <3>2, <3>3 DEF HasPlace, LastIn
    <3> QED BY <1>5, <2>2, <3>1, <3>2, <3>4
  <2> QED BY <2>1, <2>2
<1>7. Released'
  BY <1>1, <1>4 DEF AccountInv, Released
<1>8. AsAsked'
  <2>1. flight = <<>> /\ launched = <<>>
    BY <1>1, DeferredList DEF LifeInv, Phases
  <2> QED BY <1>4, <2>1, RangeEmpty DEF AsAsked
<1>9. Dropped'
  BY <1>1, <1>4 DEF Dropped
<1> QED BY <1>3, <1>6, <1>7, <1>8, <1>9 DEF AccountInv

\* a request that is put off is freed or goes on
LEMMA FlushAccount ==
  ASSUME PageBase, AccountInv, FlushAction  PROVE AccountInv'
<1> DEFINE act == Head(deferredActions)
           A == [uid : Uids, finished : BOOLEAN]
           u == act.uid
<1>1. /\ pc = "schedule" /\ deferredActions # <<>>
      /\ \/ act.finished /\ FreeReqResources(u, req[u])
         \/ ~act.finished /\ CacheReq(u, req[u], FALSE) /\ UNCHANGED <<freed, freeSlots>>
      /\ deferredActions' = Tail(deferredActions)
      /\ UNCHANGED <<pc, pending, running, batch, chunks, launched, flight, prev,
                     suppressed, deferredFree>>
  BY DEF FlushAction, queueVars, batchVars
<1>2. Range(deferredActions) = {act} \cup Range(deferredActions') /\ act \in A
      /\ deferredActions[1] = act /\ 1 \in DOMAIN deferredActions
  <2>1. deferredActions \in Seq(A)
    BY DeferredList
  <2>2. act \in A /\ Range(deferredActions) = {act} \cup Range(deferredActions')
    BY <1>1, <2>1, HeadTail
  <2> QED BY <1>1, <2>1, <2>2
<1>3. u \in Uids /\ u \in Holders
  BY <1>2 DEF PageBase, ReplyBase, LifeBase, SlotInv, AllHold
<1>4. IF act.finished THEN Freeing \subseteq Freeing' \cup {u} ELSE Freeing \subseteq Freeing'
  BY <1>2 DEF Freeing
<1> HIDE DEF act, A
<1>5. IsReq(req[u])
  BY <1>3, DeferredList DEF SlotInv, ReqFields
<1>6. /\ SlotsKnown' /\ Becomes(u, req[u]) /\ Owned' \subseteq Owned
      /\ \A v \in Owned' : v \in Freeing => v \in Freeing'
  <2>1. CASE act.finished
    <3>1. FreeReqResources(u, req[u])
      BY <1>1, <2>1
    <3>2. SlotsKnown' /\ Owned' = Owned \ {u} /\ Becomes(u, req[u])
      BY <1>3, <1>5, <3>1, FreeSlot DEF AccountInv
    <3> QED BY <1>4, <2>1, <3>2
  <2>2. CASE ~act.finished
    <3>1. CacheReq(u, req[u], FALSE) /\ UNCHANGED <<freed, freeSlots>>
      BY <1>1, <2>2
    <3>2. Becomes(u, req[u])
      BY <1>3, <1>5, <3>1, CacheReqBecomes, DeferredList
    <3>3. \A v \in Uids : req'[v].slot = req[v].slot
      BY <3>2 DEF Becomes
    <3>4. SlotsKnown' /\ Owned' = Owned
      BY <3>1, <3>3, SlotsStay DEF AccountInv
    <3> QED BY <1>4, <2>2, <3>2, <3>4
  <2> QED BY <2>1, <2>2
<1>7. \A v \in Uids : req'[v].chunked = req[v].chunked
  BY <1>6 DEF Becomes
<1>8. Remembered'
  <2> SUFFICES ASSUME NEW v \in Owned'
               PROVE  HasPlace(v)' /\ (req'[v].chunked => v \in Waiting')
    BY DEF Remembered
  <2>1. v \in Uids /\ HasPlace(v) /\ (req[v].chunked => v \in Waiting)
    BY <1>6 DEF AccountInv, Remembered, Owned
  <2>2. Waiting' = Waiting
    BY <1>1 DEF Waiting
  <2> QED BY <1>1, <1>6, <1>7, <2>1, <2>2 DEF HasPlace, LastIn
<1>9. Released'
  BY <1>1 DEF AccountInv, Released
<1>10. AsAsked'
  <2>1. \A e \in Range(flight) \cup Range(launched) : e.uid \in Uids
    BY EntryUids
  <2> QED BY <1>1, <1>7, <2>1 DEF AccountInv, AsAsked
<1>11. Dropped'
  BY <1>1 DEF Dropped
<1> QED BY <1>6, <1>8, <1>9, <1>10, <1>11 DEF AccountInv


LEMMA SubmitAccount ==
  ASSUME PageBase, AccountInv, NEW u \in Uids, Submit(u)  PROVE AccountInv'
<1>1. /\ u \notin submitted /\ pc = "idle" /\ pc' = pc
      /\ suppressed' = suppressed \ {u} /\ freed' = freed \ {u}
      /\ deferredFree' = deferredFree \ {u} /\ pending' = Append(pending, u)
      /\ UNCHANGED <<running, batch, chunks, launched, flight, prev, deferredActions,
                     req, freeSlots>>
  BY DEF Submit, batchVars, tableVars
<1>2. ~Holds(u) /\ u \notin suppressed
  BY <1>1, DeferredList DEF SlotInv, AllSubmitted, Holders, LifeInv, Farewell
<1>3. Owned' = Owned
  BY <1>1, <1>2 DEF Owned, Holds
<1>4. UNCHANGED <<suppressed, deferredFree>>
  BY <1>1, <1>2 DEF AccountInv, Released
<1>5. Waiting \subseteq Waiting'
  <2>1. pending \in Seq(Uids)
    BY DeferredList DEF ControlTypeOK
  <2> QED BY <1>1, <2>1, RangeAppend DEF Waiting
<1>6. Freeing' = Freeing
  BY <1>1 DEF Freeing
<1>7. Remembered'
  BY <1>1, <1>3, <1>4, <1>5, <1>6 DEF AccountInv, Remembered, HasPlace, LastIn
<1>8. Released'
  BY <1>1, <1>4 DEF AccountInv, Released
<1>9. AsAsked' /\ SlotsKnown'
  BY <1>1, <1>3 DEF AccountInv, AsAsked, SlotsKnown
<1>10. Dropped'
  BY <1>1 DEF Dropped
<1> QED BY <1>7, <1>8, <1>9, <1>10 DEF AccountInv

\* an abort meets no chunk in flight
LEMMA AbortMeetsNoChunk ==
  ASSUME Safe, PageBase, NEW u \in Uids, Abort(u)
  PROVE  ~(req[u].chunked /\ PendingUses(u))
<1>1. AbortAnyTime \/ ~AbortHazard(u)
  BY DEF Abort
<1>2. CASE ~Overlap
  <2>1. flight = <<>>
    BY <1>2, DeferredList DEF LifeInv, Phases
  <2> QED BY <2>1, UsesFlight, EntriesEmpty
<1>3. CASE Overlap
  BY <1>1, <1>3 DEF Safe, AbortHazard
<1> QED BY <1>2, <1>3

LEMMA AbortAccount ==
  ASSUME Safe, PageBase, AccountInv, NEW u \in Uids, Abort(u)  PROVE AccountInv'
<1>1. /\ pc = "idle" /\ pc' = pc
      /\ Contains(pending, u) \/ Contains(running, u)
      /\ pending' = Erase(pending, u) /\ running' = Erase(running, u)
      /\ \/ ~Holds(u) /\ UNCHANGED <<suppressed, freed, deferredFree, req, freeSlots>>
         \/ /\ Holds(u) /\ PendingUses(u)
            /\ suppressed' = suppressed \cup {u}
            /\ deferredFree' = deferredFree \cup {u}
            /\ UNCHANGED <<freed, req, freeSlots>>
         \/ /\ Holds(u) /\ FreeReqResources(u, req[u])
            /\ suppressed' = suppressed \ {u} /\ UNCHANGED deferredFree
      /\ UNCHANGED <<batch, chunks, launched, flight, prev, deferredActions>>
  BY DEF Abort, batchVars
<1>2. /\ Range(pending') = Range(pending) \ {u}
      /\ Range(running') = Range(running) \ {u}
  <2>1. /\ pending \in Seq(Uids) /\ running \in Seq(Uids)
        /\ IsInjective(pending) /\ IsInjective(running)
    BY DeferredList DEF ControlTypeOK, LifeInv, Once
  <2> QED BY <1>1, <2>1, EraseRange
<1>3. u \notin suppressed
  <2>1. u \in Waiting \cup Range(running)
    BY <1>1 DEF Contains, Waiting, Range
  <2> QED BY <2>1, DeferredList DEF LifeInv, Farewell
<1>4. Freeing' = Freeing
  BY <1>1 DEF Freeing
<1>5. ASSUME NEW v \in Owned, v # u, suppressed \subseteq suppressed' \cup {u}
      PROVE  HasPlace(v)' /\ (req[v].chunked => v \in Waiting')
  <2>1. HasPlace(v) /\ (req[v].chunked => v \in Waiting)
    BY DEF AccountInv, Remembered
  <2>2. v \in Waiting => v \in Waiting'
    BY <1>1, <1>2, <1>5 DEF Waiting
  <2> QED BY <1>1, <1>2, <1>4, <1>5, <2>1, <2>2 DEF HasPlace, LastIn
<1>6. Dropped'
  BY <1>1 DEF Dropped
<1>7. \A e \in Range(flight) \cup Range(launched) : e.uid \in Uids
  BY EntryUids
<1>8. CASE ~Holds(u) /\ UNCHANGED <<suppressed, freed, deferredFree, req, freeSlots>>
  <2>1. Owned' = Owned /\ u \notin Owned
    BY <1>8 DEF Owned, Holds
  <2>2. Remembered'
    BY <1>5, <1>8, <2>1 DEF Remembered
  <2>3. Released' /\ AsAsked' /\ SlotsKnown'
    BY <1>1, <1>8, <2>1 DEF AccountInv, Released, AsAsked, SlotsKnown
  <2> QED BY <1>6, <2>2, <2>3 DEF AccountInv
<1>9. CASE /\ Holds(u) /\ PendingUses(u)
           /\ suppressed' = suppressed \cup {u}
           /\ deferredFree' = deferredFree \cup {u}
           /\ UNCHANGED <<freed, req, freeSlots>>
  <2>1. Owned' = Owned
    BY <1>9 DEF Owned, Holds
  <2>2. ~req[u].chunked
    BY <1>9, AbortMeetsNoChunk
  <2>3. u \in Answering(flight)
    <3>1. PICK e \in Range(flight) : e.uid = u
      BY <1>9, UsesFlight DEF UidsIn
    <3>2. ~e.chunked
      BY <2>2, <3>1 DEF AccountInv, AsAsked
    <3> QED BY <3>1, <3>2 DEF Answering, Final
  <2>4. HasPlace(u)'
    BY <1>9 DEF HasPlace
  <2>5. Remembered'
    BY <1>5, <1>9, <2>1, <2>2, <2>4 DEF Remembered
  <2>6. Released'
    BY <1>1, <1>9, <2>3 DEF AccountInv, Released
  <2>7. AsAsked' /\ SlotsKnown'
    BY <1>1, <1>9, <2>1 DEF AccountInv, AsAsked, SlotsKnown
  <2> QED BY <1>6, <2>5, <2>6, <2>7 DEF AccountInv
<1>10. CASE /\ Holds(u) /\ FreeReqResources(u, req[u])
            /\ suppressed' = suppressed \ {u} /\ UNCHANGED deferredFree
  <2>1. u \in Holders /\ IsReq(req[u])
    BY <1>10, DeferredList DEF Holders, SlotInv, ReqFields
  <2>2. SlotsKnown' /\ Owned' = Owned \ {u} /\ Becomes(u, req[u])
    BY <1>10, <2>1, FreeSlot DEF AccountInv
  <2>3. \A v \in Uids : req'[v].chunked = req[v].chunked
    BY <2>2 DEF Becomes
  <2>4. Remembered'
    <3>1. Owned \subseteq Uids
      BY DEF Owned
    <3> QED BY <1>5, <1>10, <2>2, <2>3, <3>1 DEF Remembered
  <2>5. Released'
    BY <1>1, <1>3, <1>10 DEF AccountInv, Released
  <2>6. AsAsked'
    BY <1>1, <1>7, <2>3 DEF AccountInv, AsAsked
  <2> QED BY <1>6, <2>2, <2>4, <2>5, <2>6 DEF AccountInv
<1> QED BY <1>1, <1>8, <1>9, <1>10

LEMMA AccountInit == Init => AccountInv
<1> SUFFICES ASSUME Init  PROVE AccountInv
  OBVIOUS
<1>1. Owned = {}
  BY DEF Init, Owned, Holds, NoReq
<1>2. /\ flight = <<>> /\ launched = <<>> /\ prev = <<>> /\ pc = "idle"
      /\ suppressed = {} /\ deferredFree = {}
  BY DEF Init
<1>3. Range(freeSlots) = Slots
  <2>1. MaxRunningReq \in Nat /\ freeSlots = [i \in 1 .. MaxRunningReq |-> i - 1]
    BY SchedulerAssumption DEF Init
  <2>2. ASSUME NEW s \in Slots  PROVE s \in Range(freeSlots)
    <3>1. s + 1 \in 1 .. MaxRunningReq /\ freeSlots[s + 1] = s
      BY <2>1 DEF Slots
    <3> QED BY <2>1, <3>1 DEF Range
  <2>3. ASSUME NEW s \in Range(freeSlots)  PROVE s \in Slots
    BY <2>1, <2>3 DEF Range, Slots
  <2> QED BY <2>2, <2>3
<1>4. Remembered
  BY <1>1 DEF Remembered
<1>5. Released
  BY <1>2 DEF Released
<1>6. AsAsked
  BY <1>2, RangeEmpty DEF AsAsked
<1>7. Dropped
  BY <1>2 DEF Dropped
<1>8. SlotsKnown
  BY <1>3 DEF SlotsKnown
<1> QED BY <1>4, <1>5, <1>6, <1>7, <1>8 DEF AccountInv

LEMMA AccountStep ==
  ASSUME Safe, PageBase, AccountInv, [Next]_vars  PROVE AccountInv'
<1>1. ASSUME NEW u \in Uids, Submit(u) \/ Abort(u)  PROVE AccountInv'
  BY <1>1, SubmitAccount, AbortAccount
<1>2. CASE Step
  <2>1. CASE BeginStep \/ FlushAction \/ ScheduleBurst \/ BeginAdmission
    BY <2>1, BeginStepAccount, FlushAccount, DecodeAccount, QuietAccount
  <2>2. CASE AdmitChunk \/ AdmitNew
    BY <2>2, AdmitAccount
  <2>3. CASE SchedulePrefill \/ ScheduleDecode \/ Reclaim
    BY <2>3, SchedulePrefillAccount, DecodeAccount, QuietAccount
  <2>4. CASE LaunchOne \/ BeginFilter \/ FilterOne \/ EndLaunch
    BY <2>4, LaunchAccount, BeginFilterAccount, FilterAccount, EndLaunchAccount
  <2>5. CASE SkipChunk \/ ReleaseSuppressed
    BY <2>5, SkipAccount, ReleaseAccount
  <2>6. CASE DeliverLast \/ DeliverNext \/ EndStep
    BY <2>6, DeliverLastAccount, DeliverNextAccount, QuietAccount
  <2> QED BY <1>2, <2>1, <2>2, <2>3, <2>4, <2>5, <2>6 DEF Step
<1>3. CASE UNCHANGED vars
  BY <1>3, QuietAccount
<1> QED BY <1>1, <1>2, <1>3 DEF Next, Wait

-----------------------------------------------------------------------------
(* When there is no work.                                                  *)

LEMMA InjectiveCount ==
  ASSUME NEW S, NEW T, NEW f \in [S -> T], IsInjective(f), IsFiniteSet(T)
  PROVE  IsFiniteSet(Range(f)) /\ IsFiniteSet(S) /\ Cardinality(Range(f)) = Cardinality(S)
<1>1. Range(f) \subseteq T
  BY DEF Range
<1>2. IsFiniteSet(Range(f))
  BY <1>1, FS_Subset
<1>3. f \in Injection(S, Range(f))
  BY DEF Injection, Range
<1>4. f \in Surjection(S, Range(f))
  BY DEF Surjection, Range
<1> QED BY <1>2, <1>3, <1>4, FS_Injection

LEMMA ListCount ==
  ASSUME NEW T, IsFiniteSet(T), NEW s \in Seq(T), IsInjective(s)
  PROVE  Cardinality(Range(s)) = Len(s)
<1>1. s \in [1 .. Len(s) -> T] /\ Len(s) \in Nat
  OBVIOUS
<1>2. Cardinality(Range(s)) = Cardinality(1 .. Len(s))
  BY <1>1, InjectiveCount
<1>3. ASSUME NEW n \in Nat  PROVE Cardinality(1 .. n) = n
  <2>1. n \in Int /\ 1 \in Int
    OBVIOUS
  <2>2. Cardinality(1 .. n) = IF 1 > n THEN 0 ELSE n - 1 + 1
    BY <2>1, FS_Interval
  <2>3. (IF 1 > n THEN 0 ELSE n - 1 + 1) = n
    OBVIOUS
  <2> QED BY <2>2, <2>3
<1> QED BY <1>1, <1>2, <1>3

LEMMA NothingLeft ==
  ASSUME PageBase, PageInv, AccountInv, pc = "idle", ~HasWork
  PROVE  /\ Owned = {} /\ suppressed = {} /\ deferredFree = {}
         /\ Len(freeSlots) = MaxRunningReq
         /\ \A q \in Cached(tree) : tree.ref[q] = 0
         /\ Len(freePages) + Cardinality(Cached(tree)) = NumPages
<1>1. /\ pending = <<>> /\ running = <<>> /\ flight = <<>> /\ deferredActions = <<>>
      /\ batch = <<>> /\ chunks = <<>> /\ launched = <<>> /\ prev = <<>>
  BY DeferredList DEF HasWork, LifeInv, Phases
<1>2. suppressed = {} /\ deferredFree = {}
  BY <1>1, EntriesEmpty DEF AccountInv, Released
<1>3. Owned = {}
  <2>1. Waiting = {} /\ Range(running) = {} /\ Range(batch) = {} /\ Freeing = {}
    BY <1>1, RangeEmpty DEF Waiting, Freeing
  <2>2. \A u : ~LastIn(prev, u) /\ ~LastIn(flight, u) /\ ~LastIn(launched, u)
    BY <1>1, EntriesEmpty DEF LastIn
  <2>3. \A u : ~HasPlace(u)
    BY <1>2, <2>1, <2>2 DEF HasPlace
  <2> QED BY <2>3 DEF AccountInv, Remembered
<1>4. Len(freeSlots) = MaxRunningReq
  <2>1. freeSlots \in Seq(Slots) /\ IsInjective(freeSlots)
    BY DeferredList DEF ControlTypeOK, SlotInv, SlotsExclusive, IsInjective
  <2>2. Range(freeSlots) = Slots
    <3>1. Range(freeSlots) \subseteq Slots
      BY <2>1, RangeIn
    <3> QED BY <1>3, <3>1 DEF AccountInv, SlotsKnown
  <2>3. MaxRunningReq \in Nat /\ MaxRunningReq > 0
    BY SchedulerAssumption
  <2>4. IsFiniteSet(Slots) /\ Cardinality(Slots) = MaxRunningReq
    BY <2>3, FS_Interval DEF Slots
  <2> QED BY <2>1, <2>2, <2>4, ListCount
<1>5. \A q \in Cached(tree) : tree.ref[q] = 0
  <2>1. \A q : {u \in Owned : q \in Path(req[u].handle)} = {}
    BY <1>3
  <2> QED BY <2>1, FS_EmptySet DEF PageInv, RefCountsExact
<1>6. Len(freePages) + Cardinality(Cached(tree)) = NumPages
  <2>1. /\ freePages \in Seq(Pages) /\ lazyFree = <<>>
        /\ tree.page \in [Cached(tree) -> Pages]
    BY DEF PageInv, Holding, Lists, Shape
  <2>2. Stock = freePages
    BY <2>1, ConcatEmptySeq DEF Stock
  <2>3. /\ IsInjective(freePages) /\ IsInjective(tree.page)
        /\ Range(freePages) \cap Range(tree.page) = {}
        /\ Pages \subseteq Range(freePages) \cup Range(tree.page)
    BY <1>3, <2>2 DEF PageInv, Places, Singly, Disjoint, Complete
  <2>4. NumPages \in Nat
    BY SchedulerAssumption
  <2>5. IsFiniteSet(Pages) /\ Cardinality(Pages) = NumPages
    BY <2>4, FS_Interval DEF Pages
  <2>6. Range(freePages) \subseteq Pages /\ Range(tree.page) \subseteq Pages
    BY <2>1, RangeIn DEF Range
  <2>7. Range(freePages) \cup Range(tree.page) = Pages
    BY <2>3, <2>6
  <2>8. Cardinality(Range(freePages)) = Len(freePages)
    BY <2>1, <2>3, <2>5, ListCount
  <2>9. IsFiniteSet(Range(tree.page))
        /\ Cardinality(Range(tree.page)) = Cardinality(Cached(tree))
    BY <2>1, <2>3, <2>5, InjectiveCount
  <2>10. IsFiniteSet(Range(freePages))
    BY <2>5, <2>6, FS_Subset
  <2>11. Cardinality(Pages) = Cardinality(Range(freePages)) + Cardinality(Range(tree.page))
    <3>1. Cardinality(Range(freePages) \cap Range(tree.page)) = 0
      BY <2>3, FS_EmptySet
    <3>2. Cardinality(Range(freePages)) \in Nat /\ Cardinality(Range(tree.page)) \in Nat
      BY <2>9, <2>10, FS_CardinalityType
    <3>3. Cardinality(Range(freePages) \cup Range(tree.page))
            = Cardinality(Range(freePages)) + Cardinality(Range(tree.page))
                - Cardinality(Range(freePages) \cap Range(tree.page))
      BY <2>9, <2>10, FS_Union
    <3> DEFINE a == Cardinality(Range(freePages))
               b == Cardinality(Range(tree.page))
    <3>4. a + b - 0 = a + b
      <4>1. a \in Nat /\ b \in Nat
        BY <3>2
      <4> HIDE DEF a, b
      <4> QED BY <4>1
    <3> HIDE DEF a, b
    <3>5. Cardinality(Pages) = a + b - 0
      BY <2>7, <3>1, <3>3 DEF a, b
    <3> QED BY <3>4, <3>5 DEF a, b
  <2> QED BY <2>5, <2>8, <2>9, <2>11
<1> QED BY <1>2, <1>3, <1>4, <1>5, <1>6

(* When the scheduler has no work everything is back that it gave out: the *)
(* table slots, the locks, the pages that are not cached, and no result is *)
(* suppressed and no freeing put off.                                      *)
THEOREM AllComesBack == Safe => (Spec => []IdleClean)
<1> SUFFICES ASSUME Safe  PROVE Spec => []IdleClean
  OBVIOUS
<1>1. Init => AccountInv
  BY AccountInit
<1>2. PageBase /\ PageInv /\ AccountInv /\ [Next]_vars => AccountInv'
  BY AccountStep
<1>3. PageBase /\ PageInv /\ AccountInv => IdleClean
  BY NothingLeft DEF IdleClean, CacheIntegrity
<1>4. Spec => [](PageBase /\ PageInv)
  BY PagesAlways
<1> QED BY <1>1, <1>2, <1>3, <1>4, PTL DEF Spec


-----------------------------------------------------------------------------
(* The reservation of PrefillAdder.                                        *)

\* who may still take pages, and how many: to the end of its answer, but for
\* the last token, which no forward computes
Lent == Waiting \cup Range(running) \cup Range(batch)
        \cup (IF pc = "launch" THEN UidsIn(launched) ELSE {})
Borrowers == Lent \cap Holders
Need(u) == Len(Prompt[u]) + OutputLen(u) - 1 - req[u].cached
Needs == [u \in Borrowers |-> Need(u)]
Debt == SumFunctionOnSet(Needs, Borrowers)

\* the pages there are for them
Credit == Cardinality(Evictable(tree)) + Len(Stock)

Solvent == Debt <= Credit

\* at most the first request that waits is in the middle of its prompt, and
\* when the admission has cut a prompt its budget is used up
OneChunk ==
  /\ \A i \in DOMAIN pending : Holds(pending[i]) => i = 1
  /\ chunks # <<>> => /\ budget <= 0 /\ Len(chunks) = 1
                      /\ \A i \in DOMAIN pending : ~Holds(pending[i])

\* all of a running request but its newest token is computed
AboutToRun(u) == u \in Range(batch) /\ pc # "filter"
OneAhead ==
  \A u \in Borrowers : \/ req[u].chunked \/ AboutToRun(u)
                       \/ req[u].device = req[u].cached + 1

Enough == pc = "launch" => Needed <= Len(freePages)

ReserveInv == OneChunk /\ OneAhead /\ Solvent /\ Enough

LEMMA BorrowerIs ==
  ASSUME PageBase, PageInv, NEW u \in Borrowers
  PROVE  /\ u \in Uids /\ u \in Owned /\ u \notin Gone /\ u \in Holders \ Gone
         /\ req[u].cached \in Nat /\ req[u].device \in Int /\ req[u].max \in Int
         /\ req[u].cached <= req[u].device
         /\ Len(Prompt[u]) \in Nat /\ OutputLen(u) \in Int /\ OutputLen(u) > 0
         /\ req[u].chunked \in BOOLEAN
<1>1. u \in Holders /\ u \in Lent /\ u \in Uids
  BY DEF Borrowers, Holders
<1>2. u \notin Gone
  BY <1>1 DEF Lent, PageBase, ReplyBase, LifeBase, LifeInv, Farewell
<1>3. u \in Owned
  BY <1>1, <1>2, OwnedHolds DEF PageBase
<1>4. req[u].cached \in Nat /\ req[u].cached <= req[u].device
  BY <1>3 DEF PageInv, Holding, Lengths
<1>5. req[u].device \in Int /\ req[u].max \in Int
  BY <1>1 DEF PageBase, ReplyBase, CountInv, Numbers
<1>6. OutputLen(u) > 0
  BY <1>1 DEF PageBase, ReplyBase, CountInv, Fresh, LifeBase, SlotInv, AllSubmitted
<1>7. req[u].chunked \in BOOLEAN
  BY <1>3, OwnedFacts DEF IsReq
<1> QED BY <1>1, <1>2, <1>3, <1>4, <1>5, <1>6, <1>7, PromptTypes

LEMMA BorrowersFinite ==
  ASSUME PageBase, PageInv
  PROVE  IsFiniteSet(Borrowers) /\ Borrowers \subseteq Owned
<1>1. Borrowers \subseteq Owned
  BY BorrowerIs
<1> QED BY <1>1, OwnedFinite, FS_Subset

\* nobody has computed more than it was to compute
LEMMA NeedNat ==
  ASSUME PageBase, PageInv, OneAhead, NEW u \in Borrowers
  PROVE  Need(u) \in Nat
<1>1. /\ u \in Uids /\ u \in Owned /\ u \in Holders \ Gone
      /\ req[u].cached \in Nat /\ req[u].device \in Int /\ req[u].max \in Int
      /\ req[u].cached <= req[u].device
      /\ Len(Prompt[u]) \in Nat /\ OutputLen(u) \in Int /\ OutputLen(u) > 0
  BY BorrowerIs
<1>2. CASE req[u].chunked
  <2>1. req[u].cached <= Len(Prompt[u])
    BY <1>1, <1>2 DEF PageInv, Chunks
  <2> QED BY <1>1, <2>1 DEF Need
<1>3. CASE ~req[u].chunked
  <2>1. /\ req[u].max = Len(Prompt[u]) + OutputLen(u)
        /\ req[u].device <= req[u].max
    BY <1>1, <1>3 DEF PageBase, ReplyBase, CountInv, Counted
  <2>2. CASE AboutToRun(u)
    <3>1. RemainLen(req[u]) > 0
      BY <1>3, <2>2 DEF AboutToRun, PageBase, ReplyBase, CountInv, Room
    <3>2. req[u].device < req[u].max
      BY <1>1, <3>1 DEF RemainLen
    <3> QED BY <1>1, <2>1, <3>2 DEF Need
  <2>3. CASE req[u].device = req[u].cached + 1
    BY <1>1, <2>1, <2>3 DEF Need
  <2> QED BY <1>3, <2>2, <2>3 DEF OneAhead
<1> QED BY <1>2, <1>3

LEMMA DebtInt ==
  ASSUME PageBase, PageInv, OneAhead
  PROVE  /\ Debt \in Int /\ IsFiniteSet(Borrowers)
         /\ \A u \in Borrowers : Needs[u] = Need(u) /\ Needs[u] \in Nat
<1>1. \A u \in Borrowers : Needs[u] = Need(u) /\ Needs[u] \in Nat
  BY NeedNat DEF Needs
<1>2. IsFiniteSet(Borrowers)
  BY BorrowersFinite
<1>3. \A u \in Borrowers : Needs[u] \in Int
  BY <1>1
<1> QED BY <1>1, <1>2, <1>3, SumInt DEF Debt

LEMMA EvictableFinite ==
  ASSUME NEW t, Shape(t)
  PROVE  IsFiniteSet(Evictable(t)) /\ Cardinality(Evictable(t)) \in Nat
BY FS_Subset, FS_CardinalityType DEF Shape, Evictable

LEMMA CreditInt ==
  ASSUME Holding
  PROVE  /\ Credit \in Nat /\ Len(Stock) \in Nat /\ Stock \in Seq(Pages)
         /\ Len(Stock) = Len(freePages) + Len(lazyFree)
         /\ Cardinality(Evictable(tree)) \in Nat
<1>1. freePages \in Seq(Pages) /\ lazyFree \in Seq(Pages)
  BY DEF Holding, Lists
<1>2. Stock \in Seq(Pages) /\ Len(Stock) = Len(freePages) + Len(lazyFree)
  BY <1>1 DEF Stock
<1>3. Cardinality(Evictable(tree)) \in Nat
  BY EvictableFinite DEF Holding
<1> QED BY <1>1, <1>2, <1>3 DEF Credit

-----------------------------------------------------------------------------
(* What the cache and the lists are worth.                                 *)

LEMMA IntervalCount ==
  ASSUME NEW a \in Nat, NEW b \in Nat, a <= b
  PROVE  IsFiniteSet(a + 1 .. b) /\ Cardinality(a + 1 .. b) = b - a
<1>1. IsFiniteSet(a + 1 .. b)
      /\ Cardinality(a + 1 .. b) = IF a + 1 > b THEN 0 ELSE b - (a + 1) + 1
  <2>1. a + 1 \in Int /\ b \in Int
    OBVIOUS
  <2> QED BY <2>1, FS_Interval
<1> QED BY <1>1

\* the prefixes of a list between two lengths are no more than that
LEMMA PrefixCount ==
  ASSUME NEW s, NEW a \in Nat, NEW b \in Nat, a <= b
  PROVE  /\ IsFiniteSet({SubSeq(s, 1, k) : k \in a + 1 .. b})
         /\ Cardinality({SubSeq(s, 1, k) : k \in a + 1 .. b}) <= b - a
<1> DEFINE D == a + 1 .. b
           L == {SubSeq(s, 1, k) : k \in D}
           f == [k \in D |-> SubSeq(s, 1, k)]
<1>1. f \in Surjection(D, L)
  BY DEF Surjection
<1>2. IsFiniteSet(D) /\ Cardinality(D) = b - a
  BY IntervalCount
<1> HIDE DEF D, f, L
<1>3. IsFiniteSet(L) /\ Cardinality(L) <= Cardinality(D)
  BY <1>1, <1>2, FS_Surjection
<1> QED BY <1>2, <1>3 DEF L, D

\* the pages at some positions of a row are as many as the positions
LEMMA SpanCount ==
  ASSUME NEW T, NEW s \in Seq(T), NEW a \in Nat, NEW b \in Nat, a <= b, b <= Len(s),
         \A i, j \in a + 1 .. b : s[i] = s[j] => i = j
  PROVE  IsFiniteSet(Span(s, a, b)) /\ Cardinality(Span(s, a, b)) = b - a
<1> DEFINE D == a + 1 .. b
           f == [k \in D |-> s[k]]
<1>1. f \in [D -> Span(s, a, b)]
  BY DEF Span
<1>2. \A i, j \in D : f[i] = f[j] => i = j
  OBVIOUS
<1>3. \A x \in Span(s, a, b) : \E k \in D : f[k] = x
  BY DEF Span
<1>4. IsFiniteSet(D) /\ Cardinality(D) = b - a
  BY IntervalCount
<1> HIDE DEF D, f
<1>5. f \in Bijection(D, Span(s, a, b))
  BY <1>1, <1>2, <1>3 DEF Bijection, Injection, Surjection, IsInjective
<1>6. IsFiniteSet(Span(s, a, b)) /\ Cardinality(Span(s, a, b)) = Cardinality(D)
  BY <1>4, <1>5, FS_Bijection DEF ExistsBijection
<1> QED BY <1>4, <1>6

\* cache_req locks what others have cached of the request, and gives back as
\* many pages
LEMMA CacheCredit ==
  ASSUME PageBase, Holding, Places, RefCountsExact, NEW u \in Owned, NEW r,
         SameButIds(u, r), NEW finished \in BOOLEAN, CacheReq(u, r, finished),
         UNCHANGED <<pc, pageRow>>
  PROVE  Credit <= Credit'
<1> DEFINE h == req[u].handle
           ids == Take(r.ids, r.cached)
           m == MatchLen(tree, ids)
           E == Evictable(tree)
           F == Evictable(tree')
           L == {SubSeq(ids, 1, k) : k \in Len(h) + 1 .. m}
<1>1. CacheReqEffect(u, r, finished)
  BY CacheReqDoes
<1>2. /\ PageRow(u) \in Seq(Pages) /\ Len(PageRow(u)) = req[u].cached
      /\ ids \in Seq(Tokens) /\ Len(ids) <= req[u].cached
      /\ Begins(h, ids) /\ h \in Seq(Tokens)
      /\ m \in Len(h) .. Len(ids)
      /\ \A k \in 1 .. Len(ids) : SubSeq(ids, 1, k) \in Cached(tree) <=> k <= m
  BY CacheReqParts DEF SameButIds
<1>3. PICK X \in Seq(Pages) :
        /\ Stock' = Stock \o X
        /\ Span(PageRow(u), Len(h), m) \subseteq Range(X)
        /\ IsInjective(X)
  BY <1>1 DEF CacheReqEffect
<1>4. /\ Shape(tree')
      /\ Cached(tree') = Cached(tree) \cup Path(ids)
      /\ \A q \in Cached(tree') :
           tree'.ref[q] = (IF q \in Cached(tree) THEN tree.ref[q] ELSE 0)
                          - (IF q \in Path(h) THEN 1 ELSE 0)
                          + (IF ~finished /\ q \in Path(ids) THEN 1 ELSE 0)
  <2>1. tree' = CacheTree(tree, ids, PageRow(u), h, finished)
    BY <1>1 DEF CacheReqEffect
  <2>2. Shape(tree) /\ Len(ids) <= Len(PageRow(u))
    BY <1>2 DEF Holding
  <2> HIDE DEF ids
  <2> QED BY <1>2, <2>1, <2>2, CacheTreeShape
<1>5. Lists'
  BY <1>1 DEF CacheReqEffect
<1> HIDE DEF h, ids, m
<1>6. \A q \in E : q \in Cached(tree) /\ tree.ref[q] = 0
  BY DEF Evictable
<1>7. E \subseteq F \cup L
  <2> SUFFICES ASSUME NEW q \in E, q \notin F  PROVE q \in L
    OBVIOUS
  <2>1. q \in Cached(tree') /\ tree.ref[q] = 0 /\ q \in Cached(tree)
    BY <1>4, <1>6
  <2>2. tree'.ref[q] # 0
    BY <2>1 DEF Evictable
  <2>3. q \notin Path(h)
    <3> SUFFICES ASSUME q \in Path(h)  PROVE FALSE
      OBVIOUS
    <3>1. Cardinality(Users(q)) = 0
      BY <2>1 DEF RefCountsExact, Users
    <3>2. u \in Users(q)
      BY DEF Users, h
    <3> QED BY <3>1, <3>2, UsersFinite, FS_EmptySet
  <2>4. q \in Path(ids)
    BY <1>4, <2>1, <2>2, <2>3
  <2>5. PICK k \in 1 .. Len(ids) : q = SubSeq(ids, 1, k)
    BY <2>4 DEF Path
  <2>6. k <= m
    BY <1>2, <2>1, <2>5
  <2>7. ~(k <= Len(h))
    <3> SUFFICES ASSUME k <= Len(h)  PROVE FALSE
      OBVIOUS
    <3>1. k \in 0 .. Len(h) /\ k \in 1 .. Len(h)
      BY <1>2
    <3>2. SubSeq(h, 1, k) = SubSeq(ids, 1, k)
      BY <1>2, <3>1, BeginsPath
    <3>3. SubSeq(h, 1, k) \in Path(h)
      BY <3>1 DEF Path
    <3> QED BY <2>3, <2>5, <3>2, <3>3
  <2>8. k \in Len(h) + 1 .. m
    BY <1>2, <2>6, <2>7
  <2> QED BY <2>5, <2>8
<1>8. Len(h) \in Nat /\ m \in Nat /\ Len(h) <= m /\ m <= Len(PageRow(u))
  BY <1>2
<1>9. Cardinality(E) <= Cardinality(F) + (m - Len(h))
  <2>1. IsFiniteSet(F) /\ Cardinality(F) \in Nat
    BY <1>4, EvictableFinite
  <2>2. IsFiniteSet(L) /\ Cardinality(L) <= m - Len(h)
    BY <1>8, PrefixCount
  <2>3. Cardinality(L) \in Nat
    BY <2>2, FS_CardinalityType
  <2> HIDE DEF E, F, L
  <2>4. /\ IsFiniteSet(F \cup L) /\ Cardinality(F \cup L) \in Nat
        /\ Cardinality(F \cap L) \in Nat
        /\ Cardinality(F \cup L) = Cardinality(F) + Cardinality(L) - Cardinality(F \cap L)
    BY <2>1, <2>2, FS_Union, FS_Intersection, FS_CardinalityType
  <2>5. Cardinality(E) <= Cardinality(F \cup L) /\ Cardinality(E) \in Nat
    BY <1>7, <2>4, FS_Subset, FS_CardinalityType
  <2> QED BY <1>8, <2>1, <2>2, <2>3, <2>4, <2>5
<1>10. m - Len(h) <= Len(X)
  <2>1. \A i, j \in Len(h) + 1 .. m : PageRow(u)[i] = PageRow(u)[j] => i = j
    <3>1. \A i \in Len(h) + 1 .. m : i \in Mine(u)
      BY <1>2, <1>8 DEF Mine, h
    <3> QED BY <3>1 DEF Places, Singly
  <2>2. /\ IsFiniteSet(Span(PageRow(u), Len(h), m))
        /\ Cardinality(Span(PageRow(u), Len(h), m)) = m - Len(h)
    BY <1>2, <1>8, <2>1, SpanCount
  <2>3. IsFiniteSet(Pages)
    BY FS_Interval, SchedulerAssumption DEF Pages
  <2>4. Cardinality(Range(X)) = Len(X)
    BY <1>3, <2>3, ListCount
  <2>5. IsFiniteSet(Range(X))
    BY <2>3, FS_Subset, RangeIn
  <2>6. Cardinality(Span(PageRow(u), Len(h), m)) <= Cardinality(Range(X))
    BY <1>3, <2>5, FS_Subset
  <2> QED BY <2>2, <2>4, <2>6
<1>11. Len(Stock') = Len(Stock) + Len(X) /\ Len(Stock) \in Nat /\ Len(X) \in Nat
  BY <1>3, CreditInt
<1>12. Cardinality(E) \in Nat /\ Cardinality(F) \in Nat
  BY <1>4, CreditInt, EvictableFinite
<1> HIDE DEF E, F, L
<1>13. Cardinality(E) + Len(Stock) <= Cardinality(F) + Len(Stock')
  BY <1>8, <1>9, <1>10, <1>11, <1>12
<1> QED BY <1>13 DEF Credit, E, F

LEMMA CreditNext ==
  ASSUME Holding'
  PROVE  /\ Credit' = Cardinality(Evictable(tree')) + Len(Stock')
         /\ Credit' \in Nat /\ Len(Stock') \in Nat /\ Stock' \in Seq(Pages)
         /\ Len(Stock') = Len(freePages') + Len(lazyFree')
         /\ Cardinality(Evictable(tree')) \in Nat
<1>1. freePages' \in Seq(Pages) /\ lazyFree' \in Seq(Pages)
  BY DEF Holding, Lists
<1>2. Stock' \in Seq(Pages) /\ Len(Stock') = Len(freePages') + Len(lazyFree')
  BY <1>1 DEF Stock
<1>3. Cardinality(Evictable(tree')) \in Nat
  BY EvictableFinite DEF Holding
<1> QED BY <1>1, <1>2, <1>3 DEF Credit

\* a request that is freed, now or later, or cached
LEMMA FreeCredit ==
  ASSUME PageBase, CacheInv, NEW u \in Holders, NEW r, IsReq(r), r.slot = req[u].slot,
         u \in Owned => SameButIds(u, r), FreeReqResources(u, r),
         UNCHANGED <<pc, pageRow>>
  PROVE  Credit <= Credit'
<1>1. CASE u \in freed
  <2>1. UNCHANGED cacheVars
    BY <1>1 DEF FreeReqResources
  <2>2. Credit' = Credit /\ Credit \in Nat
    BY <2>1, CreditInt DEF Credit, Stock, cacheVars, CacheInv
  <2> QED BY <2>2
<1>2. CASE u \notin freed
  <2>1. u \in Owned
    BY <1>2 DEF Owned, Holders
  <2>2. CacheReq(u, r, TRUE)
    BY <1>2 DEF FreeReqResources
  <2>3. TRUE \in BOOLEAN /\ SameButIds(u, r)
    BY <2>1
  <2> QED BY <2>1, <2>2, <2>3, CacheCredit DEF CacheInv
<1> QED BY <1>1, <1>2

LEMMA SameCredit ==
  ASSUME Holding, UNCHANGED cacheVars  PROVE Credit <= Credit'
<1>1. Credit' = Credit /\ Credit \in Nat
  BY CreditInt DEF Credit, Stock, cacheVars
<1> QED BY <1>1

LEMMA FreeOrDeferCredit ==
  ASSUME PageBase, CacheInv, NEW u \in Holders, NEW r, IsReq(r), r.slot = req[u].slot,
         u \in Owned => SameButIds(u, r), FreeReqResourcesOrDefer(u, r),
         UNCHANGED <<pc, pageRow>>
  PROVE  Credit <= Credit'
<1>1. CASE MustDefer
  <2>1. UNCHANGED cacheVars
    BY <1>1 DEF FreeReqResourcesOrDefer, Defer
  <2> QED BY <2>1, SameCredit DEF CacheInv
<1>2. CASE ~MustDefer
  BY <1>2, FreeCredit DEF FreeReqResourcesOrDefer
<1> QED BY <1>1, <1>2

LEMMA CacheOrDeferCredit ==
  ASSUME PageBase, CacheInv, NEW u \in Owned, NEW r, SameButIds(u, r),
         CacheReqOrDefer(u, r), UNCHANGED <<pc, pageRow>>
  PROVE  Credit <= Credit'
<1>1. CASE MustDefer
  <2>1. UNCHANGED cacheVars
    BY <1>1 DEF CacheReqOrDefer, Defer
  <2> QED BY <2>1, SameCredit DEF CacheInv
<1>2. CASE ~MustDefer
  <2>1. CacheReq(u, r, FALSE) /\ FALSE \in BOOLEAN
    BY <1>2 DEF CacheReqOrDefer
  <2> QED BY <2>1, CacheCredit DEF CacheInv
<1> QED BY <1>1, <1>2

-----------------------------------------------------------------------------
(* The steps that take no page.                                            *)

\* whoever is not launched yet in this batch, or is in no batch
KeepsBatch == \/ batch = <<>> \/ pc = "filter"
              \/ Range(batch) \subseteq Range(batch') /\ pc' # "filter"

\* needs do not grow when nobody joins and nobody's numbers change
LEMMA SameDebt ==
  ASSUME PageBase, PageInv, OneAhead, \A v \in Uids : req'[v].cached = req[v].cached,
         Borrowers' \subseteq Borrowers
  PROVE  Debt' <= Debt /\ Debt' \in Int /\ Debt \in Int
<1>1. /\ Debt \in Int /\ IsFiniteSet(Borrowers)
      /\ \A u \in Borrowers : Needs[u] = Need(u) /\ Needs[u] \in Nat
  BY DebtInt
<1> DEFINE f == Needs
           g == Needs'
           S == Borrowers
           T == Borrowers'
<1>2. \A u \in T : g[u] = f[u] /\ u \in S
  <2> SUFFICES ASSUME NEW u \in Borrowers'  PROVE Needs'[u] = Needs[u] /\ u \in Borrowers
    OBVIOUS
  <2>1. u \in Borrowers /\ u \in Uids
    BY DEF Borrowers, Holders
  <2>2. Needs'[u] = Need(u)'
    BY DEF Needs
  <2>3. Need(u)' = Need(u)
    BY <2>1 DEF Need
  <2> QED BY <1>1, <2>1, <2>2, <2>3
<1>3. Debt' = SumFunctionOnSet(g, T) /\ Debt = SumFunctionOnSet(f, S)
  BY DEF Debt
<1>4. \A u \in S : f[u] \in Nat
  BY <1>1
<1>5. IsFiniteSet(S) /\ T \subseteq S /\ IsFiniteSet(T)
  BY <1>1, FS_Subset
<1> HIDE DEF f, g, S, T
<1>6. \A u \in T : g[u] \in Int /\ g[u] <= f[u]
  BY <1>2, <1>4
<1>7. SumFunctionOnSet(g, T) <= SumFunctionOnSet(f, S)
  BY <1>4, <1>5, <1>6, SumLess
<1>8. SumFunctionOnSet(g, T) \in Int
  BY <1>5, <1>6, SumInt
<1> QED BY <1>1, <1>3, <1>7, <1>8

LEMMA KeepsReserve ==
  ASSUME PageBase, PageInv, PageInv', ReserveInv, SameNumbers,
         Lent' \cap Holders \subseteq Lent, Credit <= Credit', KeepsBatch,
         OneChunk', pc' # "launch"
  PROVE  ReserveInv'
<1>0. Holders' = Holders
  BY DEF SameNumbers, Holders, Holds
<1>1. Borrowers' \subseteq Borrowers
  BY <1>0 DEF Borrowers
<1>2. Debt' <= Debt /\ Debt' \in Int /\ Debt \in Int
  BY <1>1, SameDebt DEF ReserveInv, SameNumbers
<1>3. Credit \in Nat /\ Credit' \in Nat
  BY CreditInt, CreditNext DEF PageInv
<1>4. Solvent'
  BY <1>2, <1>3 DEF ReserveInv, Solvent
<1>5. OneAhead'
  <2> SUFFICES ASSUME NEW u \in Borrowers'
               PROVE  (req[u].chunked \/ AboutToRun(u)
                        \/ req[u].device = req[u].cached + 1)'
    BY DEF OneAhead
  <2>1. u \in Borrowers /\ u \in Uids
    BY <1>1 DEF Borrowers, Holders
  <2>2. req[u].chunked \/ AboutToRun(u) \/ req[u].device = req[u].cached + 1
    BY <2>1 DEF ReserveInv, OneAhead
  <2>3. /\ req'[u].chunked = req[u].chunked /\ req'[u].device = req[u].device
        /\ req'[u].cached = req[u].cached
    BY <2>1 DEF SameNumbers
  <2>4. AboutToRun(u) => AboutToRun(u)'
    BY RangeEmpty DEF AboutToRun, KeepsBatch
  <2> QED BY <2>2, <2>3, <2>4
<1>6. Enough'
  BY DEF Enough
<1> QED BY <1>4, <1>5, <1>6 DEF ReserveInv

\* the requests that wait, and what is cut of their prompts, stay
LEMMA SameChunk ==
  ASSUME PageBase, OneChunk, SameNumbers, UNCHANGED <<pending, chunks>>,
         UNCHANGED budget \/ chunks = <<>>
  PROVE  OneChunk'
<1>1. \A i \in DOMAIN pending : Holds(pending[i])' <=> Holds(pending[i])
  <2>1. \A i \in DOMAIN pending : pending[i] \in Uids
    BY DEF PageBase, ReplyBase, LifeBase, SlotInv, ControlTypeOK
  <2> QED BY <2>1 DEF Holds, SameNumbers
<1> QED BY <1>1 DEF OneChunk

LEMMA LaunchedIds ==
  ASSUME PageBase
  PROVE  LET ids == [i \in DOMAIN launched |-> launched[i].uid]
         IN  ids \in Seq(Uids) /\ Range(ids) = UidsIn(launched)
<1> DEFINE ids == [i \in DOMAIN launched |-> launched[i].uid]
<1>1. launched \in Seq(Entry)
  BY DeferredList DEF ControlTypeOK
<1>2. /\ DOMAIN launched = 1 .. Len(launched)
      /\ \A i \in DOMAIN launched : launched[i].uid \in Uids
  <2>1. \A e \in Entry : e.uid \in Uids
    BY DEF Entry
  <2>2. DOMAIN launched = 1 .. Len(launched) /\ \A i \in DOMAIN launched : launched[i] \in Entry
    BY <1>1
  <2> QED BY <2>1, <2>2
<1>3. ids \in [1 .. Len(launched) -> Uids] /\ Len(launched) \in Nat
  BY <1>1, <1>2
<1>4. ids \in Seq(Uids)
  <2> HIDE DEF ids
  <2> QED BY <1>3
<1>5. Range(ids) = UidsIn(launched)
  BY DEF Range, UidsIn
<1> QED BY <1>4, <1>5

LEMMA QuietReserve ==
  ASSUME PageBase, PageInv, PageInv', ReserveInv,
         \/ BeginAdmission \/ ScheduleBurst \/ ScheduleDecode \/ BeginStep
         \/ EndLaunch \/ SkipChunk \/ EndStep
  PROVE  ReserveInv'
<1> USE DEF queueVars, batchVars, deferVars, tableVars, cacheVars, clientVars
<1>1. UNCHANGED <<pending, running, chunks, req, tree>>
  BY DEF BeginAdmission, ScheduleBurst, ScheduleDecode, DecodeBatch, BeginStep,
         EndLaunch, SkipChunk, EndStep
<1>2. pc # "launch" /\ pc' # "launch"
  BY DEF BeginAdmission, ScheduleBurst, ScheduleDecode, DecodeBatch, BeginStep,
         EndLaunch, SkipChunk, EndStep, Process, AfterLaunch
<1>3. batch' = batch \/ (batch = <<>> /\ batch' = running)
  <2>1. CASE ScheduleBurst
    BY <2>1, DeferredList DEF ScheduleBurst, DecodeBatch, LifeInv, Phases
  <2>2. CASE ~ScheduleBurst
    BY <2>2 DEF BeginAdmission, ScheduleDecode, DecodeBatch, BeginStep,
         EndLaunch, SkipChunk, EndStep
  <2> QED BY <2>1, <2>2
<1>4. SameNumbers
  BY <1>1 DEF SameNumbers
<1>5. Lent' \cap Holders \subseteq Lent
  BY <1>1, <1>2, <1>3, RangeEmpty DEF Lent, Waiting
<1>6. Credit <= Credit'
  <2>1. Len(Stock') = Len(Stock)
    <3>1. CASE EndStep
      <4>1. freePages' = freePages \o lazyFree /\ lazyFree' = <<>>
        BY <3>1 DEF EndStep
      <4>2. /\ Len(Stock) = Len(freePages) + Len(lazyFree)
            /\ freePages \in Seq(Pages) /\ lazyFree \in Seq(Pages)
        BY CreditInt DEF PageInv, Holding, Lists
      <4>3. Len(Stock') = Len(freePages') + Len(lazyFree')
        BY CreditNext DEF PageInv
      <4>4. Len(freePages') = Len(freePages) + Len(lazyFree) /\ Len(lazyFree') = 0
        BY <4>1, <4>2
      <4> QED BY <4>2, <4>3, <4>4
    <3>2. CASE ~EndStep
      <4>1. UNCHANGED <<freePages, lazyFree>>
        BY <3>2 DEF BeginAdmission, ScheduleBurst, ScheduleDecode, DecodeBatch,
           BeginStep, EndLaunch, SkipChunk
      <4> QED BY <4>1 DEF Stock
    <3> QED BY <3>1, <3>2
  <2>2. Credit \in Nat /\ Credit' = Credit
    BY <1>1, <2>1, CreditInt DEF Credit, PageInv
  <2> QED BY <2>2
<1>7. KeepsBatch
  <2>1. pc = "filter" \/ pc' # "filter"
    BY DEF BeginAdmission, ScheduleBurst, ScheduleDecode, DecodeBatch, BeginStep,
         EndLaunch, SkipChunk, EndStep, Process, AfterLaunch
  <2> QED BY <1>3, <2>1 DEF KeepsBatch
<1>8. UNCHANGED budget \/ chunks = <<>>
  <2>1. CASE BeginAdmission
    BY <2>1, DeferredList DEF BeginAdmission, LifeInv, Phases
  <2>2. CASE ~BeginAdmission
    BY <2>2 DEF ScheduleBurst, ScheduleDecode, DecodeBatch, BeginStep,
         EndLaunch, SkipChunk, EndStep
  <2> QED BY <2>1, <2>2
<1>9. OneChunk'
  BY <1>1, <1>4, <1>8, SameChunk DEF ReserveInv
<1> QED BY <1>2, <1>4, <1>5, <1>6, <1>7, <1>9, KeepsReserve

LEMMA FilterReserve ==
  ASSUME PageBase, PageInv, PageInv', ReserveInv, BeginFilter \/ FilterOne
  PROVE  ReserveInv'
<1>1. UNCHANGED <<pending, chunks, budget, launched, req, tree, freePages, lazyFree>>
  BY DEF BeginFilter, FilterOne, tableVars, cacheVars
<1>2. /\ pc' = "filter"
      /\ Range(running') \cup Range(batch') \subseteq
           Range(running) \cup Range(batch)
           \cup (IF pc = "launch" THEN UidsIn(launched) ELSE {})
      /\ KeepsBatch
  <2>1. CASE BeginFilter
    <3>1. /\ pc = "launch" /\ pc' = "filter" /\ batch = <<>> /\ running' = <<>>
          /\ batch' = running \o [i \in DOMAIN launched |-> launched[i].uid]
      BY <2>1 DEF BeginFilter
    <3> DEFINE ids == [i \in DOMAIN launched |-> launched[i].uid]
    <3>2. ids \in Seq(Uids) /\ Range(ids) = UidsIn(launched)
      BY LaunchedIds
    <3>3. running \in Seq(Uids) /\ batch' = running \o ids
      BY <3>1, DeferredList DEF ControlTypeOK
    <3> HIDE DEF ids
    <3>4. Range(batch') = Range(running) \cup UidsIn(launched)
      BY <3>2, <3>3, ConcatRange
    <3> QED BY <3>1, <3>4, RangeEmpty DEF KeepsBatch
  <2>2. CASE FilterOne
    <3>1. /\ Range(batch) = {Head(batch)} \cup Range(batch')
          /\ Range(running') \subseteq Range(running) \cup {Head(batch)}
          /\ pc = "filter" /\ pc' = pc
      BY <2>2, DeferredList, FilterMoves
    <3> QED BY <3>1 DEF KeepsBatch
  <2> QED BY <2>1, <2>2
<1>3. SameNumbers
  BY <1>1 DEF SameNumbers
<1>4. Lent' \cap Holders \subseteq Lent
  BY <1>1, <1>2 DEF Lent, Waiting
<1>5. Credit <= Credit'
  BY <1>1, SameCredit DEF cacheVars, PageInv
<1>6. OneChunk'
  BY <1>1, <1>3, SameChunk DEF ReserveInv
<1> QED BY <1>2, <1>3, <1>4, <1>5, <1>6, KeepsReserve

\* the requests cut off go back to the front: there is one, and no other that
\* has begun
LEMMA SchedulePrefillReserve ==
  ASSUME PageBase, PageInv, PageInv', ReserveInv, SchedulePrefill
  PROVE  ReserveInv'
<1>1. /\ pc = "admit" /\ pc' = "reclaim" /\ pending' = chunks \o pending
      /\ chunks' = <<>>
      /\ UNCHANGED <<running, batch, launched, req, tree, freePages, lazyFree>>
  BY DEF SchedulePrefill, tableVars, cacheVars
<1>2. pending \in Seq(Uids) /\ chunks \in Seq(Uids)
  BY DeferredList DEF ControlTypeOK
<1>3. Range(pending') = Range(chunks) \cup Range(pending)
  BY <1>1, <1>2, ConcatRange
<1>4. SameNumbers /\ \A v \in Uids : Holds(v)' <=> Holds(v)
  BY <1>1 DEF SameNumbers, Holds
<1>5. Lent' \cap Holders \subseteq Lent
  BY <1>1, <1>3, RangeEmpty DEF Lent, Waiting
<1>6. Credit <= Credit'
  BY <1>1, SameCredit DEF cacheVars, PageInv
<1>7. OneChunk'
  <2>1. CASE chunks = <<>>
    <3>1. pending' = pending
      BY <1>1, <1>2, <2>1
    <3>2. \A i \in DOMAIN pending : pending[i] \in Uids
      BY <1>2
    <3> QED BY <1>1, <1>4, <3>1, <3>2 DEF ReserveInv, OneChunk
  <2>2. CASE chunks # <<>>
    <3>1. Len(chunks) = 1 /\ \A i \in DOMAIN pending : ~Holds(pending[i])
      BY <2>2 DEF ReserveInv, OneChunk
    <3>2. ASSUME NEW i \in DOMAIN pending', i # 1  PROVE ~Holds(pending[i])'
      <4>1. i - 1 \in DOMAIN pending /\ pending'[i] = pending[i - 1]
        <5>1. i \in 1 .. Len(chunks) + Len(pending)
          BY <1>1, <1>2, <3>2
        <5>2. i - 1 \in 1 .. Len(pending) /\ i > Len(chunks) /\ i - Len(chunks) = i - 1
          BY <1>2, <3>1, <3>2, <5>1
        <5>3. (chunks \o pending)[i] = pending[i - Len(chunks)]
          BY <1>2, <5>1, <5>2
        <5> QED BY <1>1, <1>2, <5>2, <5>3
      <4>2. pending[i - 1] \in Uids
        BY <1>2, <4>1
      <4> QED BY <1>4, <3>1, <4>1, <4>2
    <3> QED BY <1>1, <3>2 DEF OneChunk
  <2> QED BY <2>1, <2>2
<1>8. KeepsBatch
  BY <1>1 DEF KeepsBatch
<1> QED BY <1>1, <1>4, <1>5, <1>6, <1>7, <1>8, KeepsReserve

-----------------------------------------------------------------------------
(* The steps that free or cache.                                           *)

LEMMA HandReserve ==
  ASSUME PageBase, PageInv, PageInv', ReserveInv, SameNumbers, Credit <= Credit',
         batch = <<>>, pc # "launch", UNCHANGED <<pc, batch>>,
         Waiting' \subseteq Waiting, Range(running') \subseteq Range(running), OneChunk'
  PROVE  ReserveInv'
<1>1. Lent' \cap Holders \subseteq Lent
  BY DEF Lent
<1>2. KeepsBatch
  BY DEF KeepsBatch
<1> QED BY <1>1, <1>2, KeepsReserve

LEMMA SubmitReserve ==
  ASSUME PageBase, PageInv, PageInv', ReserveInv, NEW u \in Uids, Submit(u)
  PROVE  ReserveInv'
<1>1. /\ u \notin submitted /\ pc = "idle" /\ pending' = Append(pending, u)
      /\ UNCHANGED <<pc, running, batch, chunks, budget, launched, req,
                     tree, freePages, lazyFree>>
  BY DEF Submit, batchVars, tableVars, cacheVars
<1>2. ~Holds(u) /\ u \notin Holders
  BY <1>1 DEF PageBase, ReplyBase, LifeBase, SlotInv, AllSubmitted, Holders
<1>3. SameNumbers /\ \A v \in Uids : Holds(v)' <=> Holds(v)
  BY <1>1 DEF SameNumbers, Holds
<1>4. pending \in Seq(Uids)
  BY DeferredList DEF ControlTypeOK
<1>5. Range(pending') = Range(pending) \cup {u}
  BY <1>1, <1>4, RangeAppend
<1>6. Lent' \cap Holders \subseteq Lent
  BY <1>1, <1>2, <1>5 DEF Lent, Waiting
<1>7. OneChunk'
  <2>1. ASSUME NEW i \in DOMAIN pending', Holds(pending[i])'
        PROVE  i \in DOMAIN pending /\ Holds(pending[i])
    <3>1. i \in 1 .. Len(pending) + 1
          /\ pending'[i] = IF i = Len(pending) + 1 THEN u ELSE pending[i]
      BY <1>1, <1>4
    <3>2. CASE i = Len(pending) + 1
      BY <1>2, <1>3, <2>1, <3>1, <3>2
    <3>3. CASE i # Len(pending) + 1
      <4>1. i \in DOMAIN pending /\ pending[i] \in Uids /\ pending'[i] = pending[i]
        BY <1>4, <3>1, <3>3
      <4> QED BY <1>3, <2>1, <4>1
    <3> QED BY <3>2, <3>3
  <2> QED BY <1>1, <2>1 DEF ReserveInv, OneChunk
<1>8. Credit <= Credit'
  BY <1>1, SameCredit DEF cacheVars, PageInv
<1>9. KeepsBatch
  BY <1>1 DEF KeepsBatch
<1> QED BY <1>1, <1>3, <1>6, <1>7, <1>8, <1>9, KeepsReserve

\* erasing a request leaves the others in their order
LEMMA EraseBefore ==
  ASSUME NEW S, NEW s \in Seq(S), NEW u
  PROVE  \A i \in DOMAIN Erase(s, u) :
           \E j \in DOMAIN s : Erase(s, u)[i] = s[j] /\ i <= j
<1>1. CASE ~Contains(s, u)
  <2>1. Erase(s, u) = s
    BY <1>1 DEF Erase
  <2>2. \A i \in DOMAIN s : i <= i
    OBVIOUS
  <2> QED BY <2>1, <2>2
<1>2. CASE Contains(s, u)
  <2> DEFINE k == CHOOSE i \in DOMAIN s : s[i] = u
             t == RemoveAt(s, k)
  <2>1. k \in 1 .. Len(s)
    BY <1>2 DEF Contains
  <2> HIDE DEF k
  <2>2. t = SubSeq(s, 1, k - 1) \o SubSeq(s, k + 1, Len(s))
    BY DEF RemoveAt
  <2>3. /\ SubSeq(s, 1, k - 1) \in Seq(S) /\ Len(SubSeq(s, 1, k - 1)) = k - 1
        /\ SubSeq(s, k + 1, Len(s)) \in Seq(S) /\ Len(SubSeq(s, k + 1, Len(s))) = Len(s) - k
        /\ \A i \in 1 .. k - 1 : SubSeq(s, 1, k - 1)[i] = s[i]
        /\ \A i \in 1 .. Len(s) - k : SubSeq(s, k + 1, Len(s))[i] = s[k + i]
    BY <2>1
  <2> DEFINE x == SubSeq(s, 1, k - 1)
             y == SubSeq(s, k + 1, Len(s))
  <2> HIDE DEF x, y, t
  <2>4. /\ x \in Seq(S) /\ Len(x) = k - 1 /\ y \in Seq(S) /\ Len(y) = Len(s) - k
        /\ \A i \in 1 .. k - 1 : x[i] = s[i]
        /\ \A i \in 1 .. Len(s) - k : y[i] = s[k + i]
        /\ t = x \o y
    BY <2>2, <2>3 DEF x, y
  <2>5. DOMAIN t = 1 .. Len(s) - 1
    BY <2>1, <2>4
  <2>6. ASSUME NEW i \in 1 .. Len(s) - 1
        PROVE  \E j \in DOMAIN s : t[i] = s[j] /\ i <= j
    <3>1. CASE i <= k - 1
      <4>1. t[i] = x[i] /\ x[i] = s[i] /\ i \in DOMAIN s /\ i <= i
        BY <2>1, <2>4, <3>1
      <4> QED BY <4>1
    <3>2. CASE ~(i <= k - 1)
      <4>1. i - (k - 1) \in 1 .. Len(s) - k /\ k + (i - (k - 1)) = i + 1
            /\ i + 1 \in DOMAIN s /\ i <= i + 1
        BY <2>1, <3>2
      <4>2. t[i] = y[i - (k - 1)]
        BY <2>1, <2>4, <3>2, <4>1
      <4>3. t[i] = s[i + 1]
        BY <2>4, <4>1, <4>2
      <4> QED BY <4>1, <4>3
    <3> QED BY <3>1, <3>2
  <2>7. Erase(s, u) = t
    BY <1>2 DEF Erase, t, k
  <2> QED BY <2>5, <2>6, <2>7
<1> QED BY <1>1, <1>2

LEMMA AbortReserve ==
  ASSUME PageBase, PageInv, PageInv', ReserveInv, NEW u \in Uids, Abort(u)
  PROVE  ReserveInv'
<1>1. /\ pc = "idle"
      /\ \/ UNCHANGED <<freed, req, cacheVars>>
         \/ Holds(u) /\ FreeReqResources(u, req[u])
      /\ pending' = Erase(pending, u) /\ running' = Erase(running, u)
      /\ UNCHANGED <<pc, pageRow, batch, chunks, budget>>
  BY DEF Abort, batchVars, cacheVars
<1>2. batch = <<>> /\ chunks = <<>> /\ IsReq(req[u]) /\ DOMAIN req = Uids
  BY <1>1, DeferredList DEF LifeInv, Phases, SlotInv, ReqFields
<1>3. pending \in Seq(Uids) /\ running \in Seq(Uids)
  BY DeferredList DEF ControlTypeOK
<1>4. IsInjective(pending) /\ IsInjective(running)
  BY DeferredList DEF LifeInv, Once
<1>5. Range(pending') \subseteq Range(pending) /\ Range(running') \subseteq Range(running)
  <2>1. Range(pending') = Range(pending) \ {u}
    BY <1>1, <1>3, <1>4, EraseRange
  <2>2. Range(running') = Range(running) \ {u}
    BY <1>1, <1>3, <1>4, EraseRange
  <2> QED BY <2>1, <2>2
<1>6. SameNumbers /\ Credit <= Credit'
  <2>1. CASE UNCHANGED <<freed, req, cacheVars>>
    BY <2>1, SameCredit DEF SameNumbers, PageInv
  <2>2. CASE Holds(u) /\ FreeReqResources(u, req[u])
    <3>1. Becomes(u, req[u])
      BY <1>2, <2>2, FreeBecomes
    <3>2. u \in Owned => SameButIds(u, req[u])
      BY OwnRecord DEF PageInv
    <3>3. u \in Holders /\ CacheInv
      BY <2>2 DEF Holders, PageInv, CacheInv
    <3>4. Credit <= Credit'
      BY <1>1, <1>2, <2>2, <3>2, <3>3, FreeCredit
    <3> QED BY <3>1, <3>4, BecomesNumbers
  <2> QED BY <1>1, <2>1, <2>2
<1>7. \A v \in Uids : Holds(v)' <=> Holds(v)
  BY <1>6 DEF SameNumbers, Holds
<1>8. OneChunk'
  <2>1. ASSUME NEW i \in DOMAIN pending', Holds(pending[i])'  PROVE i = 1
    <3>1. PICK j \in DOMAIN pending : pending'[i] = pending[j] /\ i <= j
      BY <1>1, <1>3, EraseBefore
    <3>2. Holds(pending[j])
      <4>1. pending[j] \in Uids
        BY <1>3, <3>1
      <4> QED BY <1>7, <2>1, <3>1, <4>1
    <3>3. j = 1
      BY <3>2 DEF ReserveInv, OneChunk
    <3>4. i \in Nat \ {0}
      <4>1. pending' \in Seq(Uids)
        BY <1>1, <1>3, <1>4, EraseRange
      <4> QED BY <4>1
    <3> QED BY <3>1, <3>3, <3>4
  <2> QED BY <1>1, <1>2, <2>1 DEF OneChunk
<1>9. Waiting' \subseteq Waiting
  BY <1>1, <1>5 DEF Waiting
<1> QED BY <1>1, <1>2, <1>5, <1>6, <1>8, <1>9, HandReserve

LEMMA FlushReserve ==
  ASSUME PageBase, PageInv, PageInv', ReserveInv, FlushAction  PROVE ReserveInv'
<1> DEFINE act == Head(deferredActions)
           A == [uid : Uids, finished : BOOLEAN]
           u == act.uid
<1>1. /\ pc = "schedule" /\ deferredActions # <<>>
      /\ \/ act.finished /\ FreeReqResources(u, req[u])
         \/ ~act.finished /\ CacheReq(u, req[u], FALSE)
      /\ UNCHANGED <<pc, pageRow, batch, pending, running, chunks, budget>>
  BY DEF FlushAction, batchVars, queueVars
<1>2. deferredActions \in Seq(A)
  BY DeferredList
<1>3. act \in A /\ act \in Range(deferredActions) /\ deferredActions[1] = act
      /\ 1 \in DOMAIN deferredActions
  <2>1. act \in A /\ Range(deferredActions) = {act} \cup Range(Tail(deferredActions))
    BY <1>1, <1>2, HeadTail
  <2> QED BY <1>1, <1>2, <2>1
<1>4. u \in Uids /\ u \in Holders
  BY <1>3 DEF PageBase, ReplyBase, LifeBase, SlotInv, AllHold
<1>5. ~act.finished => u \in Caching
  BY <1>3 DEF Caching
<1> HIDE DEF act, A
<1>6. batch = <<>> /\ chunks = <<>> /\ IsReq(req[u]) /\ DOMAIN req = Uids
  BY <1>1, <1>4, DeferredList DEF LifeInv, Phases, SlotInv, ReqFields
<1>7. u \in Owned => SameButIds(u, req[u])
  BY OwnRecord DEF PageInv
<1>8. CacheInv
  BY DEF PageInv, CacheInv
<1>9. Becomes(u, req[u]) /\ Credit <= Credit'
  <2>1. CASE act.finished
    <3>1. FreeReqResources(u, req[u])
      BY <1>1, <2>1
    <3>2. Becomes(u, req[u])
      BY <1>4, <1>6, <3>1, FreeBecomes
    <3>3. Credit <= Credit'
      BY <1>1, <1>4, <1>6, <1>7, <1>8, <3>1, FreeCredit
    <3> QED BY <3>2, <3>3
  <2>2. CASE ~act.finished
    <3>1. CacheReq(u, req[u], FALSE) /\ FALSE \in BOOLEAN
      BY <1>1, <2>2
    <3>2. u \in Owned
      BY <1>5, <2>2 DEF PageInv, Put
    <3>3. Becomes(u, req[u])
      BY <1>4, <1>6, <3>1, CacheReqBecomes
    <3>4. Credit <= Credit'
      BY <1>1, <1>7, <1>8, <3>1, <3>2, CacheCredit DEF CacheInv
    <3> QED BY <3>3, <3>4
  <2> QED BY <2>1, <2>2
<1>10. SameNumbers
  BY <1>4, <1>9, BecomesNumbers
<1>11. OneChunk'
  BY <1>1, <1>10, SameChunk DEF ReserveInv
<1>12. Waiting' = Waiting /\ running' = running
  BY <1>1 DEF Waiting
<1> QED BY <1>1, <1>6, <1>9, <1>10, <1>11, <1>12, HandReserve

LEMMA ReleaseReserve ==
  ASSUME PageBase, PageInv, PageInv', ReserveInv, ReleaseSuppressed, NEW u, u = Current.uid
  PROVE  ReserveInv'
<1>1. /\ Process
      /\ \/ FreeReqResourcesOrDefer(u, req[u])
         \/ UNCHANGED <<freed, deferredActions, req, cacheVars>>
      /\ UNCHANGED <<pc, pageRow, batch, pending, running, chunks, budget>>
  BY DEF ReleaseSuppressed, batchVars, queueVars
<1>2. u \in Uids /\ u \in Holders /\ batch = <<>> /\ pc = "process"
  BY <1>1, ProcessMoves, DeferredList
<1>3. IsReq(req[u]) /\ ControlTypeOK
  BY <1>2, DeferredList DEF SlotInv, ReqFields
<1>4. u \in Owned => SameButIds(u, req[u])
  BY OwnRecord DEF PageInv
<1>5. CacheInv
  BY DEF PageInv, CacheInv
<1>6. SameNumbers /\ Credit <= Credit'
  <2>1. CASE FreeReqResourcesOrDefer(u, req[u])
    <3>1. Becomes(u, req[u])
      BY <1>2, <1>3, <2>1, FreeOrDeferBecomes
    <3>2. Credit <= Credit'
      BY <1>1, <1>2, <1>3, <1>4, <1>5, <2>1, FreeOrDeferCredit
    <3> QED BY <1>2, <3>1, <3>2, BecomesNumbers
  <2>2. CASE UNCHANGED <<freed, deferredActions, req, cacheVars>>
    BY <2>2, SameCredit DEF SameNumbers, PageInv
  <2> QED BY <1>1, <2>1, <2>2
<1>7. OneChunk'
  BY <1>1, <1>6, SameChunk DEF ReserveInv
<1>8. Waiting' = Waiting /\ running' = running
  BY <1>1 DEF Waiting
<1> QED BY <1>1, <1>2, <1>6, <1>7, <1>8, HandReserve

LEMMA DeliverReserve ==
  ASSUME PageBase, PageInv, PageInv', ReserveInv, DeliverLast \/ DeliverNext,
         NEW u, u = Current.uid
  PROVE  ReserveInv'
<1>1. PICK finished \in BOOLEAN : Deliver(finished)
  BY DEF DeliverLast, DeliverNext
<1>2. /\ Process /\ u \notin Gone
      /\ UNCHANGED <<pc, pageRow, batch, pending, chunks, budget>>
  BY <1>1, DeliverMoves, DeferredList DEF Deliver, batchVars
<1>3. /\ u \in Uids /\ u \in Holders /\ batch = <<>> /\ pc = "process" /\ Current \in Entry
  BY <1>2, ProcessMoves, DeferredList
<1>4. u \in Owned
  BY <1>2, <1>3, OwnedHolds DEF PageBase
<1>5. SameButIds(u, Appended)
  BY <1>3, <1>4, AppendedSame DEF PageInv
<1>6. IsReq(Appended) /\ Appended.slot = req[u].slot
  BY <1>5 DEF SameButIds
<1>7. CacheInv
  BY DEF PageInv, CacheInv
<1>8. Credit <= Credit'
  <2>1. CASE FreeReqResourcesOrDefer(u, Appended)
    BY <1>2, <1>3, <1>5, <1>6, <1>7, <2>1, FreeOrDeferCredit
  <2>2. CASE CacheReqOrDefer(u, Appended)
    BY <1>2, <1>4, <1>5, <1>7, <2>2, CacheOrDeferCredit
  <2>3. CASE UNCHANGED cacheVars
    BY <2>3, SameCredit DEF PageInv
  <2> QED BY <2>1, <2>2, <2>3 DEF DeliverLast, DeliverNext
<1>9. Becomes(u, Appended) /\ Range(running') \subseteq Range(running)
  BY DeliverBecomes DEF PageBase, ReplyBase
<1>10. SameNumbers
  <2>1. /\ Appended.slot = req[u].slot /\ Appended.cached = req[u].cached
        /\ Appended.device = req[u].device /\ Appended.max = req[u].max
        /\ Appended.chunked = req[u].chunked
    BY <1>3, AppendedBecomes, DeferredList
  <2> QED BY <1>3, <1>9, <2>1, BecomesNumbers
<1>11. OneChunk'
  BY <1>2, <1>10, SameChunk DEF ReserveInv
<1>12. Waiting' = Waiting
  BY <1>2 DEF Waiting
<1> QED BY <1>2, <1>3, <1>8, <1>9, <1>10, <1>11, <1>12, HandReserve

-----------------------------------------------------------------------------
(* The batch and what it needs.                                            *)

LEMMA ListSum ==
  ASSUME NEW T, NEW s \in Seq(T), IsInjective(s), NEW f, \A u \in Range(s) : f[u] \in Int
  PROVE  SumFunction([i \in DOMAIN s |-> f[s[i]]]) = SumFunctionOnSet(f, Range(s))
<1> DEFINE n == Len(s)
           g == [i \in 1 .. n |-> f[s[i]]]
<1>1. n \in Nat /\ DOMAIN s = 1 .. n
  OBVIOUS
<1>2. Range(s) = {s[i] : i \in 1 .. n}
  BY <1>1 DEF Range
<1> HIDE DEF n
<1>3. \A i, j \in 1 .. n : s[i] = s[j] => i = j
  BY <1>1 DEF IsInjective
<1>4. \A i \in 1 .. n : f[s[i]] \in Int
  BY <1>2
<1>5. SumFunctionOnSet(g, 1 .. n) = SumFunctionOnSet(f, {s[i] : i \in 1 .. n})
  BY <1>1, <1>3, <1>4, SumList
<1>6. DOMAIN g = 1 .. n
  OBVIOUS
<1>7. SumFunction(g) = SumFunctionOnSet(g, 1 .. n)
  BY <1>6 DEF SumFunction
<1> QED BY <1>1, <1>2, <1>5, <1>7

\* how many tokens the requests of the batch extend
Extends == [u \in Range(batch) |-> ExtendLen(req[u])]
BatchSum == Needed = SumFunctionOnSet(Extends, Range(batch))

LEMMA BatchIs ==
  ASSUME PageBase, PageInv, pc # "filter", NEW u \in Range(batch)
  PROVE  /\ u \in Borrowers /\ u \in Owned /\ u \in Uids
         /\ req[u].cached \in Nat /\ req[u].device \in Int
         /\ ExtendLen(req[u]) \in Nat /\ ExtendLen(req[u]) <= Need(u) /\ Need(u) \in Nat
<1>1. u \in Holders
  BY DEF PageBase, ReplyBase, LifeBase, SlotInv, AllHold, Range
<1>2. u \in Borrowers
  BY <1>1 DEF Borrowers, Lent
<1>3. /\ u \in Uids /\ u \in Owned /\ u \in Holders \ Gone
      /\ req[u].cached \in Nat /\ req[u].device \in Int /\ req[u].max \in Int
      /\ req[u].cached <= req[u].device
      /\ Len(Prompt[u]) \in Nat /\ OutputLen(u) \in Int /\ OutputLen(u) > 0
  BY <1>2, BorrowerIs
<1>4. ExtendLen(req[u]) \in Nat
  BY <1>3 DEF ExtendLen
<1>5. ExtendLen(req[u]) <= Need(u)
  <2>1. CASE req[u].chunked
    <3>1. req[u].device < Len(Prompt[u])
      BY <2>1 DEF PageInv, Chunks
    <3> QED BY <1>3, <3>1 DEF Need, ExtendLen
  <2>2. CASE ~req[u].chunked
    <3>1. req[u].max = Len(Prompt[u]) + OutputLen(u)
      BY <1>3, <2>2 DEF PageBase, ReplyBase, CountInv, Counted
    <3>2. RemainLen(req[u]) > 0
      BY <2>2 DEF PageBase, ReplyBase, CountInv, Room
    <3>3. req[u].device < req[u].max
      BY <1>3, <3>2 DEF RemainLen
    <3> QED BY <1>3, <3>1, <3>3 DEF Need, ExtendLen
  <2> QED BY <2>1, <2>2
<1>6. Need(u) \in Nat
  BY <1>3, <1>4, <1>5 DEF Need
<1> QED BY <1>2, <1>3, <1>4, <1>5, <1>6

LEMMA NeededSums ==
  ASSUME PageBase, PageInv, pc # "filter"
  PROVE  /\ BatchSum /\ IsFiniteSet(Range(batch))
         /\ \A u \in Range(batch) : Extends[u] = ExtendLen(req[u]) /\ Extends[u] \in Nat
         /\ Needed \in Int
<1>1. batch \in Seq(Uids) /\ IsInjective(batch)
  BY DeferredList DEF ControlTypeOK, LifeInv, Once
<1>2. \A u \in Range(batch) : Extends[u] = ExtendLen(req[u]) /\ Extends[u] \in Nat
  BY BatchIs DEF Extends
<1>3. IsFiniteSet(Range(batch))
  <2>1. Range(batch) \subseteq Borrowers
    BY BatchIs
  <2> QED BY <2>1, BorrowersFinite, FS_Subset
<1>4. \A i \in DOMAIN batch : Extends[batch[i]] = ExtendLen(req[batch[i]])
  BY <1>2 DEF Range
<1> DEFINE f == Extends
<1> HIDE DEF f
<1>5. \A u \in Range(batch) : f[u] \in Int
  BY <1>2 DEF f
<1>6. SumFunction([i \in DOMAIN batch |-> f[batch[i]]]) = SumFunctionOnSet(f, Range(batch))
  BY <1>1, <1>5, ListSum
<1>7. [i \in DOMAIN batch |-> f[batch[i]]] = [i \in DOMAIN batch |-> ExtendLen(req[batch[i]])]
  BY <1>4 DEF f
<1>8. BatchSum
  BY <1>6, <1>7 DEF BatchSum, Needed, f
<1>9. SumFunctionOnSet(f, Range(batch)) \in Int
  BY <1>3, <1>5, SumInt
<1> QED BY <1>2, <1>3, <1>8, <1>9 DEF BatchSum, f

\* what the batch needs is owed to it
LEMMA NeededLess ==
  ASSUME PageBase, PageInv, ReserveInv, pc # "filter"
  PROVE  Needed <= Debt
<1> DEFINE f == Needs
           g == Extends
           S == Borrowers
           T == Range(batch)
<1>1. /\ IsFiniteSet(S) /\ \A u \in S : f[u] = Need(u) /\ f[u] \in Nat
  BY DebtInt DEF ReserveInv
<1>2. /\ Needed = SumFunctionOnSet(g, T)
      /\ \A u \in T : g[u] = ExtendLen(req[u]) /\ g[u] \in Nat
  BY NeededSums DEF BatchSum
<1>3. \A u \in T : u \in S /\ ExtendLen(req[u]) <= Need(u)
  BY BatchIs
<1>4. Debt = SumFunctionOnSet(f, S)
  BY DEF Debt
<1> HIDE DEF f, g, S, T
<1>5. \A u \in T : g[u] \in Int /\ g[u] <= f[u]
  BY <1>1, <1>2, <1>3
<1>6. T \subseteq S /\ \A u \in S : f[u] \in Nat
  BY <1>1, <1>3
<1>7. SumFunctionOnSet(g, T) <= SumFunctionOnSet(f, S)
  BY <1>1, <1>5, <1>6, SumLess
<1> QED BY <1>2, <1>4, <1>7

\* what is evicted moves from the cache to the free pages
LEMMA EvictCredit ==
  ASSUME PageInv, pc = "reclaim", UNCHANGED lazyFree, NEW n \in Int,
         NEW E \in EvictionSets(tree, n), tree' = Evict(tree, E),
         freePages' = freePages \o SetToSeq({tree.page[q] : q \in E}), PageInv'
  PROVE  Credit' = Credit /\ Credit \in Nat /\ Len(freePages') >= Len(freePages) + n
<1> DEFINE S == {tree.page[q] : q \in E}
           X == SetToSeq(S)
           f == [q \in E |-> tree.page[q]]
<1>1. Shape(tree) /\ IsInjective(tree.page) /\ freePages \in Seq(Pages) /\ lazyFree = <<>>
  BY DEF PageInv, Holding, Places, Singly, Lists
<1>2. /\ E \subseteq Evictable(tree) /\ E \subseteq Cached(tree) /\ ClosedBelow(tree, E)
      /\ Cardinality(E) >= n
  BY DEF EvictionSets, Evictable
<1>3. /\ IsFiniteSet(Evictable(tree)) /\ IsFiniteSet(E) /\ Cardinality(E) \in Nat
      /\ Cardinality(Evictable(tree)) \in Nat
  BY <1>1, <1>2, EvictableFinite, FS_Subset, FS_CardinalityType
<1>4. Evictable(tree') = Evictable(tree) \ E
  <2>1. ASSUME NEW t2, t2 = Evict(tree, E)
        PROVE  /\ Cached(t2) = Cached(tree) \ E
               /\ \A q \in Cached(t2) : t2.ref[q] = tree.ref[q]
    BY <1>1, <1>2, <2>1, EvictShape
  <2>2. /\ Cached(tree') = Cached(tree) \ E
        /\ \A q \in Cached(tree') : tree'.ref[q] = tree.ref[q]
    BY <2>1
  <2> QED BY <2>2 DEF Evictable
<1>5. Cardinality(Evictable(tree')) = Cardinality(Evictable(tree)) - Cardinality(E)
  <2>1. Evictable(tree) \cap E = E
    BY <1>2
  <2>2. Cardinality(Evictable(tree) \ E)
          = Cardinality(Evictable(tree)) - Cardinality(Evictable(tree) \cap E)
    BY <1>3, FS_Difference
  <2> QED BY <1>4, <2>1, <2>2
<1>6. S \subseteq Pages /\ IsFiniteSet(Pages)
  <2>1. Pages = 1 .. NumPages /\ NumPages \in Int /\ 1 \in Int
    BY SchedulerAssumption DEF Pages
  <2>2. IsFiniteSet(Pages)
    BY <2>1, FS_Interval
  <2>3. S \subseteq Pages
    BY <1>1, <1>2 DEF Shape
  <2> QED BY <2>2, <2>3
<1>7. IsFiniteSet(S) /\ Cardinality(S) = Cardinality(E)
  <2>1. f \in [E -> Pages] /\ IsInjective(f) /\ Range(f) = S
    <3>1. f \in [E -> Pages] /\ Range(f) = S
      BY <1>6 DEF Range
    <3>2. DOMAIN tree.page = Cached(tree)
      BY <1>1 DEF Shape
    <3>3. \A p, q \in E : tree.page[p] = tree.page[q] => p = q
      BY <1>1, <1>2, <3>2 DEF IsInjective
    <3>4. IsInjective(f)
      BY <3>3 DEF IsInjective
    <3> QED BY <3>1, <3>4
  <2> HIDE DEF f, S
  <2> QED BY <1>6, <2>1, InjectiveCount
<1>8. freePages' = freePages \o X
  OBVIOUS
<1> HIDE DEF S
<1>9. X \in Seq(S) /\ Range(X) = S /\ IsInjective(X)
  BY <1>7, SetToSeqFacts
<1> HIDE DEF X
<1>10. Cardinality(Range(X)) = Len(X)
  BY <1>7, <1>9, ListCount
<1>11. X \in Seq(Pages) /\ Len(X) = Cardinality(E)
  BY <1>6, <1>7, <1>9, <1>10
<1>12. Len(freePages') = Len(freePages) + Cardinality(E) /\ Len(freePages) \in Nat
  BY <1>1, <1>8, <1>11
<1>13. Len(Stock) = Len(freePages) /\ Credit \in Nat
  <2>1. Len(Stock) = Len(freePages) + Len(lazyFree) /\ Credit \in Nat
    BY CreditInt DEF PageInv
  <2>2. Len(lazyFree) = 0
    BY <1>1
  <2> QED BY <1>12, <2>1, <2>2
<1>14. Len(Stock') = Len(freePages') /\ Credit' = Cardinality(Evictable(tree')) + Len(Stock')
  <2>1. /\ Len(Stock') = Len(freePages') + Len(lazyFree')
        /\ Credit' = Cardinality(Evictable(tree')) + Len(Stock')
    BY CreditNext DEF PageInv
  <2>2. Len(lazyFree') = 0
    BY <1>1
  <2>3. Len(freePages') \in Nat
    BY <1>3, <1>12
  <2> QED BY <2>1, <2>2, <2>3
<1>15. Credit = Cardinality(Evictable(tree)) + Len(Stock)
  BY DEF Credit
<1> QED BY <1>2, <1>3, <1>5, <1>12, <1>13, <1>14, <1>15

LEMMA ReclaimReserve ==
  ASSUME PageBase, PageInv, PageInv', ReserveInv, Reclaim
  PROVE  ReserveInv'
<1>1. /\ pc = "reclaim" /\ pc' = "launch"
      /\ UNCHANGED <<pending, running, batch, chunks, budget, launched, req, lazyFree>>
      /\ \/ UNCHANGED <<tree, freePages>> /\ Needed <= Len(freePages)
         \/ \E E \in EvictionSets(tree, Needed - Len(freePages)) :
              /\ tree' = Evict(tree, E)
              /\ freePages' = freePages \o SetToSeq({tree.page[q] : q \in E})
  BY DEF Reclaim, queueVars, batchVars
<1>2. launched = <<>>
  BY <1>1, DeferredList DEF LifeInv, Phases
<1>3. SameNumbers /\ \A v \in Uids : Holds(v)' <=> Holds(v)
  BY <1>1 DEF SameNumbers, Holds
<1>4. Needed \in Int /\ Len(freePages) \in Nat
  <2>1. Needed \in Int
    BY <1>1, NeededSums
  <2>2. freePages \in Seq(Pages)
    BY DEF PageInv, Holding, Lists
  <2> QED BY <2>1, <2>2
<1>5. Credit' = Credit /\ Credit \in Nat /\ Needed <= Len(freePages')
  <2>1. CASE UNCHANGED <<tree, freePages>> /\ Needed <= Len(freePages)
    BY <1>1, <2>1, CreditInt DEF Credit, Stock, PageInv
  <2>2. ASSUME NEW E \in EvictionSets(tree, Needed - Len(freePages)),
               tree' = Evict(tree, E),
               freePages' = freePages \o SetToSeq({tree.page[q] : q \in E})
        PROVE  Credit' = Credit /\ Credit \in Nat /\ Needed <= Len(freePages')
    <3>1. UNCHANGED lazyFree /\ Needed - Len(freePages) \in Int
      BY <1>1, <1>4
    <3>2. /\ Credit' = Credit /\ Credit \in Nat
          /\ Len(freePages') >= Len(freePages) + (Needed - Len(freePages))
      BY <1>1, <2>2, <3>1, EvictCredit
    <3>3. Len(freePages) + (Needed - Len(freePages)) = Needed
      BY <1>4
    <3>4. Len(freePages') \in Nat
      BY CreditNext DEF PageInv, Holding, Lists
    <3> QED BY <1>4, <3>2, <3>3, <3>4
  <2> QED BY <1>1, <2>1, <2>2
<1>6. Borrowers' = Borrowers /\ UidsIn(launched') = {}
  <2>1. UidsIn(launched) = {}
    BY <1>2, RangeEmpty DEF UidsIn
  <2>2. Holders' = Holders
    BY <1>3 DEF Holders
  <2> QED BY <1>1, <2>1, <2>2 DEF Borrowers, Lent, Waiting
<1>7. Solvent'
  <2>1. Debt' <= Debt /\ Debt' \in Int /\ Debt \in Int
    BY <1>3, <1>6, SameDebt DEF ReserveInv, SameNumbers
  <2> QED BY <1>5, <2>1 DEF ReserveInv, Solvent
<1>8. OneAhead'
  <2> SUFFICES ASSUME NEW u \in Borrowers'
               PROVE  (req[u].chunked \/ AboutToRun(u)
                        \/ req[u].device = req[u].cached + 1)'
    BY DEF OneAhead
  <2>1. req[u].chunked \/ AboutToRun(u) \/ req[u].device = req[u].cached + 1
    BY <1>6 DEF ReserveInv, OneAhead
  <2>2. AboutToRun(u) => AboutToRun(u)'
    BY <1>1 DEF AboutToRun
  <2> QED BY <1>1, <2>1, <2>2
<1>9. OneChunk'
  BY <1>1, <1>3, SameChunk DEF ReserveInv
<1>10. Needed' = Needed
  BY <1>1 DEF Needed
<1>11. Enough'
  BY <1>5, <1>10 DEF Enough
<1> QED BY <1>7, <1>8, <1>9, <1>11 DEF ReserveInv

\* one pays e, the others owe no more than before
LEMMA SumPays ==
  ASSUME NEW S, IsFiniteSet(S), NEW f, \A x \in S : f[x] \in Nat,
         NEW T, T \subseteq S, NEW g, NEW y \in T, NEW e \in Int, g[y] = f[y] - e,
         \A x \in T \ {y} : g[x] \in Int /\ g[x] <= f[x]
  PROVE  SumFunctionOnSet(g, T) <= SumFunctionOnSet(f, S) - e
<1> DEFINE A == T \ {y}
           B == S \ {y}
<1>1. IsFiniteSet(T) /\ IsFiniteSet(A) /\ IsFiniteSet(B) /\ A \subseteq B
  BY FS_Subset
<1>2. (\A x \in S : f[x] \in Int) /\ (\A x \in T : g[x] \in Int)
  OBVIOUS
<1>3. SumFunctionOnSet(f, S) = f[y] + SumFunctionOnSet(f, B)
  BY <1>2, SumOne
<1>4. SumFunctionOnSet(g, T) = g[y] + SumFunctionOnSet(g, A)
  BY <1>1, <1>2, SumOne
<1>5. \A x \in B : f[x] \in Nat
  OBVIOUS
<1>6. \A x \in A : g[x] \in Int /\ g[x] <= f[x]
  OBVIOUS
<1>7. (\A x \in B : f[x] \in Int) /\ (\A x \in A : g[x] \in Int)
  BY <1>2
<1> HIDE DEF A, B
<1>8. SumFunctionOnSet(g, A) <= SumFunctionOnSet(f, B)
  BY <1>1, <1>5, <1>6, SumLess
<1>9. SumFunctionOnSet(g, A) \in Int /\ SumFunctionOnSet(f, B) \in Int
  BY <1>1, <1>7, SumInt
<1>10. f[y] \in Int /\ g[y] \in Int
  BY <1>2
<1> QED BY <1>3, <1>4, <1>8, <1>9, <1>10

\* the batch without the request that is launched
LEMMA LaunchNeeded ==
  ASSUME PageBase, PageInv, LaunchOne, NEW u, u = Head(batch)
  PROVE  Needed' = Needed - ExtendLen(req[u]) /\ Needed \in Int /\ ExtendLen(req[u]) \in Nat
<1>1. /\ pc = "launch" /\ u \in Uids /\ u \in Range(batch)
      /\ Range(batch) = {u} \cup Range(batch') /\ u \notin Range(batch')
      /\ IsInjective(batch') /\ req' = [req EXCEPT ![u] = CompleteOne(req[u])]
  BY LaunchMoves, LaunchOwns, DeferredList
<1>2. /\ BatchSum /\ IsFiniteSet(Range(batch)) /\ Needed \in Int
      /\ \A v \in Range(batch) : Extends[v] = ExtendLen(req[v]) /\ Extends[v] \in Nat
  BY <1>1, NeededSums
<1>3. batch \in Seq(Uids) /\ batch' = Tail(batch) /\ batch # <<>> /\ DOMAIN req = Uids
  BY DeferredList DEF LaunchOne, ControlTypeOK
<1>4. batch' \in Seq(Uids)
  BY <1>3
<1>5. \A v \in Range(batch') : v \in Uids /\ v # u /\ v \in Range(batch) /\ req'[v] = req[v]
  BY <1>1, <1>3, <1>4 DEF Range
<1> DEFINE f == Extends
           s == batch'
<1>6. [i \in DOMAIN s |-> f[s[i]]] = [i \in DOMAIN s |-> ExtendLen(req'[s[i]])]
  <2>1. \A i \in DOMAIN s : s[i] \in Range(s)
    BY DEF Range
  <2>2. \A i \in DOMAIN s : f[s[i]] = ExtendLen(req'[s[i]])
    BY <1>2, <1>5, <2>1
  <2> QED BY <2>2
<1>7. Needed' = SumFunction([i \in DOMAIN s |-> f[s[i]]])
  BY <1>6 DEF Needed
<1>8. Needed = SumFunctionOnSet(f, Range(batch)) /\ Range(s) = Range(batch) \ {u}
  BY <1>1, <1>2 DEF BatchSum
<1>9. s \in Seq(Uids) /\ IsInjective(s) /\ \A v \in Range(s) : f[v] \in Int
  BY <1>1, <1>2, <1>4, <1>5
<1>10. f[u] = ExtendLen(req[u]) /\ f[u] \in Nat /\ \A v \in Range(batch) : f[v] \in Int
  BY <1>1, <1>2
<1>15. IsFiniteSet(Range(batch) \ {u}) /\ \A v \in Range(batch) \ {u} : f[v] \in Int
  BY <1>2, <1>10, FS_Subset
<1> HIDE DEF f, s
<1>11. SumFunction([i \in DOMAIN s |-> f[s[i]]]) = SumFunctionOnSet(f, Range(s))
  BY <1>9, ListSum
<1>12. SumFunctionOnSet(f, Range(batch)) = f[u] + SumFunctionOnSet(f, Range(batch) \ {u})
  BY <1>1, <1>2, <1>10, SumOne
<1>13. Needed = f[u] + Needed'
  BY <1>7, <1>8, <1>11, <1>12
<1>14. Needed' \in Int
  <2>1. SumFunctionOnSet(f, Range(batch) \ {u}) \in Int
    BY <1>15, SumInt
  <2> QED BY <1>7, <1>8, <1>11, <2>1
<1> QED BY <1>2, <1>10, <1>13, <1>14

LEMMA LaunchReserve ==
  ASSUME PageBase, PageInv, PageInv', ReserveInv, LaunchOne, NEW u, u = Head(batch)
  PROVE  ReserveInv'
<1> DEFINE e == ExtendLen(req[u])
<1>1. /\ pc = "launch" /\ pc' = "launch" /\ u \in Uids /\ u \in Owned /\ u \in Range(batch)
      /\ Range(batch) = {u} \cup Range(batch') /\ u \notin Range(batch')
      /\ req' = [req EXCEPT ![u] = CompleteOne(req[u])] /\ IsReq(req[u])
      /\ UNCHANGED <<lazyFree, tree>>
  BY LaunchMoves, LaunchOwns, DeferredList
<1>2. UNCHANGED <<pending, running, chunks, budget>>
  BY DEF LaunchOne, queueVars
<1>3. UidsIn(launched') = UidsIn(launched) \cup {u}
  <2>1. PICK x \in Entry : x.uid = u /\ launched' = Append(launched, x)
    BY LaunchMoves, DeferredList
  <2>2. launched \in Seq(Entry)
    BY DeferredList DEF ControlTypeOK
  <2>3. Range(launched') = Range(launched) \cup {x}
    BY <2>1, <2>2, RangeAppend
  <2> QED BY <2>1, <2>3 DEF UidsIn
<1>4. Needed' = Needed - e /\ Needed \in Int /\ e \in Nat
  BY LaunchNeeded
<1>5. /\ DOMAIN req = Uids /\ req'[u] = CompleteOne(req[u])
      /\ \A v \in Uids \ {u} : req'[v] = req[v]
  BY <1>1, DeferredList
<1>6. /\ req'[u].slot = req[u].slot /\ req'[u].chunked = req[u].chunked
      /\ req'[u].cached = req[u].device
      /\ req'[u].device = IF req[u].device < req[u].max THEN req[u].device + 1
                          ELSE req[u].device
  BY <1>1, <1>5, CompleteOneKeeps
<1>7. \A v \in Uids : (Holds(v)' <=> Holds(v)) /\ req'[v].chunked = req[v].chunked
  BY <1>5, <1>6 DEF Holds
<1>8. Borrowers' \subseteq Borrowers /\ u \in Borrowers /\ u \in Borrowers'
  <2>1. Holders' = Holders
    BY <1>7 DEF Holders
  <2>2. u \in Holders
    BY <1>1 DEF Owned, Holders
  <2>3. Lent' \subseteq Lent /\ u \in Lent /\ u \in Lent'
    BY <1>1, <1>2, <1>3 DEF Lent, Waiting
  <2> QED BY <2>1, <2>2, <2>3 DEF Borrowers
<1>9. /\ u \in Borrowers /\ req[u].cached \in Nat /\ req[u].device \in Int
      /\ req[u].max \in Int /\ Len(Prompt[u]) \in Nat /\ OutputLen(u) \in Int
  BY <1>8, BorrowerIs
<1>10. Len(freePages') = Len(freePages) - e /\ Len(freePages) \in Nat
  <2>1. LaunchesRow(u, req[u].cached, req[u].device)
    BY LaunchRow DEF PageInv
  <2>2. /\ e <= Len(freePages) /\ freePages \in Seq(Pages)
        /\ freePages' = SubSeq(freePages, e + 1, Len(freePages))
    BY <2>1 DEF LaunchesRow, ExtendLen
  <2> HIDE DEF e
  <2> QED BY <1>4, <2>2
<1>11. Credit' = Credit - e /\ Credit \in Nat
  <2>1. /\ Credit \in Nat /\ Len(Stock) = Len(freePages) + Len(lazyFree)
        /\ Cardinality(Evictable(tree)) \in Nat
    BY CreditInt DEF PageInv
  <2>2. /\ Credit' = Cardinality(Evictable(tree')) + Len(Stock')
        /\ Len(Stock') = Len(freePages') + Len(lazyFree')
    BY CreditNext DEF PageInv
  <2>3. Credit = Cardinality(Evictable(tree)) + Len(Stock) /\ Len(lazyFree) \in Nat
    BY DEF Credit, PageInv, Holding, Lists
  <2> HIDE DEF e
  <2> QED BY <1>1, <1>4, <1>10, <2>1, <2>2, <2>3
<1>12. Debt' <= Debt - e /\ Debt' \in Int /\ Debt \in Int
  <2> DEFINE f == Needs
             g == Needs'
             S == Borrowers
             T == Borrowers'
  <2>1. /\ Debt \in Int /\ IsFiniteSet(S)
        /\ \A v \in S : f[v] = Need(v) /\ f[v] \in Nat
    BY DebtInt DEF ReserveInv
  <2>2. \A v \in T : g[v] = Need(v)'
    BY DEF Needs
  <2>3. \A v \in T \ {u} : g[v] \in Int /\ g[v] <= f[v]
    <3> SUFFICES ASSUME NEW v \in T \ {u}  PROVE g[v] = f[v] /\ f[v] \in Nat
      OBVIOUS
    <3>1. v \in Borrowers /\ v \in Uids
      BY <1>8 DEF Borrowers, Holders
    <3>2. Need(v)' = Need(v)
      BY <1>5, <3>1 DEF Need
    <3> QED BY <2>1, <2>2, <3>1, <3>2
  <2>4. g[u] = f[u] - e
    <3>1. g[u] = Need(u)' /\ f[u] = Need(u)
      BY <1>8, <2>1, <2>2
    <3>2. Need(u)' = Len(Prompt[u]) + OutputLen(u) - 1 - req[u].device
      BY <1>6 DEF Need
    <3> QED BY <1>9, <3>1, <3>2 DEF Need, ExtendLen
  <2>5. Debt' = SumFunctionOnSet(g, T) /\ Debt = SumFunctionOnSet(f, S)
    BY DEF Debt
  <2> HIDE DEF f, g, S, T, e
  <2>6. T \subseteq S /\ u \in T /\ e \in Int /\ \A v \in S : f[v] \in Nat
    BY <1>4, <1>8, <2>1 DEF S, T
  <2>7. SumFunctionOnSet(g, T) <= SumFunctionOnSet(f, S) - e
    BY <2>1, <2>3, <2>4, <2>6, SumPays
  <2>8. IsFiniteSet(T) /\ \A v \in T : g[v] \in Int
    BY <2>1, <2>3, <2>4, <2>6, FS_Subset
  <2>9. SumFunctionOnSet(g, T) \in Int
    BY <2>8, SumInt
  <2> QED BY <2>1, <2>5, <2>7, <2>9
<1> HIDE DEF e
<1>13. Solvent'
  BY <1>4, <1>11, <1>12 DEF ReserveInv, Solvent
<1>14. OneAhead'
  <2> SUFFICES ASSUME NEW v \in Borrowers'
               PROVE  (req[v].chunked \/ AboutToRun(v)
                        \/ req[v].device = req[v].cached + 1)'
    BY DEF OneAhead
  <2>1. v \in Borrowers /\ v \in Uids
    BY <1>8 DEF Borrowers, Holders
  <2>2. CASE v = u
    <3>1. req[u].chunked \/ RemainLen(req[u]) > 0
      BY <1>1 DEF PageBase, ReplyBase, CountInv, Room
    <3>2. RemainLen(req[u]) > 0 => req[u].device < req[u].max
      BY <1>9 DEF RemainLen
    <3> QED BY <1>6, <2>2, <3>1, <3>2
  <2>3. CASE v # u
    <3>1. req[v].chunked \/ AboutToRun(v) \/ req[v].device = req[v].cached + 1
      BY <2>1 DEF ReserveInv, OneAhead
    <3>2. AboutToRun(v) => AboutToRun(v)'
      BY <1>1, <2>3 DEF AboutToRun
    <3> QED BY <1>5, <2>1, <2>3, <3>1, <3>2
  <2> QED BY <2>2, <2>3
<1>15. OneChunk'
  <2>1. \A i \in DOMAIN pending : pending[i] \in Uids
    BY DeferredList DEF ControlTypeOK
  <2>2. \A i \in DOMAIN pending : Holds(pending[i])' <=> Holds(pending[i])
    BY <1>2, <1>7, <2>1 DEF Holds
  <2> QED BY <1>2, <2>2 DEF ReserveInv, OneChunk
<1>16. Enough'
  <2>1. Needed <= Len(freePages)
    BY <1>1 DEF ReserveInv, Enough
  <2>2. Needed' <= Len(freePages')
    BY <1>4, <1>10, <2>1
  <2> QED BY <2>2 DEF Enough
<1> QED BY <1>13, <1>14, <1>15, <1>16 DEF ReserveInv

-----------------------------------------------------------------------------
(* The admission.                                                          *)

\* who is added: whoever waits behind has not begun, and a prompt that is cut
\* takes all that was left of the budget
LEMMA AddChunkOnce ==
  ASSUME PageBase, OneChunk, pc = "admit", pending # <<>>, budget > 0, budget \in Int,
         NEW u, u = Head(pending), NEW slot, NEW cached \in Nat, NEW handle, NEW r,
         r = NextReq(u, slot, cached, handle), Add(u, r)
  PROVE  /\ OneChunk' /\ chunks = <<>> /\ u \in Uids
         /\ \A v \in Waiting : Holds(v) => v = u
         /\ \A v \in Waiting' \ {u} : v \in Uids /\ ~Holds(v) /\ ~Holds(v)'
<1>1. pending \in Seq(Uids) /\ DOMAIN req = Uids /\ SlotInv /\ LifeInv
  BY DeferredList DEF ControlTypeOK
<1>2. chunks = <<>>
  BY DEF OneChunk
<1>3. /\ u \in Uids /\ req' = [req EXCEPT ![u] = r] /\ pending' = Tail(pending)
      /\ chunks' = (IF r.chunked THEN Append(chunks, u) ELSE chunks)
      /\ budget' = budget - ExtendLen(r) /\ u \notin Range(pending')
  BY <1>1, AddMoves DEF Add
<1>4. \A v \in Uids \ {u} : Holds(v)' <=> Holds(v)
  BY <1>1, <1>3 DEF Holds
<1>5. pending' \in Seq(Uids)
      /\ \A i \in DOMAIN pending' : i + 1 \in DOMAIN pending /\ i + 1 # 1
                                    /\ pending'[i] = pending[i + 1]
  BY <1>1, <1>3
<1>6. \A i \in DOMAIN pending' : /\ pending'[i] \in Uids /\ pending'[i] # u
                                 /\ ~Holds(pending[i + 1]) /\ pending'[i] = pending[i + 1]
  BY <1>3, <1>5 DEF OneChunk, Range
<1>7. \A v \in Range(pending') : v \in Uids /\ v # u /\ ~Holds(v) /\ ~Holds(v)'
  <2> SUFFICES ASSUME NEW i \in DOMAIN pending', NEW v, v = pending'[i]
               PROVE  v \in Uids /\ v # u /\ ~Holds(v) /\ ~Holds(v)'
    BY DEF Range
  <2>1. v \in Uids /\ v # u /\ ~Holds(pending[i + 1]) /\ v = pending[i + 1]
    BY <1>6
  <2> QED BY <1>4, <2>1
<1>8. r.chunked => ExtendLen(r) = budget
  <2> DEFINE left == Len(Prompt[u]) - cached
             chunk == IF budget < left THEN budget ELSE left
  <2>1. (r.chunked => chunk < left) /\ r.device = cached + chunk /\ r.cached = cached
    BY DEF NextReq
  <2>2. left \in Int
    BY <1>3, PromptTypes
  <2> HIDE DEF left
  <2>3. chunk < left => chunk = budget
    BY <2>2
  <2>4. chunk \in Int
    BY <2>2
  <2> HIDE DEF chunk
  <2>5. ExtendLen(r) = chunk
    BY <2>1, <2>4 DEF ExtendLen
  <2> QED BY <2>1, <2>3, <2>5
<1>9. Range(chunks') \subseteq {u} /\ (chunks' # <<>> => Len(chunks') = 1 /\ r.chunked)
  <2>1. CASE r.chunked
    <3>1. chunks' = <<u>>
      BY <1>2, <1>3, <2>1
    <3> QED BY <2>1, <3>1 DEF Range
  <2>2. CASE ~r.chunked
    BY <1>2, <1>3, <2>2, RangeEmpty
  <2> QED BY <2>1, <2>2
<1>10. OneChunk'
  <2>1. \A i \in DOMAIN pending' : ~Holds(pending[i])'
    <3>1. \A i \in DOMAIN pending' : pending'[i] \in Range(pending')
      BY DEF Range
    <3> QED BY <1>7, <3>1
  <2>2. chunks' # <<>> => budget' <= 0
    BY <1>3, <1>8, <1>9
  <2> QED BY <1>9, <2>1, <2>2 DEF OneChunk
<1>11. \A v \in Waiting : Holds(v) => v = u
  <2>1. Range(pending) = {u} \cup Range(pending')
    BY <1>1, AddMoves
  <2> QED BY <1>2, <1>7, <2>1, RangeEmpty DEF Waiting
<1>12. \A v \in Waiting' \ {u} : v \in Uids /\ ~Holds(v) /\ ~Holds(v)'
  BY <1>7, <1>9 DEF Waiting
<1> QED BY <1>2, <1>3, <1>10, <1>11, <1>12

\* a request that joins the batch is about to run
LEMMA AddOneAhead ==
  ASSUME PageBase, PageInv, OneAhead, pc = "admit", pending # <<>>,
         NEW u, u = Head(pending), NEW r, Add(u, r), Borrowers' \subseteq Borrowers \cup {u}
  PROVE  OneAhead'
<1>1. /\ u \in Uids /\ Range(batch') = Range(batch) \cup {u} /\ pc' = "admit"
      /\ req' = [req EXCEPT ![u] = r] /\ DOMAIN req = Uids
  BY AddMoves, DeferredList
<1> SUFFICES ASSUME NEW v \in Borrowers'
             PROVE  (req[v].chunked \/ AboutToRun(v) \/ req[v].device = req[v].cached + 1)'
  BY DEF OneAhead
<1>2. CASE v = u
  <2>1. AboutToRun(v)'
    BY <1>1, <1>2 DEF AboutToRun
  <2> QED BY <2>1
<1>3. CASE v # u
  <2>1. v \in Borrowers /\ v \in Uids
    BY <1>3 DEF Borrowers, Holders
  <2>2. req[v].chunked \/ AboutToRun(v) \/ req[v].device = req[v].cached + 1
    BY <2>1 DEF OneAhead
  <2>3. AboutToRun(v) => AboutToRun(v)'
    BY <1>1 DEF AboutToRun
  <2>4. req'[v] = req[v]
    BY <1>1, <1>3, <2>1
  <2> QED BY <2>2, <2>3, <2>4
<1> QED BY <1>2, <1>3

LEMMA AdmitChunkReserve ==
  ASSUME PageBase, PageInv, PageInv', ReserveInv, AdmitChunk
  PROVE  ReserveInv'
<1> DEFINE u == Head(pending)
           r == NextReq(u, req[u].slot, req[u].cached, req[u].handle)
<1>1. /\ pc = "admit" /\ pending # <<>> /\ budget > 0 /\ Holds(u) /\ Add(u, r)
      /\ tree' = tree
  BY DEF AdmitChunk
<1>2. budget \in Int /\ SlotInv /\ LifeInv /\ DOMAIN req = Uids
  BY DeferredList DEF PageBase, ReplyBase, CountInv, Numbers
<1>3. u \in Uids /\ u \in Waiting /\ u \in Owned /\ req[u].chunked
  BY <1>1, HeadWaits
<1>4. req[u].cached \in Nat /\ req[u].cached <= Len(Prompt[u])
  BY <1>3 DEF PageInv, Holding, Lengths, Chunks
<1>5. r.slot = req[u].slot /\ r.cached = req[u].cached
  BY <1>2, <1>3, <1>4, NextReqGrows, <1>1
<1>0. u = Head(pending) /\ r = NextReq(u, req[u].slot, req[u].cached, req[u].handle)
  OBVIOUS
<1> HIDE DEF r, u
<1>6. /\ pc' = "admit" /\ Range(batch') = Range(batch) \cup {u}
      /\ req' = [req EXCEPT ![u] = r]
      /\ Range(pending) = {u} \cup Range(pending')
      /\ Range(chunks') = (IF r.chunked THEN Range(chunks) \cup {u} ELSE Range(chunks))
      /\ UNCHANGED <<running, launched>>
  BY <1>0, <1>1, <1>2, AddMoves
<1>7. /\ \A v \in Uids : (Holds(v)' <=> Holds(v)) /\ req'[v].cached = req[v].cached
  BY <1>2, <1>5, <1>6 DEF Holds
<1>8. Borrowers' \subseteq Borrowers
  <2>1. Holders' = Holders
    BY <1>7 DEF Holders
  <2>2. Waiting' \subseteq Waiting
    BY <1>3, <1>6 DEF Waiting
  <2> QED BY <1>1, <1>3, <1>6, <2>1, <2>2 DEF Borrowers, Lent
<1>9. OneChunk'
  BY <1>0, <1>1, <1>2, <1>4, AddChunkOnce DEF ReserveInv
<1>10. OneAhead'
  BY <1>0, <1>1, <1>8, AddOneAhead DEF ReserveInv
<1>11. Solvent'
  <2>1. Debt' <= Debt /\ Debt' \in Int /\ Debt \in Int
    BY <1>7, <1>8, SameDebt DEF ReserveInv
  <2>2. UNCHANGED <<freePages, lazyFree>>
    BY <1>1 DEF Add
  <2>3. Credit <= Credit' /\ Credit \in Nat /\ Credit' \in Nat
    BY <1>1, <2>2, SameCredit, CreditInt, CreditNext DEF cacheVars, PageInv
  <2> QED BY <2>1, <2>3 DEF ReserveInv, Solvent
<1>12. Enough'
  BY <1>6 DEF Enough
<1> QED BY <1>9, <1>10, <1>11, <1>12 DEF ReserveInv

\* what the running requests may still need, and what the batch is promised
Remains == [u \in Range(running) |-> RemainLen(req[u])]
Rests == [u \in Range(batch) |-> Len(Prompt[u]) - req[u].cached + OutputLen(u)]
Joined == Range(running) \cup Range(batch)
ReservedSum == Reserved = SumFunctionOnSet(Remains, Range(running))
                          + SumFunctionOnSet(Rests, Range(batch))

LEMMA RunningIs ==
  ASSUME PageBase, PageInv, pc # "launch", NEW u \in Range(running)
  PROVE  /\ u \in Borrowers /\ ~req[u].chunked /\ RemainLen(req[u]) \in Nat
         /\ req[u].max = Len(Prompt[u]) + OutputLen(u)
<1>1. u \in Borrowers
  BY DEF Borrowers, Lent, PageBase, ReplyBase, LifeBase, SlotInv, AllHold, Range
<1>2. /\ u \in Uids /\ u \in Owned /\ u \in Holders \ Gone
      /\ req[u].device \in Int /\ req[u].max \in Int
  BY <1>1, BorrowerIs
<1>3. ~req[u].chunked
  BY DEF PageBase, ReplyBase, LifeBase, LifeInv, Apart
<1>4. RemainLen(req[u]) > 0 /\ RemainLen(req[u]) \in Int
  BY <1>2 DEF PageBase, ReplyBase, CountInv, Room, RemainLen
<1>5. req[u].max = Len(Prompt[u]) + OutputLen(u)
  BY <1>2, <1>3 DEF PageBase, ReplyBase, CountInv, Counted
<1> QED BY <1>1, <1>3, <1>4, <1>5

\* the reservation covers what those that run or join still need
LEMMA ReservedCovers ==
  ASSUME PageBase, PageInv, OneAhead, pc = "admit", NEW f,
         \A u \in Joined : f[u] = Need(u)
  PROVE  /\ Joined \subseteq Borrowers /\ IsFiniteSet(Joined)
         /\ \A u \in Joined : f[u] \in Nat
         /\ Reserved \in Int /\ SumFunctionOnSet(f, Joined) <= Reserved
<1> DEFINE R == Range(running)
           B == Range(batch)
           A == R \ B
           g == Remains
           h == Rests
<1>1. /\ running \in Seq(Uids) /\ IsInjective(running)
      /\ batch \in Seq(Uids) /\ IsInjective(batch)
  BY DeferredList DEF ControlTypeOK, LifeInv, Once
<1>2. R \subseteq Borrowers /\ B \subseteq Borrowers /\ Joined = R \cup B
  BY RunningIs, BatchIs DEF Joined
<1>3. IsFiniteSet(R) /\ IsFiniteSet(B) /\ IsFiniteSet(A) /\ IsFiniteSet(Joined)
      /\ Joined = A \cup B
  <2>1. Joined \subseteq Borrowers /\ A \subseteq Borrowers /\ Joined = A \cup B
    BY <1>2
  <2> QED BY <1>2, <2>1, BorrowersFinite, FS_Subset
<1>4. \A u \in Joined : f[u] \in Nat
  BY <1>2, NeedNat
<1>5. \A u \in R : g[u] = RemainLen(req[u]) /\ g[u] \in Nat
  BY RunningIs DEF Remains
<1>6. \A u \in B : h[u] = Need(u) + 1 /\ h[u] \in Nat /\ Need(u) \in Nat
                   /\ h[u] = Len(Prompt[u]) - req[u].cached + OutputLen(u)
  <2> SUFFICES ASSUME NEW u \in B
               PROVE  /\ h[u] = Need(u) + 1 /\ h[u] \in Nat /\ Need(u) \in Nat
                      /\ h[u] = Len(Prompt[u]) - req[u].cached + OutputLen(u)
    OBVIOUS
  <2>1. h[u] = Len(Prompt[u]) - req[u].cached + OutputLen(u)
    BY DEF Rests
  <2>2. /\ Len(Prompt[u]) \in Nat /\ req[u].cached \in Nat /\ OutputLen(u) \in Int
        /\ Need(u) \in Nat
    BY <1>2, BorrowerIs, NeedNat
  <2> QED BY <2>1, <2>2 DEF Need
<1>7. \A u \in A : f[u] <= g[u]
  <2> SUFFICES ASSUME NEW u \in A  PROVE Need(u) <= RemainLen(req[u])
    BY <1>5, <1>2
  <2>1. /\ u \in Borrowers /\ ~req[u].chunked
        /\ req[u].max = Len(Prompt[u]) + OutputLen(u)
    BY RunningIs
  <2>2. req[u].device = req[u].cached + 1
    BY <2>1 DEF OneAhead, AboutToRun
  <2>3. /\ Len(Prompt[u]) \in Nat /\ req[u].cached \in Nat /\ OutputLen(u) \in Int
        /\ req[u].device \in Int
    BY <2>1, BorrowerIs
  <2> QED BY <2>1, <2>2, <2>3 DEF Need, RemainLen
<1>8. Reserved = SumFunctionOnSet(g, R) + SumFunctionOnSet(h, B)
  <2>1. SumFunction([i \in DOMAIN running |-> RemainLen(req[running[i]])])
          = SumFunctionOnSet(g, R)
    <3>1. \A i \in DOMAIN running : g[running[i]] = RemainLen(req[running[i]])
      BY <1>5 DEF Range
    <3>2. \A u \in R : g[u] \in Int
      BY <1>5
    <3> HIDE DEF g
    <3>3. SumFunction([i \in DOMAIN running |-> g[running[i]]]) = SumFunctionOnSet(g, R)
      BY <1>1, <3>2, ListSum
    <3>4. [i \in DOMAIN running |-> g[running[i]]]
            = [i \in DOMAIN running |-> RemainLen(req[running[i]])]
      BY <3>1
    <3> QED BY <3>3, <3>4
  <2>2. SumFunction([i \in DOMAIN batch |-> Len(Prompt[batch[i]]) - req[batch[i]].cached
                                            + OutputLen(batch[i])])
          = SumFunctionOnSet(h, B)
    <3>1. \A i \in DOMAIN batch : h[batch[i]] = Len(Prompt[batch[i]]) - req[batch[i]].cached
                                                + OutputLen(batch[i])
      BY <1>6 DEF Range
    <3>2. \A u \in B : h[u] \in Int
      BY <1>6
    <3> HIDE DEF h
    <3>3. SumFunction([i \in DOMAIN batch |-> h[batch[i]]]) = SumFunctionOnSet(h, B)
      BY <1>1, <3>2, ListSum
    <3>4. [i \in DOMAIN batch |-> h[batch[i]]]
            = [i \in DOMAIN batch |-> Len(Prompt[batch[i]]) - req[batch[i]].cached
                                      + OutputLen(batch[i])]
      BY <3>1
    <3> QED BY <3>3, <3>4
  <2> QED BY <2>1, <2>2 DEF Reserved
<1> HIDE DEF g, h
<1>9. /\ \A u \in R : g[u] \in Nat /\ g[u] \in Int
      /\ \A u \in B : h[u] \in Nat /\ h[u] \in Int /\ f[u] \in Int /\ f[u] <= h[u]
      /\ \A u \in A : f[u] \in Int /\ f[u] <= g[u]
      /\ \A u \in A \cup B : f[u] \in Nat
  <2>1. \A u \in R : g[u] \in Nat /\ g[u] \in Int
    BY <1>5
  <2>2. \A u \in B : h[u] \in Nat /\ h[u] \in Int /\ f[u] \in Int /\ f[u] <= h[u]
    BY <1>2, <1>6
  <2>3. \A u \in A : f[u] \in Int /\ f[u] <= g[u]
    BY <1>2, <1>4, <1>7
  <2> QED BY <1>3, <1>4, <2>1, <2>2, <2>3
<1>10. A \subseteq R /\ B \subseteq B
  OBVIOUS
<1> HIDE DEF R, B, A
<1>11. SumFunctionOnSet(f, A) <= SumFunctionOnSet(g, R)
  BY <1>3, <1>9, <1>10, SumLess
<1>12. SumFunctionOnSet(f, B) <= SumFunctionOnSet(h, B)
  BY <1>3, <1>9, <1>10, SumLess
<1>13. SumFunctionOnSet(f, A \cup B) <= SumFunctionOnSet(f, A) + SumFunctionOnSet(f, B)
  BY <1>3, <1>9, SumUnion
<1>14. /\ SumFunctionOnSet(f, A) \in Int /\ SumFunctionOnSet(f, B) \in Int
       /\ SumFunctionOnSet(g, R) \in Int /\ SumFunctionOnSet(h, B) \in Int
       /\ SumFunctionOnSet(f, Joined) \in Int
  <2>1. \A u \in Joined : f[u] \in Int
    BY <1>4
  <2> QED BY <1>3, <1>9, <2>1, SumInt
<1>15. Reserved \in Int /\ SumFunctionOnSet(f, Joined) <= Reserved
  BY <1>3, <1>8, <1>11, <1>12, <1>13, <1>14
<1> QED BY <1>2, <1>3, <1>4, <1>15

LEMMA AdmitNewReserve ==
  ASSUME PageBase, PageInv, PageInv', ReserveInv, AdmitNew, NEW u, u = Head(pending)
  PROVE  ReserveInv'
<1> DEFINE h == Matched(u)
           r == NextReq(u, BackSlot, Len(h), h)
<1>1. /\ pc = "admit" /\ pending # <<>> /\ budget > 0 /\ ~Holds(u) /\ Add(u, r)
      /\ Admissible(u) /\ tree' = Lock(tree, h)
  BY DEF AdmitNew
<1>2. budget \in Int /\ SlotInv /\ LifeInv /\ DOMAIN req = Uids
  BY DeferredList DEF PageBase, ReplyBase, CountInv, Numbers
<1>3. u \in Uids /\ u \in Waiting
  BY <1>1, HeadWaits
<1>4. Len(h) \in Nat /\ Len(h) <= Len(Prompt[u]) /\ Len(Prompt[u]) \in Nat /\ OutputLen(u) \in Int
  BY <1>3, MatchedLen, PromptTypes
<1>5. r.slot = BackSlot /\ r.cached = Len(h)
  BY <1>1, <1>2, <1>3, <1>4, NextReqGrows
<1>0. u = Head(pending) /\ h = Matched(u) /\ r = NextReq(u, BackSlot, Len(h), h)
  OBVIOUS
<1> HIDE DEF r, h
<1>6. /\ pc' = "admit" /\ Range(batch') = Range(batch) \cup {u}
      /\ req' = [req EXCEPT ![u] = r]
      /\ UNCHANGED <<running, launched>>
  BY <1>0, <1>1, <1>2, AddMoves
<1>7. /\ OneChunk' /\ chunks = <<>>
      /\ \A v \in Waiting' \ {u} : v \in Uids /\ ~Holds(v) /\ ~Holds(v)'
  BY <1>0, <1>1, <1>2, <1>4, AddChunkOnce DEF ReserveInv
<1>8. /\ \A v \in Uids \ {u} : req'[v] = req[v]
      /\ req'[u] = r
  BY <1>2, <1>3, <1>6
<1>9. Holds(u)' /\ u \in Borrowers'
  <2>1. BackSlot \in Slots
    BY <1>1, <1>2 DEF Admissible, BackSlot, SlotInv, ControlTypeOK
  <2>2. BackSlot # NoSlot
    BY <2>1, SchedulerAssumption DEF Slots, NoSlot
  <2>3. Holds(u)'
    BY <1>5, <1>8, <2>2 DEF Holds
  <2> QED BY <1>3, <1>6, <2>3 DEF Borrowers, Lent, Holders
<1>10. u \notin Borrowers /\ Borrowers' \ {u} \subseteq Joined
  <2>1. u \notin Borrowers
    BY <1>1 DEF Borrowers, Holders
  <2>2. ASSUME NEW v \in Borrowers', v # u  PROVE v \in Joined
    <3>1. v \in Holders' /\ v \in Lent'
      BY DEF Borrowers
    <3>2. v \notin Waiting'
      BY <1>7, <2>2, <3>1 DEF Holders
    <3>3. Lent' = Waiting' \cup Range(running') \cup Range(batch')
      BY <1>6 DEF Lent
    <3> QED BY <1>6, <2>2, <3>1, <3>2, <3>3 DEF Joined
  <2> QED BY <2>1, <2>2
<1> DEFINE f == Needs
           g == Needs'
           T == Borrowers'
           A == Borrowers' \ {u}
<1>11. \A v \in Joined : f[v] = Need(v)
  <2>1. Joined \subseteq Borrowers
    BY <1>1, RunningIs, BatchIs DEF Joined
  <2> QED BY <2>1 DEF Needs
<1>12. /\ Joined \subseteq Borrowers /\ IsFiniteSet(Joined)
       /\ \A v \in Joined : f[v] \in Nat
       /\ Reserved \in Int /\ SumFunctionOnSet(f, Joined) <= Reserved
  <2> HIDE DEF f
  <2> QED BY <1>1, <1>11, ReservedCovers DEF ReserveInv
<1>13. \A v \in A : g[v] = f[v] /\ g[v] \in Int
  <2> SUFFICES ASSUME NEW v \in A  PROVE g[v] = f[v] /\ f[v] \in Nat
    OBVIOUS
  <2>1. v \in Joined /\ v \in Borrowers /\ v \in Borrowers'
    BY <1>10, <1>12
  <2>2. g[v] = Need(v)' /\ f[v] = Need(v) /\ f[v] \in Nat
    BY <1>11, <1>12, <2>1 DEF Needs
  <2>3. v \in Uids /\ v # u
    BY <1>10, <2>1 DEF Borrowers, Holders
  <2>4. Need(v)' = Need(v)
    BY <1>8, <2>3 DEF Need
  <2> QED BY <2>2, <2>4
<1>14. g[u] = Len(Prompt[u]) + OutputLen(u) - 1 - Len(h)
  <2>1. g[u] = Need(u)'
    BY <1>9 DEF Needs
  <2> QED BY <1>5, <1>8, <2>1 DEF Need
<1>15. Debt' = SumFunctionOnSet(g, T)
  BY DEF Debt
<1> HIDE DEF f, g
<1>16. Debt' <= g[u] + Reserved /\ Debt' \in Int
  <2>1. A \subseteq Joined /\ IsFiniteSet(A) /\ T = A \cup {u} /\ u \in T /\ A = T \ {u}
    BY <1>9, <1>10, <1>12, FS_Subset
  <2> HIDE DEF A, T
  <2>2. IsFiniteSet(T)
    BY <2>1, FS_AddElement
  <2>3. g[u] \in Int /\ \A v \in T : g[v] \in Int
    BY <1>4, <1>13, <1>14, <2>1
  <2>4. SumFunctionOnSet(g, T) = g[u] + SumFunctionOnSet(g, T \ {u})
    BY <2>1, <2>2, <2>3, SumOne
  <2>5. \A v \in A : g[v] \in Int /\ g[v] <= f[v]
    BY <1>12, <1>13, <2>1
  <2>6. SumFunctionOnSet(g, A) <= SumFunctionOnSet(f, Joined)
    BY <1>12, <2>1, <2>5, SumLess
  <2>7. SumFunctionOnSet(g, A) \in Int
    BY <2>1, <2>5, SumInt
  <2>8. SumFunctionOnSet(f, Joined) \in Int
    <3>1. \A v \in Joined : f[v] \in Int
      BY <1>12
    <3> QED BY <1>12, <3>1, SumInt
  <2> QED BY <1>12, <1>15, <2>1, <2>3, <2>4, <2>6, <2>7, <2>8
<1>17. g[u] + 1 + Reserved <= Credit' /\ Credit' \in Nat
  <2>1. Len(Prompt[u]) - Len(h) + OutputLen(u) + Reserved
          <= Cardinality(Evictable(tree')) + Len(freePages)
    BY <1>0, <1>1 DEF Admissible, AvailableSize
  <2>2. freePages' = freePages /\ lazyFree' = <<>>
    BY <1>1 DEF Add, PageInv, Holding, Lists
  <2>3. /\ Credit' = Cardinality(Evictable(tree')) + Len(Stock')
        /\ Len(Stock') = Len(freePages') + Len(lazyFree')
        /\ Cardinality(Evictable(tree')) \in Nat /\ Credit' \in Nat
    BY CreditNext DEF PageInv
  <2>4. Len(freePages) \in Nat
    BY DEF PageInv, Holding, Lists
  <2>5. Credit' = Cardinality(Evictable(tree')) + Len(freePages)
    <3>1. Len(lazyFree') = 0
      BY <2>2
    <3> QED BY <2>2, <2>3, <2>4, <3>1
  <2> QED BY <1>4, <1>12, <1>14, <2>1, <2>3, <2>4, <2>5
<1>18. Solvent'
  <2>1. g[u] \in Int
    BY <1>4, <1>14
  <2> QED BY <1>12, <1>16, <1>17, <2>1 DEF Solvent
<1>19. OneAhead'
  <2>1. Borrowers' \subseteq Borrowers \cup {u}
    BY <1>10, <1>12
  <2> QED BY <1>0, <1>1, <2>1, AddOneAhead DEF ReserveInv
<1>20. Enough'
  BY <1>6 DEF Enough
<1> QED BY <1>7, <1>18, <1>19, <1>20 DEF ReserveInv

-----------------------------------------------------------------------------
(* The reservation is enough at every step.                                *)

LEMMA ReserveInit == Init => ReserveInv
<1> SUFFICES ASSUME Init  PROVE ReserveInv
  OBVIOUS
<1>1. Borrowers = {} /\ pc = "idle" /\ chunks = <<>>
  BY DEF Init, Borrowers, Holders, Holds, NoReq
<1>2. Debt = 0
  BY <1>1, SumEmpty DEF Debt
<1>3. Solvent
  BY <1>2, PageInit, CreditInt DEF Solvent, PageInv
<1>4. OneChunk
  BY <1>1 DEF Init, OneChunk
<1> QED BY <1>1, <1>3, <1>4 DEF ReserveInv, OneAhead, Enough

LEMMA ReserveStep ==
  ASSUME PageBase, PageInv, PageInv', ReserveInv, [Next]_vars  PROVE ReserveInv'
<1>1. ASSUME NEW u \in Uids, Submit(u) \/ Abort(u)  PROVE ReserveInv'
  BY <1>1, SubmitReserve, AbortReserve
<1>2. CASE Step
  <2>1. CASE BeginStep \/ ScheduleBurst \/ BeginAdmission \/ ScheduleDecode
             \/ EndLaunch \/ SkipChunk \/ EndStep
    BY <2>1, QuietReserve
  <2>2. CASE FlushAction \/ ReleaseSuppressed \/ DeliverLast \/ DeliverNext
    BY <2>2, FlushReserve, ReleaseReserve, DeliverReserve
  <2>3. CASE AdmitChunk \/ AdmitNew \/ SchedulePrefill
    BY <2>3, AdmitChunkReserve, AdmitNewReserve, SchedulePrefillReserve
  <2>4. CASE Reclaim \/ LaunchOne
    BY <2>4, ReclaimReserve, LaunchReserve
  <2>5. CASE BeginFilter \/ FilterOne
    BY <2>5, FilterReserve
  <2> QED BY <1>2, <2>1, <2>2, <2>3, <2>4, <2>5 DEF Step
<1>3. CASE UNCHANGED vars
  <2>1. UNCHANGED <<pc, pending, running, batch, chunks, budget, launched, req,
                    tree, freePages, lazyFree>>
    BY <1>3 DEF vars, queueVars, batchVars, cacheVars
  <2>2. Borrowers' = Borrowers
    BY <2>1 DEF Borrowers, Lent, Waiting, Holders, Holds
  <2>3. Needs' = Needs
    BY <2>1, <2>2 DEF Needs, Need
  <2>4. Solvent'
    BY <2>1, <2>2, <2>3 DEF ReserveInv, Solvent, Debt, Credit, Stock
  <2>5. OneAhead'
    BY <2>1, <2>2 DEF ReserveInv, OneAhead, AboutToRun
  <2>6. OneChunk' /\ Enough'
    BY <2>1 DEF ReserveInv, OneChunk, Enough, Needed, Holds
  <2> QED BY <2>4, <2>5, <2>6 DEF ReserveInv
<1> QED BY <1>1, <1>2, <1>3 DEF Next, Wait

LEMMA ReserveSuffices ==
  ASSUME PageBase, PageInv, ReserveInv  PROVE AllocationPossible
<1>1. ASSUME pc = "reclaim"  PROVE Needed <= AvailableSize(tree)
  <2>1. Needed <= Debt /\ Needed \in Int /\ Debt \in Int /\ Debt <= Credit
    BY <1>1, NeededLess, NeededSums, DebtInt DEF ReserveInv, Solvent
  <2>2. Credit = AvailableSize(tree) /\ Credit \in Nat
    <3>1. lazyFree = <<>>
      BY <1>1 DEF PageInv, Holding, Lists
    <3>2. /\ Len(Stock) = Len(freePages) + Len(lazyFree) /\ Credit \in Nat
          /\ Cardinality(Evictable(tree)) \in Nat
      BY CreditInt DEF PageInv
    <3>3. Len(lazyFree) = 0 /\ Len(freePages) \in Nat
      BY <3>1 DEF PageInv, Holding, Lists
    <3> QED BY <3>2, <3>3 DEF Credit, AvailableSize
  <2> QED BY <2>1, <2>2
<1>2. pc = "launch" => Needed <= Len(freePages)
  BY DEF ReserveInv, Enough
<1> QED BY <1>1, <1>2 DEF AllocationPossible

(* The pages that PrefillAdder reserves are enough: whatever is admitted,  *)
(* cached, evicted or aborted meanwhile, no batch that is scheduled lacks  *)
(* a page, so no TORCH_CHECK of allocate_pages and evict fails.            *)
THEOREM ReservationEnough == Safe => (Spec => []AllocationPossible)
<1> SUFFICES ASSUME Safe  PROVE Spec => []AllocationPossible
  OBVIOUS
<1>1. Init => ReserveInv
  BY ReserveInit
<1>2. PageBase /\ PageInv /\ (PageBase /\ PageInv)' /\ ReserveInv /\ [Next]_vars
        => ReserveInv'
  BY ReserveStep
<1>3. PageBase /\ PageInv /\ ReserveInv => AllocationPossible
  BY ReserveSuffices
<1>4. Spec => [](PageBase /\ PageInv)
  BY PagesAlways
<1> QED BY <1>1, <1>2, <1>3, <1>4, PTL DEF Spec


-----------------------------------------------------------------------------
(* The types of the data.                                                  *)

ReqType == [slot : Slots \cup {NoSlot}, ids : Seq(Tokens), cached : Nat,
            device : Nat, max : Int, chunked : BOOLEAN, handle : Seq(Tokens)]
ReqTypes == req \in [Uids -> ReqType]
KVTypes == kv \in [Pages -> Seq(Tokens)]

\* no page is loaded beyond the row of its request
DataInv == ReqTypes /\ KVTypes /\ Loaded

LEMMA TypedUpdate ==
  ASSUME ReqTypes, NEW u \in Uids, NEW r \in ReqType, req' = [req EXCEPT ![u] = r]
  PROVE  ReqTypes'
BY DEF ReqTypes

LEMMA TypedRecord == ASSUME ReqTypes, NEW u \in Uids PROVE req[u] \in ReqType
BY DEF ReqTypes

LEMMA TakeTypes ==
  ASSUME NEW r \in ReqType
  PROVE  Take(r.ids, r.cached) \in Seq(Tokens)
<1>1. r.ids \in Seq(Tokens) /\ r.cached \in Nat
  BY DEF ReqType
<1>2. Len(r.ids) \in Nat
  BY <1>1
<1>3. CASE r.cached <= Len(r.ids)
  BY <1>1, <1>2, <1>3 DEF Take
<1>4. CASE ~(r.cached <= Len(r.ids))
  BY <1>1, <1>2, <1>4 DEF Take
<1> QED BY <1>3, <1>4

LEMMA CacheReqTyped ==
  ASSUME ReqTypes, NEW u \in Uids, NEW r \in ReqType, NEW finished,
         CacheReq(u, r, finished)
  PROVE  ReqTypes'
<1> DEFINE ids == Take(r.ids, r.cached)
           q == IF finished THEN r ELSE [r EXCEPT !.handle = ids]
<1>1. req' = [req EXCEPT ![u] = q]
  BY DEF CacheReq
<1>2. ids \in Seq(Tokens)
  BY TakeTypes
<1> HIDE DEF ids
<1>3. q \in ReqType
  BY <1>2 DEF ReqType
<1> HIDE DEF q
<1> QED BY <1>1, <1>3, TypedUpdate

LEMMA FreeTyped ==
  ASSUME ReqTypes, NEW u \in Uids, NEW r \in ReqType, FreeReqResources(u, r)
  PROVE  ReqTypes'
<1>1. CASE u \in freed
  BY <1>1, TypedUpdate DEF FreeReqResources
<1>2. CASE u \notin freed
  BY <1>2, CacheReqTyped DEF FreeReqResources
<1> QED BY <1>1, <1>2

LEMMA FreeOrDeferTyped ==
  ASSUME ReqTypes, NEW u \in Uids, NEW r \in ReqType,
         FreeReqResourcesOrDefer(u, r) \/ CacheReqOrDefer(u, r)
  PROVE  ReqTypes'
<1>1. CASE MustDefer
  BY <1>1, TypedUpdate DEF FreeReqResourcesOrDefer, CacheReqOrDefer, Defer
<1>2. CASE ~MustDefer
  BY <1>2, FreeTyped, CacheReqTyped DEF FreeReqResourcesOrDefer, CacheReqOrDefer
<1> QED BY <1>1, <1>2

\* a request admitted, or its next chunk
LEMMA NextReqTyped ==
  ASSUME NEW u \in Uids, NEW slot \in Slots, NEW cached \in Nat,
         NEW handle \in Seq(Tokens), budget \in Int, budget > 0
  PROVE  LET r == NextReq(u, slot, cached, handle) IN
         /\ r \in ReqType /\ r.ids = SubSeq(Prompt[u], 1, r.device)
         /\ r.device <= Len(r.ids)
<1> DEFINE left == Len(Prompt[u]) - cached
           chunk == IF budget < left THEN budget ELSE left
           d == cached + chunk
           r == NextReq(u, slot, cached, handle)
<1>0. Prompt[u] \in Seq(Tokens) /\ Len(Prompt[u]) \in Nat /\ OutputLen(u) \in Int
  BY PromptTypes
<1>1. d \in Nat /\ d <= Len(Prompt[u])
  <2>1. CASE budget < left
    BY <1>0, <2>1
  <2>2. CASE ~(budget < left)
    BY <1>0, <2>2
  <2> QED BY <2>1, <2>2
<1>2. (chunk < left) \in BOOLEAN
  OBVIOUS
<1>3. r = [slot |-> slot, ids |-> SubSeq(Prompt[u], 1, d), cached |-> cached,
           device |-> d, max |-> d + OutputLen(u), chunked |-> (chunk < left),
           handle |-> handle]
  BY DEF NextReq
<1> HIDE DEF d, r, chunk, left
<1>4. SubSeq(Prompt[u], 1, d) \in Seq(Tokens) /\ Len(SubSeq(Prompt[u], 1, d)) = d
  BY <1>0, <1>1
<1>5. d + OutputLen(u) \in Int
  BY <1>0, <1>1
<1>6. r \in ReqType
  BY <1>1, <1>2, <1>3, <1>4, <1>5 DEF ReqType
<1> QED BY <1>1, <1>3, <1>4, <1>6 DEF r

LEMMA AdmitTyped ==
  ASSUME PageBase, ReqTypes, AdmitChunk \/ AdmitNew
  PROVE  /\ pc = "admit" /\ UNCHANGED <<pc, kv>>
         /\ \E u \in Uids, r \in ReqType :
              /\ req' = [req EXCEPT ![u] = r] /\ batch' = Append(batch, u)
              /\ r.device <= Len(r.ids)
<1> DEFINE u == Head(pending)
<1>1. pc = "admit" /\ pending # <<>> /\ budget > 0 /\ budget \in Int
  BY DEF AdmitChunk, AdmitNew, PageBase, ReplyBase, CountInv, Numbers
<1>2. u \in Uids
  BY <1>1, HeadWaits
<1> HIDE DEF u
<1>3. \E slot \in Slots, cached \in Nat, handle \in Seq(Tokens) :
        Add(u, NextReq(u, slot, cached, handle))
  <2>1. CASE AdmitChunk
    <3>1. Holds(u) /\ Add(u, NextReq(u, req[u].slot, req[u].cached, req[u].handle))
      BY <2>1 DEF AdmitChunk, u
    <3>2. req[u] \in ReqType
      BY <1>2, TypedRecord
    <3>3. req[u].slot \in Slots /\ req[u].cached \in Nat /\ req[u].handle \in Seq(Tokens)
      BY <3>1, <3>2 DEF ReqType, Holds
    <3> QED BY <3>1, <3>3
  <2>2. CASE AdmitNew
    <3>1. freeSlots # <<>> /\ Add(u, NextReq(u, BackSlot, Len(Matched(u)), Matched(u)))
      BY <2>2 DEF AdmitNew, Admissible, u
    <3>2. BackSlot \in Slots
      <4>1. freeSlots \in Seq(Slots)
        BY DeferredList DEF ControlTypeOK
      <4> QED BY <3>1, <4>1 DEF BackSlot
    <3>3. /\ Len(Matched(u)) \in Nat /\ Len(Matched(u)) < Len(Prompt[u])
          /\ Matched(u) = SubSeq(Prompt[u], 1, Len(Matched(u)))
          /\ Prompt[u] \in Seq(Tokens) /\ Len(Prompt[u]) \in Nat
      BY <1>2, MatchedLen, PromptTypes
    <3>4. Matched(u) \in Seq(Tokens)
      <4> DEFINE n == Len(Matched(u))
      <4>1. n \in Nat /\ n <= Len(Prompt[u]) /\ Matched(u) = SubSeq(Prompt[u], 1, n)
        BY <3>3
      <4> HIDE DEF n
      <4>2. SubSeq(Prompt[u], 1, n) \in Seq(Tokens)
        BY <3>3, <4>1
      <4> QED BY <4>1, <4>2
    <3> QED BY <3>1, <3>2, <3>3, <3>4
  <2> QED BY <2>1, <2>2
<1>4. PICK slot \in Slots, cached \in Nat, handle \in Seq(Tokens) :
        Add(u, NextReq(u, slot, cached, handle))
  BY <1>3
<1> DEFINE r == NextReq(u, slot, cached, handle)
<1>5. r \in ReqType /\ r.device <= Len(r.ids)
  BY <1>1, <1>2, NextReqTyped
<1> HIDE DEF r
<1>6. /\ req' = [req EXCEPT ![u] = r] /\ batch' = Append(batch, u)
      /\ UNCHANGED <<pc, kv>>
  BY <1>4 DEF Add, r
<1> QED BY <1>1, <1>2, <1>5, <1>6

LEMMA AdmitData ==
  ASSUME PageBase, DataInv, AdmitChunk \/ AdmitNew  PROVE DataInv'
<1>1. /\ pc = "admit" /\ UNCHANGED <<pc, kv>>
      /\ \E u \in Uids, r \in ReqType :
           /\ req' = [req EXCEPT ![u] = r] /\ batch' = Append(batch, u)
           /\ r.device <= Len(r.ids)
  BY AdmitTyped DEF DataInv
<1>2. PICK u \in Uids, r \in ReqType :
        /\ req' = [req EXCEPT ![u] = r] /\ batch' = Append(batch, u)
        /\ r.device <= Len(r.ids)
  BY <1>1
<1>3. ReqTypes'
  BY <1>2, TypedUpdate DEF DataInv
<1>4. Loaded'
  BY <1>1, <1>2, AdmitLoaded DEF DataInv
<1> QED BY <1>1, <1>3, <1>4 DEF DataInv, KVTypes

LEMMA LaunchData ==
  ASSUME PageBase, PageInv, DataInv, LaunchOne  PROVE DataInv'
<1> DEFINE u == Head(batch)
           c == req[u].cached
           d == req[u].device
           row == SubSeq(pageRow[req[u].slot], 1, c) \o SubSeq(freePages, 1, d - c)
<1>1. /\ u \in Owned /\ u \in Uids /\ pc = "launch" /\ u \in Range(batch)
      /\ req' = [req EXCEPT ![u] = CompleteOne(req[u])] /\ UNCHANGED pc
  BY LaunchOwns, OwnedFacts
<1>2. d <= Len(Row(u))
  BY LaunchCovers DEF DataInv
<1>3. req[u] \in ReqType
  BY <1>1, TypedRecord DEF DataInv
<1>4. c \in Nat /\ d \in Nat
  BY <1>3 DEF ReqType
<1>5. Row(u) \in Seq(Tokens)
  BY <1>1, OwnedFacts DEF Row, PageBase, MirrorInv, RowTypes
<1>6. kv' = [p \in Pages |->
               IF \E i \in c + 1 .. d : row[i] = p
               THEN LET i == CHOOSE j \in c + 1 .. d : row[j] = p
                    IN  SubSeq(Row(u), 1, i)
               ELSE kv[p]]
  BY DEF LaunchOne, ExtendLen, Row
<1> HIDE DEF u, c, d, row
<1>7. \A i \in c + 1 .. d : SubSeq(Row(u), 1, i) \in Seq(Tokens)
  <2> TAKE i \in c + 1 .. d
  <2>1. i \in Nat /\ i <= Len(Row(u)) /\ Len(Row(u)) \in Nat
    BY <1>2, <1>4, <1>5
  <2> QED BY <1>5, <2>1
<1>8. \A p \in Pages : kv[p] \in Seq(Tokens)
  BY DEF DataInv, KVTypes
<1>9. ASSUME NEW p \in Pages
      PROVE  (IF \E i \in c + 1 .. d : row[i] = p
              THEN LET i == CHOOSE j \in c + 1 .. d : row[j] = p
                   IN  SubSeq(Row(u), 1, i)
              ELSE kv[p]) \in Seq(Tokens)
  <2>1. CASE \E i \in c + 1 .. d : row[i] = p
    <3>1. (CHOOSE j \in c + 1 .. d : row[j] = p) \in c + 1 .. d
      BY <2>1
    <3> QED BY <1>7, <2>1, <3>1
  <2>2. CASE ~\E i \in c + 1 .. d : row[i] = p
    BY <1>8, <2>2
  <2> QED BY <2>1, <2>2
<1>10. KVTypes'
  BY <1>6, <1>9 DEF KVTypes
<1>11. CompleteOne(req[u]) \in ReqType
  <2>1. /\ req[u].max \in Int /\ req[u].device \in Nat
    BY <1>3 DEF ReqType
  <2>2. (IF req[u].device < req[u].max THEN req[u].device + 1 ELSE req[u].device) \in Nat
    BY <2>1
  <2> QED BY <1>3, <2>1, <2>2 DEF CompleteOne, ReqType
<1>12. ReqTypes'
  BY <1>1, <1>11, TypedUpdate DEF DataInv
<1>13. Loaded'
  <2>1. /\ u \in Uids /\ Range(batch) = {u} \cup Range(batch') /\ u \notin Range(batch')
    BY LaunchMoves DEF u, PageBase, ReplyBase, LifeBase
  <2>2. \A v \in Range(batch') : req'[v] = req[v]
    <3>1. Range(batch) \subseteq Uids /\ DOMAIN req = Uids
      BY DeferredList, RangeIn DEF ControlTypeOK
    <3> QED BY <1>1, <2>1, <3>1
  <2> QED BY <1>1, <2>1, <2>2 DEF DataInv, Loaded
<1> QED BY <1>10, <1>12, <1>13 DEF DataInv

\* a step that leaves the records and the pages alone
LEMMA QuietData ==
  ASSUME PageBase, DataInv,
         \/ BeginAdmission \/ UNCHANGED vars \/ ScheduleBurst \/ ScheduleDecode
         \/ SchedulePrefill \/ BeginStep \/ EndLaunch \/ BeginFilter \/ FilterOne
         \/ SkipChunk \/ Reclaim \/ EndStep \/ \E u \in Uids : Submit(u)
  PROVE  DataInv'
<1> USE DEF queueVars, batchVars, deferVars, tableVars, cacheVars, clientVars
<1>1. UNCHANGED <<req, kv>>
  BY DEF BeginAdmission, vars, ScheduleBurst, ScheduleDecode, SchedulePrefill, Submit,
         DecodeBatch, BeginStep, EndLaunch, BeginFilter, FilterOne, SkipChunk, Reclaim,
         EndStep
<1>2. Loaded'
  <2>1. CASE \/ BeginAdmission \/ UNCHANGED vars \/ SchedulePrefill \/ BeginStep
             \/ SkipChunk \/ Reclaim \/ EndStep \/ \E u \in Uids : Submit(u)
    <3>1. UNCHANGED batch /\ (pc' # "filter" => pc # "filter")
      BY <2>1 DEF BeginAdmission, vars, SchedulePrefill, Submit, BeginStep,
                  SkipChunk, Process, Reclaim, EndStep
    <3> QED BY <1>1, <3>1 DEF DataInv, Loaded
  <2>2. CASE ScheduleBurst \/ ScheduleDecode
    <3>1. CASE batch' = running
      <4>1. \A u \in Range(running) : ~req[u].chunked
        BY DeferredList DEF LifeInv, Apart
      <4> QED BY <1>1, <3>1, <4>1 DEF Loaded
    <3>2. CASE ~(batch' = running)
      <4>1. UNCHANGED batch /\ pc # "filter"
        BY <2>2, <3>2 DEF ScheduleBurst, ScheduleDecode, DecodeBatch
      <4> QED BY <1>1, <4>1 DEF DataInv, Loaded
    <3> QED BY <3>1, <3>2
  <2>3. CASE BeginFilter \/ FilterOne
    <3>1. pc' = "filter"
      BY <2>3 DEF BeginFilter, FilterOne
    <3> QED BY <3>1 DEF Loaded
  <2>4. CASE EndLaunch
    <3>1. batch' = <<>>
      BY <2>4 DEF EndLaunch
    <3> QED BY <3>1, RangeEmpty DEF Loaded
  <2> QED BY <2>1, <2>2, <2>3, <2>4
<1> QED BY <1>1, <1>2 DEF DataInv, ReqTypes, KVTypes

LEMMA AppendedTyped ==
  ASSUME ReqTypes, Current \in Entry  PROVE Appended \in ReqType
<1> DEFINE u == Current.uid
           t == Current.token
<1>1. u \in Uids /\ t \in Tokens
  BY DEF Entry
<1>2. req[u] \in ReqType
  BY <1>1, TypedRecord
<1>3. Appended = [req[u] EXCEPT !.ids = Append(req[u].ids, t)]
  BY DEF Appended
<1> HIDE DEF u, t
<1>4. Append(req[u].ids, t) \in Seq(Tokens)
  BY <1>1, <1>2 DEF ReqType
<1> QED BY <1>2, <1>3, <1>4 DEF ReqType

\* an abort, an action put off, a result: the records they may free or cache
LEMMA HandData ==
  ASSUME PageBase, DataInv,
         \/ FlushAction \/ ReleaseSuppressed \/ DeliverLast \/ DeliverNext
         \/ \E u \in Uids : Abort(u)
  PROVE  DataInv'
<1> USE DEF queueVars, batchVars, deferVars, tableVars, cacheVars, clientVars
<1>1. UNCHANGED <<batch, kv>> /\ batch = <<>>
  <2>1. UNCHANGED <<batch, kv>> /\ pc \in {"idle", "schedule", "process"}
    BY DEF FlushAction, ReleaseSuppressed, DeliverLast, DeliverNext, Deliver, Abort, Process
  <2> QED BY <2>1, DeferredList DEF LifeInv, Phases
<1>2. Loaded'
  BY <1>1, RangeEmpty DEF Loaded
<1>3. ReqTypes'
  <2>1. CASE FlushAction
    <3> DEFINE act == Head(deferredActions)
    <3>1. act.uid \in Uids
      <4>1. deferredActions \in Seq([uid : Uids, finished : BOOLEAN]) /\ deferredActions # <<>>
        BY <2>1, DeferredList DEF FlushAction
      <4>2. act \in [uid : Uids, finished : BOOLEAN]
        BY <4>1, HeadTail
      <4> HIDE DEF act
      <4> QED BY <4>2
    <3>2. req[act.uid] \in ReqType
      BY <3>1, TypedRecord DEF DataInv
    <3>3. \/ FreeReqResources(act.uid, req[act.uid])
          \/ CacheReq(act.uid, req[act.uid], FALSE)
      BY <2>1 DEF FlushAction
    <3> HIDE DEF act
    <3> QED BY <3>1, <3>2, <3>3, FreeTyped, CacheReqTyped DEF DataInv
  <2>2. CASE \E u \in Uids : Abort(u)
    <3>1. PICK u \in Uids : Abort(u)
      BY <2>2
    <3>2. UNCHANGED req \/ FreeReqResources(u, req[u])
      BY <3>1 DEF Abort
    <3>3. req[u] \in ReqType
      BY TypedRecord DEF DataInv
    <3>4. CASE UNCHANGED req
      BY <3>4 DEF DataInv, ReqTypes
    <3> QED BY <3>2, <3>3, <3>4, FreeTyped DEF DataInv
  <2>3. CASE ReleaseSuppressed \/ DeliverLast \/ DeliverNext
    <3>1. Current \in Entry
      <4>1. prev \in Seq(Entry) /\ prev # <<>>
        BY <2>3, DeferredList DEF ControlTypeOK, ReleaseSuppressed, DeliverLast,
                                  DeliverNext, Deliver, Process
      <4> QED BY <4>1 DEF Current
    <3>2. Appended \in ReqType
      BY <3>1, AppendedTyped DEF DataInv
    <3>3. Current.uid \in Uids
      BY <3>1 DEF Entry
    <3>4. req[Current.uid] \in ReqType
      BY <3>3, TypedRecord DEF DataInv
    <3>5. \/ UNCHANGED req
          \/ FreeReqResourcesOrDefer(Current.uid, req[Current.uid])
          \/ FreeReqResourcesOrDefer(Current.uid, Appended)
          \/ CacheReqOrDefer(Current.uid, Appended)
          \/ req' = [req EXCEPT ![Current.uid] = Appended]
      BY <2>3 DEF ReleaseSuppressed, DeliverLast, DeliverNext
    <3>6. CASE UNCHANGED req
      BY <3>6 DEF DataInv, ReqTypes
    <3>7. CASE req' = [req EXCEPT ![Current.uid] = Appended]
      BY <3>2, <3>3, <3>7, TypedUpdate DEF DataInv
    <3> QED BY <3>2, <3>3, <3>4, <3>5, <3>6, <3>7, FreeOrDeferTyped DEF DataInv
  <2> QED BY <2>1, <2>2, <2>3
<1> QED BY <1>1, <1>2, <1>3 DEF DataInv, KVTypes

LEMMA DataInit == Init => DataInv
<1> SUFFICES ASSUME Init  PROVE DataInv
  OBVIOUS
<1>1. NoReq \in ReqType
  <2>1. <<>> \in Seq(Tokens)
    OBVIOUS
  <2> QED BY <2>1 DEF NoReq, ReqType
<1>2. ReqTypes
  BY <1>1 DEF Init, ReqTypes
<1>3. KVTypes
  BY DEF Init, KVTypes
<1>4. Loaded
  BY RangeEmpty DEF Init, Loaded
<1> QED BY <1>2, <1>3, <1>4 DEF DataInv

LEMMA DataStep ==
  ASSUME PageBase, PageInv, DataInv, [Next]_vars  PROVE DataInv'
<1>1. CASE Step
  BY <1>1, QuietData, HandData, AdmitData, LaunchData DEF Step
<1>2. CASE \E u \in Uids : Submit(u) \/ Abort(u)
  <2>1. CASE \E u \in Uids : Submit(u)  BY <2>1, QuietData
  <2>2. CASE \E u \in Uids : Abort(u)  BY <2>2, HandData
  <2> QED BY <1>2, <2>1, <2>2
<1>3. CASE UNCHANGED vars
  BY <1>3, QuietData
<1> QED BY <1>1, <1>2, <1>3 DEF Next, Wait

LEMMA DataTypes == PageBase /\ PageInv /\ DataInv => TypeOK
<1> SUFFICES ASSUME PageBase, PageInv, DataInv  PROVE TypeOK
  OBVIOUS
<1>1. ControlTypeOK /\ Replies
  BY DeferredList
<1>2. budget \in Int
  BY DEF PageBase, ReplyBase, CountInv, Numbers
<1>3. /\ pageRow \in [Slots -> Seq(Pages)] /\ freePages \in Seq(Pages)
      /\ lazyFree \in Seq(Pages)
  BY DEF PageInv, Holding, Lists
<1>4. tokenRow \in [Slots -> Seq(Tokens)]
  BY DEF PageBase, MirrorInv, RowTypes
<1>5. /\ Cached(tree) \subseteq Seq(Tokens) /\ IsFiniteSet(Cached(tree))
      /\ tree.page \in [Cached(tree) -> Pages]
      /\ tree.ref \in [Cached(tree) -> Int]
  BY DEF PageInv, Holding, Shape
<1>6. DataTypeOK
  BY <1>1, <1>2, <1>3, <1>4, <1>5 DEF DataTypeOK, DataInv, ReqTypes, ReqType, KVTypes, Replies
<1> QED BY <1>1, <1>6 DEF TypeOK

(* The scheduler's data always have their types, for every instance that   *)
(* has no abort in the two states that leak: no request has a negative     *)
(* length computed or known to the device, every row of the page table has *)
(* pages of the pool and every row of the token pool tokens, every cached  *)
(* prefix has a page and a lock counter, and no page is filled from beyond *)
(* the tokens of its request's row.                                        *)
THEOREM TypeCorrect == Safe => (Spec => []TypeOK)
<1> SUFFICES ASSUME Safe  PROVE Spec => []TypeOK
  OBVIOUS
<1>1. Init => DataInv
  BY DataInit
<1>2. PageBase /\ PageInv /\ DataInv /\ [Next]_vars => DataInv'
  BY DataStep
<1>3. PageBase /\ PageInv /\ DataInv => TypeOK
  BY DataTypes
<1>4. Spec => [](PageBase /\ PageInv)
  BY PagesAlways
<1> QED BY <1>1, <1>2, <1>3, <1>4, PTL DEF Spec
=============================================================================
