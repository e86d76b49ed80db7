-------------------------- MODULE DetokenizerProofs --------------------------
(***************************************************************************)
(* Theorems about Detokenizer, for all requests and replies: also for      *)
(* those whose characters are split so that a call throws.                 *)
(***************************************************************************)
EXTENDS Detokenizer, NatLemmas, FiniteSetTheorems, SequenceTheorems, TLAPS

-----------------------------------------------------------------------------
(* The invariant.                                                          *)

IsStatus(s) ==
  s = [ids |-> s.ids, str |-> s.str, surr |-> s.surr, read |-> s.read, sent |-> s.sent]

\* an entry s that was given the first n tokens of the reply r
Follows(s, r, n) ==
  /\ IsStatus(s)
  /\ s.ids = SubSeq(r, 1, n)
  /\ s.surr \in Nat /\ s.read \in Nat /\ s.surr <= s.read /\ s.read <= n

\* Every entry follows its reply, and a request that has some of its tokens
\* and not all has an entry.  Only a call that threw leaves other entries.
Entries ==
  /\ reply \in [Uids -> Replies]
  /\ next \in [Uids -> Nat] /\ \A u \in Uids : next[u] <= Len(reply[u])
  /\ failed \subseteq Uids
  /\ DOMAIN decodeMap \subseteq Uids
  /\ \A u \in DOMAIN decodeMap : Follows(decodeMap[u], reply[u], next[u])
  /\ \A u \in DOMAIN decodeMap : 0 < next[u]
  /\ \A u \in DOMAIN decodeMap : u \in failed \/ next[u] < Len(reply[u])
  /\ \A u \in Uids : 0 < next[u] /\ next[u] < Len(reply[u]) => u \in DOMAIN decodeMap

LEMMA ReplyIs ==
  ASSUME Entries, NEW u \in Uids
  PROVE  /\ reply[u] \in Seq(Seq(STRING)) /\ Len(reply[u]) \in Nat \ {0}
         /\ next[u] \in Nat /\ next[u] <= Len(reply[u])
BY RepliesAssumption DEF Entries

LEMMA OneTokenMore ==
  ASSUME NEW S, NEW r \in Seq(S), NEW n \in Nat, n < Len(r)
  PROVE  /\ SubSeq(r, 1, n) \in Seq(S) /\ Len(SubSeq(r, 1, n)) = n
         /\ Append(SubSeq(r, 1, n), r[n + 1]) = SubSeq(r, 1, n + 1)
         /\ Len(SubSeq(r, 1, n + 1)) = n + 1
<1> DEFINE p == SubSeq(r, 1, n)
           q == SubSeq(r, 1, n + 1)
<1>1. /\ p \in Seq(S) /\ Len(p) = n /\ \A i \in 1 .. n : p[i] = r[i]
      /\ q \in Seq(S) /\ Len(q) = n + 1 /\ \A i \in 1 .. n + 1 : q[i] = r[i]
  OBVIOUS
<1>2. r[n + 1] \in S
  OBVIOUS
<1> HIDE DEF p, q
<1>3. /\ Append(p, r[n + 1]) \in Seq(S) /\ Len(Append(p, r[n + 1])) = n + 1
      /\ \A i \in 1 .. n : Append(p, r[n + 1])[i] = r[i]
      /\ Append(p, r[n + 1])[n + 1] = r[n + 1]
  BY <1>1, <1>2
<1>4. \A i \in 1 .. n + 1 : Append(p, r[n + 1])[i] = q[i]
  BY <1>1, <1>3
<1>5. Append(p, r[n + 1]) = q
  BY <1>1, <1>3, <1>4, SeqEqual
<1> QED BY <1>1, <1>5 DEF p, q

LEMMA NoTokens ==
  ASSUME NEW S, NEW r \in Seq(S)
  PROVE  SubSeq(r, 1, 0) = <<>>
OBVIOUS

-----------------------------------------------------------------------------
(* A batch.                                                                *)

LEMMA BatchIs ==
  ASSUME NEW batch \in Batches
  PROVE  /\ \E n \in Nat : DOMAIN batch = 1 .. n
         /\ ToSet(batch) \subseteq Uids
         /\ \A u \in ToSet(batch) : next[u] < Len(reply[u])
<1>1. PICK S \in SUBSET Uids \ {{}} : batch \in SetToSeqs(S)
  BY DEF Batches
<1>2. \A i \in DOMAIN batch : next[batch[i]] < Len(reply[batch[i]])
  BY DEF Batches
<1>3. IsFiniteSet(S)
  BY UidsAssumption, FS_Subset
<1>4. Cardinality(S) \in Nat
  BY <1>3, FS_CardinalityType
<1>5. batch \in [1 .. Cardinality(S) -> S]
  BY <1>1 DEF SetToSeqs
<1> QED BY <1>1, <1>2, <1>4, <1>5 DEF ToSet

\* the handled messages are among those of the batch, all when none throws
LEMMA HandledAre ==
  ASSUME NEW batch \in Batches
  PROVE  /\ Handled(batch) \subseteq ToSet(batch)
         /\ FirstThrow(batch) = 0 => Handled(batch) = ToSet(batch)
<1> DEFINE k == FirstThrow(batch)
           bad == {i \in DOMAIN batch : Throws(WithTokens(batch)[batch[i]])}
<1>1. PICK n \in Nat : DOMAIN batch = 1 .. n
  BY BatchIs
<1>2. CASE k = 0
  BY <1>2 DEF Handled
<1>3. CASE k # 0
  <2>1. bad \subseteq 1 .. n /\ bad # {}
    BY <1>1, <1>3 DEF FirstThrow
  <2>2. k = CHOOSE i \in bad : \A j \in bad : i <= j
    BY <2>1 DEF FirstThrow
  <2> HIDE DEF bad, k
  <2>3. bad \subseteq Nat
    BY <2>1
  <2>4. k \in bad
    BY <2>1, <2>2, <2>3, LeastElement
  <2>5. k \in 1 .. n
    BY <2>1, <2>4
  <2>6. SubSeq(batch, 1, k - 1) = [i \in 1 .. k - 1 |-> batch[i]]
    BY <2>5
  <2>7. ToSet(SubSeq(batch, 1, k - 1)) \subseteq ToSet(batch)
    BY <1>1, <2>5, <2>6 DEF ToSet
  <2> QED BY <1>3, <2>7 DEF Handled, k
<1> QED BY <1>2, <1>3

-----------------------------------------------------------------------------
(* A call of detokenize.                                                   *)

LEMMA CommittedIs ==
  ASSUME NEW s, NEW r \in Seq(Seq(STRING)), NEW n \in Nat, n <= Len(r), Follows(s, r, n)
  PROVE  Follows(Committed(s), r, n)
<1>1. Len(s.ids) = n
  BY DEF Follows
<1>2. CASE Committed(s) = s
  BY <1>2
<1>3. CASE Committed(s) = [s EXCEPT !.str = @ \o NewText(s), !.surr = s.read, !.read = Len(s.ids)]
  <2>1. Committed(s) = [ids |-> s.ids, str |-> s.str \o NewText(s), surr |-> s.read,
                        read |-> n, sent |-> s.sent]
    BY <1>1, <1>3 DEF Follows, IsStatus
  <2> HIDE DEF Committed
  <2> QED BY <2>1 DEF Follows, IsStatus
<1> QED BY <1>2, <1>3 DEF Committed

\* the number of a request's tokens after the call
LEMMA NextIs ==
  ASSUME Entries, NEW batch \in Batches, Detokenize(batch)
  PROVE  /\ next' \in [Uids -> Nat] /\ reply' = reply
         /\ \A u \in Uids : next'[u] <= Len(reply[u])
         /\ \A u \in ToSet(batch) : next'[u] = next[u] + 1
         /\ \A u \in Uids \ ToSet(batch) : next'[u] = next[u]
<1>1. /\ next' = [u \in Uids |-> next[u] + IF u \in ToSet(batch) THEN 1 ELSE 0]
      /\ reply' = reply
  BY DEF Detokenize
<1>2. ToSet(batch) \subseteq Uids /\ \A u \in ToSet(batch) : next[u] < Len(reply[u])
  BY BatchIs
<1>3. \A u \in Uids : next[u] \in Nat /\ Len(reply[u]) \in Nat /\ next[u] <= Len(reply[u])
  BY ReplyIs
<1> QED BY <1>1, <1>2, <1>3

LEMMA TokensFollow ==
  ASSUME Entries, NEW batch \in Batches, Detokenize(batch)
  PROVE  /\ DOMAIN WithTokens(batch) = DOMAIN decodeMap \cup ToSet(batch)
         /\ \A u \in DOMAIN WithTokens(batch) :
              Follows(WithTokens(batch)[u], reply[u], next'[u]) /\ 0 < next'[u]
<1> DEFINE map == WithTokens(batch)
<1>1. map = [u \in DOMAIN decodeMap \cup ToSet(batch) |->
               IF u \in ToSet(batch)
                 THEN [Status(u) EXCEPT !.ids = Append(@, reply[u][next[u] + 1])]
                 ELSE decodeMap[u]]
  BY DEF WithTokens
<1> HIDE DEF map
<1>2. ASSUME NEW u \in DOMAIN decodeMap \cup ToSet(batch)
      PROVE  Follows(map[u], reply[u], next'[u]) /\ 0 < next'[u]
  <2>1. u \in Uids /\ reply[u] \in Seq(Seq(STRING)) /\ next[u] \in Nat
    BY BatchIs, ReplyIs DEF Entries
  <2>2. CASE u \in ToSet(batch)
    <3> DEFINE s == Status(u)
    <3>1. next'[u] = next[u] + 1 /\ next[u] < Len(reply[u])
      BY <2>2, BatchIs, NextIs
    <3>2. Follows(s, reply[u], next[u])
      <4>1. CASE u \in DOMAIN decodeMap
        BY <4>1 DEF Status, Entries
      <4>2. CASE u \notin DOMAIN decodeMap
        <5>1. next[u] = 0
          BY <2>1, <3>1, <4>2 DEF Entries
        <5>2. SubSeq(reply[u], 1, 0) = <<>>
          BY <2>1, NoTokens
        <5>3. s = [ids |-> <<>>, str |-> <<>>, surr |-> 0, read |-> 0, sent |-> 0]
          BY <4>2 DEF Status, NewStatus
        <5> HIDE DEF s
        <5> QED BY <5>1, <5>2, <5>3 DEF Follows, IsStatus
      <4> QED BY <4>1, <4>2
    <3> HIDE DEF s
    <3>3. map[u] = [s EXCEPT !.ids = Append(s.ids, reply[u][next[u] + 1])]
      BY <1>1, <2>2 DEF s
    <3>4. map[u] = [ids |-> Append(s.ids, reply[u][next[u] + 1]), str |-> s.str,
                    surr |-> s.surr, read |-> s.read, sent |-> s.sent]
      BY <3>2, <3>3 DEF Follows, IsStatus
    <3>5. Append(s.ids, reply[u][next[u] + 1]) = SubSeq(reply[u], 1, next[u] + 1)
      BY <2>1, <3>1, <3>2, OneTokenMore DEF Follows
    <3>6. s.surr \in Nat /\ s.read \in Nat /\ s.surr <= s.read /\ s.read <= next[u] + 1
      BY <2>1, <3>2 DEF Follows
    <3> QED BY <2>1, <3>1, <3>4, <3>5, <3>6 DEF Follows, IsStatus
  <2>3. CASE u \notin ToSet(batch)
    <3>1. u \in DOMAIN decodeMap /\ map[u] = decodeMap[u] /\ next'[u] = next[u]
      BY <1>1, <2>1, <2>3, NextIs
    <3> QED BY <3>1 DEF Entries
  <2> QED BY <2>2, <2>3
<1> QED BY <1>1, <1>2 DEF map

LEMMA EntriesKeep ==
  ASSUME Entries, NEW batch \in Batches, Detokenize(batch)
  PROVE  Entries'
<1> DEFINE map == WithTokens(batch)
           handled == Handled(batch)
           gone == {u \in handled : Finished(u)}
<1>1. /\ DOMAIN map = DOMAIN decodeMap \cup ToSet(batch)
      /\ \A u \in DOMAIN map : Follows(map[u], reply[u], next'[u]) /\ 0 < next'[u]
  BY TokensFollow
<1>2. /\ next' \in [Uids -> Nat] /\ reply' = reply
      /\ \A u \in Uids : next'[u] <= Len(reply[u])
      /\ \A u \in ToSet(batch) : next'[u] = next[u] + 1
      /\ \A u \in Uids \ ToSet(batch) : next'[u] = next[u]
  BY NextIs
<1>3. /\ ToSet(batch) \subseteq Uids /\ \A u \in ToSet(batch) : next[u] < Len(reply[u])
      /\ handled \subseteq ToSet(batch)
      /\ FirstThrow(batch) = 0 => handled = ToSet(batch)
  BY BatchIs, HandledAre
<1>4. \A u \in Uids : /\ reply[u] \in Seq(Seq(STRING)) /\ next[u] \in Nat
                      /\ Len(reply[u]) \in Nat
  BY ReplyIs
<1>5. \A u \in handled : u \in gone <=> next'[u] = Len(reply[u])
  BY <1>2, <1>3 DEF Finished
<1>6. /\ DOMAIN decodeMap' = DOMAIN map \ gone
      /\ \A u \in DOMAIN map \ gone :
           \/ decodeMap'[u] = [Committed(map[u]) EXCEPT !.sent = Len(FullOutput(map[u]))]
           \/ decodeMap'[u] = Committed(map[u])
           \/ decodeMap'[u] = map[u]
  BY DEF Detokenize, AfterBatch
<1>7. /\ failed' = failed \/ failed' = failed \cup ToSet(batch)
      /\ FirstThrow(batch) # 0 => failed' = failed \cup ToSet(batch)
  BY DEF Detokenize
<1> HIDE DEF map, handled, gone
<1>8. DOMAIN decodeMap' \subseteq Uids /\ failed' \subseteq Uids
  BY <1>1, <1>3, <1>6, <1>7 DEF Entries
<1>9. ASSUME NEW u \in DOMAIN decodeMap'
      PROVE  Follows(decodeMap'[u], reply'[u], next'[u]) /\ 0 < next'[u]
  <2>1. u \in DOMAIN map \ gone /\ u \in Uids
    BY <1>6, <1>8
  <2>2. Follows(map[u], reply[u], next'[u]) /\ 0 < next'[u]
    BY <1>1, <2>1
  <2>3. reply[u] \in Seq(Seq(STRING)) /\ next'[u] \in Nat /\ next'[u] <= Len(reply[u])
    BY <1>2, <1>4, <2>1
  <2>4. Follows(Committed(map[u]), reply[u], next'[u])
    BY <2>2, <2>3, CommittedIs
  <2> DEFINE c == Committed(map[u])
             l == Len(FullOutput(map[u]))
  <2> HIDE DEF c, l
  <2>5. Follows([c EXCEPT !.sent = l], reply[u], next'[u])
    <3>1. Follows(c, reply[u], next'[u])
      BY <2>4 DEF c
    <3>3. c = [ids |-> c.ids, str |-> c.str, surr |-> c.surr, read |-> c.read,
               sent |-> c.sent]
      BY <3>1 DEF Follows, IsStatus
    <3>2. [c EXCEPT !.sent = l] = [ids |-> c.ids, str |-> c.str, surr |-> c.surr,
                                   read |-> c.read, sent |-> l]
      BY <3>3
    <3> QED BY <3>1, <3>2 DEF Follows, IsStatus
  <2>6. \/ decodeMap'[u] = [c EXCEPT !.sent = l] \/ decodeMap'[u] = c \/ decodeMap'[u] = map[u]
    BY <1>6, <2>1 DEF c, l
  <2> QED BY <1>2, <2>2, <2>4, <2>5, <2>6 DEF c
<1>10. ASSUME NEW u \in DOMAIN decodeMap', u \notin failed'
       PROVE  next'[u] < Len(reply'[u])
  <2>1. u \in DOMAIN map \ gone /\ u \in Uids /\ u \notin failed
    BY <1>6, <1>7, <1>8, <1>10
  <2>2. CASE u \in ToSet(batch)
    <3>1. u \in handled
      BY <1>3, <1>7, <1>10, <2>2
    <3>2. next'[u] # Len(reply[u])
      BY <1>5, <2>1, <3>1
    <3> QED BY <1>2, <1>4, <2>1, <3>2
  <2>3. CASE u \notin ToSet(batch)
    <3>1. u \in DOMAIN decodeMap /\ next'[u] = next[u]
      BY <1>1, <1>2, <2>1, <2>3
    <3> QED BY <1>2, <2>1, <3>1 DEF Entries
  <2> QED BY <2>2, <2>3
<1>11. ASSUME NEW u \in Uids, 0 < next'[u], next'[u] < Len(reply'[u])
       PROVE  u \in DOMAIN decodeMap'
  <2>1. CASE u \in ToSet(batch)
    <3>1. u \notin gone
      BY <1>2, <1>4, <1>5, <1>11 DEF gone
    <3> QED BY <1>1, <1>6, <2>1, <3>1
  <2>2. CASE u \notin ToSet(batch)
    <3>1. next[u] = next'[u]
      BY <1>2, <2>2
    <3>2. u \in DOMAIN decodeMap
      BY <1>2, <1>11, <3>1 DEF Entries
    <3>3. u \notin gone
      BY <1>3, <2>2 DEF gone
    <3> QED BY <1>1, <1>6, <3>2, <3>3
  <2> QED BY <2>1, <2>2
<1>12. reply' \in [Uids -> Replies] /\ \A u \in Uids : next'[u] <= Len(reply'[u])
  BY <1>2 DEF Entries
<1> QED BY <1>2, <1>8, <1>9, <1>10, <1>11, <1>12 DEF Entries

LEMMA EntriesInit == Init => Entries
<1> SUFFICES ASSUME Init  PROVE Entries
  OBVIOUS
<1>1. /\ decodeMap = <<>> /\ reply \in [Uids -> Replies] /\ next = [u \in Uids |-> 0]
      /\ failed = {}
  BY DEF Init
<1>2. \A u \in Uids : Len(reply[u]) \in Nat
  BY <1>1, RepliesAssumption
<1>3. DOMAIN decodeMap = {}
  BY <1>1
<1> QED BY <1>1, <1>2, <1>3 DEF Entries

LEMMA EntriesAlways == Spec => []Entries
<1>1. ASSUME Entries, [Next]_vars  PROVE Entries'
  <2>1. CASE UNCHANGED vars
    BY <1>1, <2>1 DEF vars, Entries
  <2>2. ASSUME NEW batch \in Batches, Detokenize(batch)  PROVE Entries'
    BY <1>1, <2>2, EntriesKeep
  <2> QED BY <1>1, <2>1, <2>2 DEF Next
<1> QED BY EntriesInit, <1>1, PTL DEF Spec

-----------------------------------------------------------------------------
(* Theorems.                                                               *)

\* The tokens of an entry are those its request was given, in order and none
\* twice, and its offsets follow one another within them, also after a call
\* that threw half-way through its batch.
THEOREM TypeCorrect == Spec => []TypeOK
<1>1. Entries => TypeOK
  <2> SUFFICES ASSUME Entries  PROVE TypeOK
    OBVIOUS
  <2>1. ASSUME NEW u \in DOMAIN decodeMap
        PROVE  /\ decodeMap[u].ids = SubSeq(reply[u], 1, next[u])
               /\ 0 <= decodeMap[u].surr /\ decodeMap[u].surr <= decodeMap[u].read
               /\ decodeMap[u].read <= Len(decodeMap[u].ids)
    <3>1. Follows(decodeMap[u], reply[u], next[u]) /\ u \in Uids
      BY DEF Entries
    <3>2. reply[u] \in Seq(Seq(STRING)) /\ next[u] \in Nat /\ next[u] <= Len(reply[u])
      BY <3>1, ReplyIs
    <3>3. Len(SubSeq(reply[u], 1, next[u])) = next[u]
      BY <3>2
    <3>4. /\ decodeMap[u].ids = SubSeq(reply[u], 1, next[u])
          /\ decodeMap[u].surr \in Nat /\ decodeMap[u].surr <= decodeMap[u].read
          /\ decodeMap[u].read <= next[u]
      BY <3>1 DEF Follows
    <3>5. 0 <= decodeMap[u].surr
      BY <3>4
    <3>6. Len(decodeMap[u].ids) = next[u]
      BY <3>3, <3>4, Zenon
    <3> QED BY <3>4, <3>5, <3>6
  <2> QED BY <2>1 DEF Entries, TypeOK
<1> QED BY <1>1, EntriesAlways, PTL

\* decode_map_ has an entry for each request from its first token to its last
\* and drops it then; only a request of a batch that threw may leave its own
\* behind.
THEOREM EntriesLiveAndDie == Spec => []EntriesLive
<1>1. Entries => EntriesLive
  BY DEF Entries, EntriesLive
<1> QED BY <1>1, EntriesAlways, PTL
=============================================================================
