---------------------------- MODULE ReplyProofs ----------------------------
(***************************************************************************)
(* What the clients of Scheduler are sent, on top of SchedulerProofs.      *)
(* First the counts: a request that is answered still has a token to give  *)
(* (CountInv), so a reply carries its one finished flag on its last token  *)
(* and never after it. Then the tokens: the copy the host keeps of a       *)
(* request, the answer its client has and the row the device writes are    *)
(* beginnings of one sequence (MirrorInv).                                 *)
(***************************************************************************)
EXTENDS SchedulerProofs, NatLemmas

-----------------------------------------------------------------------------
(* How many tokens a request has, was sent, and has on their way.          *)

\* match_prefix finds a length within its input, as it is meant to
LEMMA MatchLenFound ==
  ASSUME NEW t, NEW T, NEW ids \in Seq(T)
  PROVE  LET m == MatchLen(t, ids) IN
         /\ m \in 0 .. Len(ids)
         /\ \A k \in 1 .. m : SubSeq(ids, 1, k) \in Cached(t)
         /\ m < Len(ids) => SubSeq(ids, 1, m + 1) \notin Cached(t)
<1> DEFINE S == {n \in 0 .. Len(ids) :
                   \A k \in 1 .. n : SubSeq(ids, 1, k) \in Cached(t)}
           Found(n) == /\ \A k \in 1 .. n : SubSeq(ids, 1, k) \in Cached(t)
                       /\ n < Len(ids) => SubSeq(ids, 1, n + 1) \notin Cached(t)
<1>1. Len(ids) \in Nat /\ S \subseteq 0 .. Len(ids) /\ 0 \in S
  OBVIOUS
<1>2. PICK n \in S : \A m \in S : m <= n
  BY <1>1, GreatestElement
<1>3. n \in 0 .. Len(ids) /\ \A k \in 1 .. n : SubSeq(ids, 1, k) \in Cached(t)
  OBVIOUS
<1>4. n < Len(ids) => SubSeq(ids, 1, n + 1) \notin Cached(t)
  <2> SUFFICES ASSUME n < Len(ids), SubSeq(ids, 1, n + 1) \in Cached(t)
               PROVE  FALSE
    OBVIOUS
  <2>1. \A k \in 1 .. n + 1 : k \in 1 .. n \/ k = n + 1
    BY <1>3
  <2>2. n + 1 \in 0 .. Len(ids)
    BY <1>1, <1>3
  <2>3. n + 1 \in S
    BY <1>3, <2>1, <2>2
  <2>4. n + 1 <= n
    BY <1>2, <2>3
  <2> QED BY <1>3, <2>4
<1>5. \E m \in 0 .. Len(ids) : Found(m)
  BY <1>3, <1>4
<1>6. MatchLen(t, ids) = CHOOSE m \in 0 .. Len(ids) : Found(m)
  BY DEF MatchLen
<1> HIDE DEF Found
<1>7. MatchLen(t, ids) \in 0 .. Len(ids) /\ Found(MatchLen(t, ids))
  BY <1>5, <1>6
<1> QED BY <1>7 DEF Found

LEMMA PromptTypes ==
  ASSUME NEW u \in Uids
  PROVE  /\ Prompt[u] \in Seq(Tokens) /\ Len(Prompt[u]) \in Nat
         /\ Len(Prompt[u]) > 0 /\ OutputLen(u) \in Int
<1>1. Prompt[u] \in Seq(Tokens) /\ Prompt[u] # <<>> /\ MaxNewTokens[u] \in Int
      /\ MaxSeqLen \in Int
  BY SchedulerAssumption
<1>2. Len(Prompt[u]) \in Nat /\ Len(Prompt[u]) > 0
  BY <1>1
<1> QED BY <1>1, <1>2 DEF OutputLen

LEMMA MatchedLen ==
  ASSUME NEW u \in Uids
  PROVE  /\ Len(Matched(u)) \in Nat /\ Len(Matched(u)) < Len(Prompt[u])
         /\ Matched(u) = SubSeq(Prompt[u], 1, Len(Matched(u)))
<1> DEFINE n == Len(Prompt[u])
           ids == SubSeq(Prompt[u], 1, n - 1)
           m == MatchLen(tree, ids)
<1>1. Prompt[u] \in Seq(Tokens) /\ n \in Nat /\ n > 0
  BY PromptTypes
<1>2. ids \in Seq(Tokens) /\ Len(ids) = n - 1
      /\ \A i \in 1 .. n - 1 : ids[i] = Prompt[u][i]
  BY <1>1
<1> HIDE DEF n, ids
<1>3. m \in 0 .. n - 1
  BY <1>2, MatchLenFound
<1>4. Matched(u) = SubSeq(ids, 1, m)
  BY DEF Matched, ids, n
<1> HIDE DEF m
<1>5. SubSeq(ids, 1, m) = SubSeq(Prompt[u], 1, m) /\ Len(SubSeq(ids, 1, m)) = m
  BY <1>1, <1>2, <1>3 DEF n
<1> QED BY <1>1, <1>3, <1>4, <1>5 DEF n

Sent(u) == Len(reply[u].tokens)

In(u, s) == IF u \in Answering(s) THEN 1 ELSE 0
OnTheWay(u) == In(u, prev) + In(u, flight) + In(u, launched)

Numbers ==
  /\ budget \in Int
  /\ \A u \in Holders : /\ req[u].cached \in Int /\ req[u].device \in Int
                        /\ req[u].max \in Int

\* whoever waits was sent nothing yet, and is to be sent something
Fresh ==
  /\ \A u \in (Uids \ submitted) \cup Waiting : reply[u].tokens = <<>>
  /\ \A u \in submitted : OutputLen(u) > 0

\* the device's length of a request: its prompt, what its client was sent, and
\* what is on its way
Counted ==
  \A u \in Holders \ Gone : ~req[u].chunked =>
    /\ req[u].max = Len(Prompt[u]) + OutputLen(u)
    /\ req[u].device = Len(Prompt[u]) + Sent(u) + OnTheWay(u)
    /\ req[u].device <= req[u].max

\* what is launched has room for one more token
Room ==
  /\ pc # "launch" => \A u \in Range(running) : RemainLen(req[u]) > 0
  /\ pc # "filter" => \A u \in Range(batch) : req[u].chunked \/ RemainLen(req[u]) > 0

\* the mark of an answer says whether its token is the last one
Marks ==
  /\ \A e \in Final(flight) \cup Final(launched) :
       e.uid \notin Gone => e.canDecode = (RemainLen(req[e.uid]) > 0)
  /\ \A e \in Final(prev) :
       e.uid \notin Gone => e.canDecode = (Sent(e.uid) + 1 < OutputLen(e.uid))

CountInv == Numbers /\ Fresh /\ Counted /\ Room /\ Marks

LEMMA FinalIn == ASSUME NEW s PROVE \A e \in Final(s) : e.uid \in Answering(s)
BY DEF Final, Answering

LEMMA CountInit == Init => CountInv
<1> SUFFICES ASSUME Init  PROVE CountInv
  OBVIOUS
<1>1. Holders = {} /\ Waiting = {} /\ submitted = {}
  BY RangeEmpty DEF Init, Holders, Holds, Waiting, NoReq
<1>2. Numbers
  BY <1>1 DEF Init, Numbers
<1>3. Fresh
  BY <1>1 DEF Init, Fresh
<1>4. Counted /\ Room /\ Marks
  BY <1>1, RangeEmpty, EntriesEmpty DEF Init, Counted, Room, Marks
<1> QED BY <1>2, <1>3, <1>4 DEF CountInv

SameNumbers ==
  \A v \in Uids : /\ req'[v].slot = req[v].slot /\ req'[v].cached = req[v].cached
                  /\ req'[v].device = req[v].device /\ req'[v].max = req[v].max
                  /\ req'[v].chunked = req[v].chunked

\* a step that leaves the lengths and the replies alone
LEMMA SameCounts ==
  ASSUME LifeBase, CountInv, SameNumbers, UNCHANGED reply, budget' \in Int,
         Gone \subseteq Gone',
         (Uids \ submitted') \cup Waiting' \subseteq (Uids \ submitted) \cup Waiting,
         \A u \in submitted' : OutputLen(u) > 0,
         \A u \in Holders \ Gone' : OnTheWay(u)' = OnTheWay(u),
         Room', Marks'
  PROVE  CountInv'
<1>1. Holders' = Holders
  BY DEF SameNumbers, Holders, Holds
<1>2. Numbers'
  BY <1>1 DEF CountInv, Numbers, SameNumbers, Holders
<1>3. Fresh'
  BY DEF CountInv, Fresh
<1>4. Counted'
  <2> SUFFICES ASSUME NEW u \in Holders \ Gone', ~req'[u].chunked
               PROVE  /\ req'[u].max = Len(Prompt[u]) + OutputLen(u)
                      /\ req'[u].device = Len(Prompt[u]) + Sent(u)' + OnTheWay(u)'
                      /\ req'[u].device <= req'[u].max
    BY <1>1 DEF Counted
  <2>1. u \in Holders \ Gone /\ u \in Uids
    BY DEF Holders
  <2>2. req'[u].max = req[u].max /\ req'[u].device = req[u].device /\ ~req[u].chunked
    BY <2>1 DEF SameNumbers
  <2>3. Sent(u)' = Sent(u)
    BY DEF Sent
  <2> QED BY <2>1, <2>2, <2>3 DEF CountInv, Counted
<1> QED BY <1>2, <1>3, <1>4 DEF CountInv

\* as SameCounts, and no answer comes or goes, no member of a list comes
LEMMA QuietCounts ==
  ASSUME LifeBase, CountInv, SameNumbers, UNCHANGED <<reply, flight, prev, launched>>,
         budget' \in Int, Gone \subseteq Gone',
         (Uids \ submitted') \cup Waiting' \subseteq (Uids \ submitted) \cup Waiting,
         \A u \in submitted' : OutputLen(u) > 0,
         Range(running') \subseteq Range(running),
         pc' # "launch" => pc # "launch" \/ running' = <<>>,
         pc' # "filter" => \/ pc # "filter" /\ Range(batch') \subseteq Range(batch)
                           \/ pc # "launch" /\ Range(batch') \subseteq Range(running)
                           \/ batch' = <<>>
  PROVE  CountInv'
<1>1. Range(batch) \subseteq Uids /\ Range(running) \subseteq Uids
  BY ListsHold DEF LifeBase, Holders
<1>2. \A u \in Uids : RemainLen(req'[u]) = RemainLen(req[u])
  BY DEF SameNumbers, RemainLen
<1>3. Room'
  <2>1. pc' # "launch" => \A u \in Range(running') : RemainLen(req'[u]) > 0
    <3> SUFFICES ASSUME pc' # "launch", NEW u \in Range(running')
                 PROVE  RemainLen(req'[u]) > 0
      OBVIOUS
    <3>1. u \in Range(running) /\ u \in Uids
      BY <1>1
    <3>2. pc # "launch"
      BY RangeEmpty
    <3> QED BY <1>2, <3>1, <3>2 DEF CountInv, Room
  <2>2. pc' # "filter" =>
          \A u \in Range(batch') : req'[u].chunked \/ RemainLen(req'[u]) > 0
    <3> SUFFICES ASSUME pc' # "filter", NEW u \in Range(batch')
                 PROVE  req'[u].chunked \/ RemainLen(req'[u]) > 0
      OBVIOUS
    <3>1. \/ pc # "filter" /\ u \in Range(batch)
          \/ pc # "launch" /\ u \in Range(running)
      BY RangeEmpty
    <3>2. u \in Uids
      BY <1>1, <3>1
    <3>3. req'[u].chunked = req[u].chunked
      BY <3>2 DEF SameNumbers
    <3> QED BY <1>2, <3>1, <3>2, <3>3 DEF CountInv, Room
  <2> QED BY <2>1, <2>2 DEF Room
<1>4. \A u \in Holders : OnTheWay(u)' = OnTheWay(u)
  BY DEF OnTheWay, In
<1>5. Marks'
  <2>1. ASSUME NEW e \in Final(flight) \cup Final(launched), e.uid \notin Gone'
        PROVE  e.canDecode = (RemainLen(req'[e.uid]) > 0)
    <3>1. e.uid \in Uids /\ e.uid \notin Gone
      BY <2>1, FinalIn, ListsHold DEF LifeBase, Holders
    <3> QED BY <1>2, <3>1 DEF CountInv, Marks
  <2>2. ASSUME NEW e \in Final(prev), e.uid \notin Gone'
        PROVE  e.canDecode = (Sent(e.uid) + 1 < OutputLen(e.uid))
    BY <2>2 DEF CountInv, Marks
  <2> QED BY <2>1, <2>2 DEF Marks, Sent
<1> QED BY <1>3, <1>4, <1>5, SameCounts

-----------------------------------------------------------------------------
(* The steps of the batches.                                               *)

LEMMA UnchangedNumbers == ASSUME UNCHANGED req PROVE SameNumbers
BY DEF SameNumbers

LEMMA ScheduleCounts ==
  ASSUME LifeBase, CountInv,
         \/ BeginAdmission \/ Reclaim \/ EndStep \/ UNCHANGED vars
         \/ ScheduleBurst \/ ScheduleDecode \/ SchedulePrefill
  PROVE  CountInv'
<1> USE DEF queueVars, batchVars, deferVars, tableVars, clientVars
<1>1. /\ UNCHANGED <<req, reply, flight, prev, launched, running, submitted, aborted>>
      /\ budget' = budget \/ budget' = MaxExtendTokens
      /\ \/ UNCHANGED <<pc, batch>>
         \/ /\ pc \in {"schedule", "admit", "reclaim", "process"}
            /\ pc' \in {"admit", "reclaim", "launch", "idle", "process"}
            /\ batch' = batch \/ batch' = running
      /\ UNCHANGED <<pending, chunks>> \/ SchedulePrefill
  BY DEF BeginAdmission, Reclaim, EndStep, vars, ScheduleBurst, ScheduleDecode,
         SchedulePrefill, DecodeBatch, AfterLaunch
<1>2. SameNumbers
  BY <1>1, UnchangedNumbers
<1>3. budget' \in Int
  BY <1>1, SchedulerAssumption DEF CountInv, Numbers
<1>4. Gone' = Gone
  BY <1>1 DEF Gone, Finished
<1>5. Waiting' = Waiting
  <2>1. CASE UNCHANGED <<pending, chunks>>
    BY <2>1 DEF Waiting
  <2>2. CASE SchedulePrefill
    <3>1. pending' = chunks \o pending /\ chunks' = <<>>
      BY <2>2 DEF SchedulePrefill
    <3> QED BY <3>1, ConcatRange, RangeEmpty
            DEF Waiting, LifeBase, SlotInv, ControlTypeOK
  <2> QED BY <1>1, <2>1, <2>2
<1>6. \A u \in submitted' : OutputLen(u) > 0
  BY <1>1 DEF CountInv, Fresh
<1>7. pc' # "filter" => \/ pc # "filter" /\ Range(batch') \subseteq Range(batch)
                        \/ pc # "launch" /\ Range(batch') \subseteq Range(running)
                        \/ batch' = <<>>
  BY <1>1
<1>8. pc' # "launch" => pc # "launch" \/ running' = <<>>
  BY <1>1
<1> QED BY <1>1, <1>2, <1>3, <1>4, <1>5, <1>6, <1>7, <1>8, QuietCounts

LEMMA FilterCounts ==
  ASSUME LifeBase, CountInv, BeginFilter \/ FilterOne  PROVE CountInv'
<1> USE DEF queueVars, batchVars, deferVars, tableVars, clientVars
<1>1. UNCHANGED <<req, reply, flight, prev, launched, pending, chunks, budget,
                  submitted, aborted>>
      /\ pc' = "filter"
  BY DEF BeginFilter, FilterOne
<1>2. SameNumbers
  BY <1>1, UnchangedNumbers
<1>3. Gone' = Gone /\ Waiting' = Waiting
  BY <1>1 DEF Gone, Finished, Waiting
<1>4. \A u \in Range(running') : RemainLen(req[u]) > 0
  <2>1. CASE BeginFilter
    BY <2>1, RangeEmpty DEF BeginFilter
  <2>2. CASE FilterOne
    <3>1. /\ Range(running') = IF CanDecode(req[Head(batch)])
                               THEN Range(running) \cup {Head(batch)} ELSE Range(running)
          /\ pc = "filter"
      BY <2>2, FilterMoves DEF LifeBase
    <3> QED BY <3>1 DEF CanDecode, CountInv, Room
  <2> QED BY <2>1, <2>2
<1>5. Room'
  BY <1>1, <1>4 DEF Room, RemainLen
<1>6. Marks'
  BY <1>1, <1>3 DEF CountInv, Marks, Sent
<1>7. \A u \in Holders \ Gone' : OnTheWay(u)' = OnTheWay(u)
  BY <1>1 DEF OnTheWay, In
<1> QED BY <1>1, <1>2, <1>3, <1>5, <1>6, <1>7, SameCounts DEF CountInv, Numbers, Fresh

\* the batch launched becomes the one to be processed, now or one step later
LEMMA MovedMarks ==
  ASSUME LifeBase, CountInv, NEW s, s = flight \/ s = launched,
         \A u \in Uids : OnTheWay(u) = In(u, s)
  PROVE  \A e \in Final(s) : e.uid \notin Gone =>
           e.canDecode = (Sent(e.uid) + 1 < OutputLen(e.uid))
<1> SUFFICES ASSUME NEW e \in Final(s), e.uid \notin Gone
             PROVE  e.canDecode = (Sent(e.uid) + 1 < OutputLen(e.uid))
  OBVIOUS
<1>1. e.uid \in Answering(s)
  BY FinalIn
<1>2. e.uid \in Holders /\ ~req[e.uid].chunked
  BY <1>1, ListsHold DEF LifeBase, LifeInv, Apart
<1>3. e.uid \in Uids
  BY <1>2 DEF Holders
<1>4. OnTheWay(e.uid) = 1
  BY <1>1, <1>3 DEF In
<1>5. /\ req[e.uid].max = Len(Prompt[e.uid]) + OutputLen(e.uid)
      /\ req[e.uid].device = Len(Prompt[e.uid]) + Sent(e.uid) + 1
  BY <1>2, <1>4 DEF CountInv, Counted
<1>6. e.canDecode = (RemainLen(req[e.uid]) > 0)
  BY DEF CountInv, Marks
<1>7. /\ Len(Prompt[e.uid]) \in Int /\ OutputLen(e.uid) \in Int
      /\ Sent(e.uid) \in Int
  BY <1>3, PromptTypes DEF LifeBase, Replies, Sent
<1>8. (RemainLen(req[e.uid]) > 0) <=> (Sent(e.uid) + 1 < OutputLen(e.uid))
  BY <1>5, <1>7 DEF RemainLen
<1> QED BY <1>6, <1>8

LEMMA BeginStepCounts ==
  ASSUME LifeBase, CountInv, BeginStep  PROVE CountInv'
<1> USE DEF queueVars, batchVars, deferVars, tableVars, clientVars
<1>1. /\ UNCHANGED <<req, reply, launched, pending, chunks, running, batch, budget,
                     submitted, aborted>>
      /\ pc = "idle" /\ pc' = "schedule" /\ prev' = flight /\ flight' = <<>>
  BY DEF BeginStep
<1>2. launched = <<>> /\ prev = <<>>
  BY <1>1 DEF LifeBase, LifeInv, Phases
<1>3. SameNumbers
  BY <1>1, UnchangedNumbers
<1>4. Gone' = Gone /\ Waiting' = Waiting
  BY <1>1 DEF Gone, Finished, Waiting
<1>5. \A u \in Uids : OnTheWay(u) = In(u, flight) /\ OnTheWay(u)' = OnTheWay(u)
  BY <1>1, <1>2, EntriesEmpty DEF OnTheWay, In
<1>6. Marks'
  <2>1. \A e \in Final(flight) : e.uid \notin Gone =>
           e.canDecode = (Sent(e.uid) + 1 < OutputLen(e.uid))
    BY <1>5, MovedMarks
  <2> QED BY <1>1, <1>2, <1>4, <2>1, EntriesEmpty DEF Marks, Sent
<1>7. Room'
  BY <1>1 DEF CountInv, Room, RemainLen
<1> QED BY <1>1, <1>3, <1>4, <1>5, <1>6, <1>7, SameCounts
        DEF CountInv, Numbers, Fresh, Holders

LEMMA EndLaunchCounts ==
  ASSUME LifeBase, CountInv, EndLaunch  PROVE CountInv'
<1> USE DEF queueVars, batchVars, deferVars, tableVars, clientVars
<1>1. /\ UNCHANGED <<req, reply, pending, chunks, running, batch, budget,
                     submitted, aborted>>
      /\ pc = "filter" /\ batch = <<>> /\ launched' = <<>> /\ flight = <<>>
      /\ \/ flight' = launched /\ UNCHANGED prev
         \/ prev' = launched /\ UNCHANGED flight /\ prev = <<>>
  BY DEF EndLaunch, LifeBase, LifeInv, Phases
<1>2. SameNumbers
  BY <1>1, UnchangedNumbers
<1>3. Gone' = Gone /\ Waiting' = Waiting
  BY <1>1 DEF Gone, Finished, Waiting
<1>4. \A u \in Uids : OnTheWay(u)' = OnTheWay(u)
  <2>1. \A u \in Uids : /\ In(u, prev) \in Int /\ In(u, launched) \in Int
                        /\ In(u, <<>>) = 0
    BY EntriesEmpty DEF In
  <2>2. ASSUME flight' = launched /\ UNCHANGED prev, NEW u \in Uids
        PROVE  OnTheWay(u)' = OnTheWay(u)
    <3>1. OnTheWay(u)' = In(u, prev) + In(u, launched) + In(u, <<>>)
      BY <1>1, <2>2 DEF OnTheWay, In
    <3>2. OnTheWay(u) = In(u, prev) + In(u, <<>>) + In(u, launched)
      BY <1>1 DEF OnTheWay
    <3> QED BY <2>1, <3>1, <3>2
  <2>3. ASSUME prev' = launched /\ UNCHANGED flight /\ prev = <<>>, NEW u \in Uids
        PROVE  OnTheWay(u)' = OnTheWay(u)
    <3>1. OnTheWay(u)' = In(u, launched) + In(u, <<>>) + In(u, <<>>)
      BY <1>1, <2>3 DEF OnTheWay, In
    <3>2. OnTheWay(u) = In(u, <<>>) + In(u, <<>>) + In(u, launched)
      BY <1>1, <2>3 DEF OnTheWay
    <3> QED BY <2>1, <3>1, <3>2
  <2> QED BY <1>1, <2>2, <2>3
<1>5. Marks'
  <2>1. CASE flight' = launched /\ UNCHANGED prev
    BY <1>1, <1>3, <2>1, EntriesEmpty DEF CountInv, Marks, Sent
  <2>2. CASE prev' = launched /\ UNCHANGED flight /\ prev = <<>>
    <3>1. \A u \in Uids : OnTheWay(u) = In(u, launched)
      BY <1>1, <2>2, EntriesEmpty DEF OnTheWay, In
    <3>2. \A e \in Final(launched) : e.uid \notin Gone =>
             e.canDecode = (Sent(e.uid) + 1 < OutputLen(e.uid))
      BY <3>1, MovedMarks
    <3> QED BY <1>1, <1>3, <2>2, <3>2, EntriesEmpty DEF Marks, Sent
  <2> QED BY <1>1, <2>1, <2>2
<1>6. Room'
  BY <1>1, RangeEmpty DEF CountInv, Room, RemainLen
<1> QED BY <1>1, <1>2, <1>3, <1>4, <1>5, <1>6, SameCounts
        DEF CountInv, Numbers, Fresh, Holders

-----------------------------------------------------------------------------
(* The steps that make, or advance, the record of a request.               *)

LEMMA NextReqNumbers ==
  ASSUME NEW u \in Uids, NEW slot, NEW cached \in Int, NEW handle, budget \in Int
  PROVE  LET r == NextReq(u, slot, cached, handle) IN
         /\ r.cached \in Int /\ r.device \in Int /\ r.max \in Int
         /\ r.chunked \in BOOLEAN /\ r.slot = slot /\ r.cached = cached
         /\ r.ids = SubSeq(Prompt[u], 1, r.device)
         /\ RemainLen(r) = OutputLen(u) /\ r.device <= Len(Prompt[u])
         /\ ~r.chunked => /\ r.device = Len(Prompt[u])
                          /\ r.max = Len(Prompt[u]) + OutputLen(u)
<1> DEFINE left == Len(Prompt[u]) - cached
           chunk == IF budget < left THEN budget ELSE left
           r == NextReq(u, slot, cached, handle)
<1>1. left \in Int /\ OutputLen(u) \in Int /\ Len(Prompt[u]) \in Int
  BY PromptTypes
<1>2. chunk \in Int /\ chunk <= left /\ (~(chunk < left) => chunk = left)
  BY <1>1
<1>3. /\ r.slot = slot /\ r.ids = SubSeq(Prompt[u], 1, cached + chunk)
      /\ r.cached = cached /\ r.device = cached + chunk
      /\ r.max = cached + chunk + OutputLen(u) /\ r.chunked = (chunk < left)
  BY DEF NextReq
<1>4. cached + left = Len(Prompt[u])
  BY <1>1
<1> HIDE DEF left, chunk, r
<1>5. RemainLen(r) = OutputLen(u)
  BY <1>1, <1>2, <1>3 DEF RemainLen
<1>6. ~r.chunked => r.device = Len(Prompt[u]) /\ r.max = Len(Prompt[u]) + OutputLen(u)
  BY <1>1, <1>2, <1>3, <1>4
<1>7. /\ r.device \in Int /\ r.max \in Int /\ r.chunked \in BOOLEAN
      /\ r.device <= Len(Prompt[u])
  BY <1>1, <1>2, <1>3, <1>4
<1> QED BY <1>3, <1>5, <1>6, <1>7 DEF r

LEMMA AddCounts ==
  ASSUME LifeBase, CountInv, pc = "admit", pending # <<>>, NEW r,
         Add(Head(pending), r), r.cached \in Int, r.device \in Int, r.max \in Int,
         RemainLen(r) = OutputLen(Head(pending)), r.chunked \in BOOLEAN,
         r.slot # NoSlot,
         ~r.chunked => /\ r.device = Len(Prompt[Head(pending)])
                       /\ r.max = Len(Prompt[Head(pending)]) + OutputLen(Head(pending))
  PROVE  CountInv'
<1> DEFINE u == Head(pending)
<1>1. /\ u \in Uids /\ u \in Waiting
      /\ Range(pending) = {u} \cup Range(pending')
      /\ Range(batch') = Range(batch) \cup {u}
      /\ Range(chunks') = IF r.chunked THEN Range(chunks) \cup {u} ELSE Range(chunks)
      /\ UNCHANGED <<pc, running, launched, flight, prev, suppressed, freed,
                     deferredActions, submitted, aborted, reply>>
      /\ req' = [req EXCEPT ![u] = r]
  BY AddMoves DEF LifeBase
<1>2. budget' = budget - ExtendLen(r)
  BY DEF Add
<1> HIDE DEF u
<1>3. Gone' = Gone /\ Waiting' \subseteq Waiting
  BY <1>1 DEF Gone, Finished, Waiting
<1>4. /\ \A v \in Uids \ {u} : req'[v] = req[v]
      /\ req'[u] = r
  BY <1>1 DEF LifeBase, SlotInv, ControlTypeOK
<1>5. /\ u \notin Range(running) /\ u \in submitted
      /\ u \notin Answering(launched) \cup Answering(flight) \cup Answering(prev)
  BY <1>1, WaitingApart, ListsHold DEF LifeBase
<1>6. Holders' = Holders \cup {u}
  BY <1>1, <1>4 DEF Holders, Holds
<1>7. Numbers'
  BY <1>2, <1>4, <1>6 DEF CountInv, Numbers, ExtendLen, Holders
<1>8. Fresh'
  BY <1>1, <1>3 DEF CountInv, Fresh
<1>9. Counted'
  <2> SUFFICES ASSUME NEW v \in (Holders \cup {u}) \ Gone, ~req'[v].chunked
               PROVE  /\ req'[v].max = Len(Prompt[v]) + OutputLen(v)
                      /\ req'[v].device = Len(Prompt[v]) + Sent(v)' + OnTheWay(v)'
                      /\ req'[v].device <= req'[v].max
    BY <1>3, <1>6 DEF Counted
  <2>1. Sent(v)' = Sent(v) /\ OnTheWay(v)' = OnTheWay(v)
    BY <1>1 DEF Sent, OnTheWay, In
  <2>2. CASE v = u
    <3>1. OnTheWay(v) = 0
      BY <1>5, <2>2 DEF OnTheWay, In
    <3>2. Sent(v) = 0
      BY <1>1, <2>2 DEF CountInv, Fresh, Sent
    <3>3. /\ r.device = Len(Prompt[u]) /\ r.max = Len(Prompt[u]) + OutputLen(u)
      BY <1>4, <2>2 DEF u
    <3>4. Len(Prompt[u]) \in Nat /\ OutputLen(u) \in Int /\ OutputLen(u) > 0
      BY <1>1, <1>5, PromptTypes DEF CountInv, Fresh
    <3> QED BY <1>4, <2>1, <2>2, <3>1, <3>2, <3>3, <3>4
  <2>3. CASE v # u
    <3>1. v \in Holders \ Gone /\ req'[v] = req[v]
      BY <1>4, <2>3 DEF Holders
    <3> QED BY <2>1, <3>1 DEF CountInv, Counted
  <2> QED BY <2>2, <2>3
<1>10. Room'
  <2>1. OutputLen(u) > 0 /\ RemainLen(r) = OutputLen(u)
    BY <1>5 DEF CountInv, Fresh, u
  <2>2. Range(running) \subseteq Uids /\ Range(batch) \subseteq Uids
    BY ListsHold DEF LifeBase, Holders
  <2>3. \A v \in Range(batch') : req'[v].chunked \/ RemainLen(req'[v]) > 0
    BY <1>1, <1>4, <2>1, <2>2 DEF CountInv, Room
  <2>4. \A v \in Range(running) : RemainLen(req'[v]) > 0
    BY <1>4, <1>5, <2>2 DEF CountInv, Room
  <2> QED BY <1>1, <2>3, <2>4 DEF Room
<1>11. Marks'
  <2>1. flight = <<>> /\ launched = <<>>
    BY DEF LifeBase, LifeInv, Phases
  <2> QED BY <1>1, <1>3, <2>1, EntriesEmpty DEF CountInv, Marks, Sent
<1> QED BY <1>7, <1>8, <1>9, <1>10, <1>11 DEF CountInv

\* the record that the admission of u makes
Admits(u, r) ==
  /\ Add(u, r) /\ r.slot # NoSlot
  /\ r.cached \in Int /\ r.device \in Int /\ r.max \in Int /\ r.chunked \in BOOLEAN
  /\ r.ids = SubSeq(Prompt[u], 1, r.device)
  /\ RemainLen(r) = OutputLen(u) /\ r.device <= Len(Prompt[u])
  /\ ~r.chunked => r.device = Len(Prompt[u]) /\ r.max = Len(Prompt[u]) + OutputLen(u)

LEMMA AdmitMakes ==
  ASSUME LifeBase, CountInv, AdmitChunk \/ AdmitNew, NEW u, u = Head(pending)
  PROVE  pc = "admit" /\ pending # <<>> /\ \E r : Admits(u, r)
<1>1. pc = "admit" /\ pending # <<>> /\ u \in Uids
  BY HeadTail DEF AdmitChunk, AdmitNew, LifeBase, SlotInv, ControlTypeOK
<1>2. \E slot, handle : \E cached \in Int :
         slot # NoSlot /\ Add(u, NextReq(u, slot, cached, handle))
  <2>1. CASE AdmitChunk
    <3>1. Holds(u) /\ Add(u, NextReq(u, req[u].slot, req[u].cached, req[u].handle))
      BY <2>1 DEF AdmitChunk
    <3>2. req[u].cached \in Int /\ req[u].slot # NoSlot
      BY <1>1, <3>1 DEF CountInv, Numbers, Holders, Holds
    <3> QED BY <3>1, <3>2
  <2>2. CASE AdmitNew
    <3>1. freeSlots # <<>> /\ Add(u, NextReq(u, BackSlot, Len(Matched(u)), Matched(u)))
      BY <2>2 DEF AdmitNew, Admissible
    <3>2. Len(Matched(u)) \in Int
      BY <1>1, MatchedLen
    <3>3. BackSlot \in Slots
      BY <3>1 DEF BackSlot, LifeBase, SlotInv, ControlTypeOK
    <3>4. BackSlot # NoSlot
      BY <3>3, SchedulerAssumption DEF Slots, NoSlot
    <3> QED BY <3>1, <3>2, <3>4
  <2> QED BY <2>1, <2>2
<1>3. PICK slot, handle : \E cached \in Int :
         slot # NoSlot /\ Add(u, NextReq(u, slot, cached, handle))
  BY <1>2
<1>4. PICK cached \in Int : slot # NoSlot /\ Add(u, NextReq(u, slot, cached, handle))
  BY <1>3
<1>5. budget \in Int
  BY DEF CountInv, Numbers
<1> DEFINE r == NextReq(u, slot, cached, handle)
<1>6. /\ r.cached \in Int /\ r.device \in Int /\ r.max \in Int
      /\ r.chunked \in BOOLEAN /\ r.slot = slot
      /\ r.ids = SubSeq(Prompt[u], 1, r.device)
      /\ RemainLen(r) = OutputLen(u) /\ r.device <= Len(Prompt[u])
      /\ ~r.chunked => /\ r.device = Len(Prompt[u])
                       /\ r.max = Len(Prompt[u]) + OutputLen(u)
  BY <1>1, <1>5, NextReqNumbers
<1> HIDE DEF r
<1>7. Add(u, r) /\ r.slot # NoSlot
  BY <1>4, <1>6 DEF r
<1> QED BY <1>1, <1>6, <1>7 DEF Admits

LEMMA AdmitCounts ==
  ASSUME LifeBase, CountInv, AdmitChunk \/ AdmitNew  PROVE CountInv'
<1>1. pc = "admit" /\ pending # <<>> /\ \E r : Admits(Head(pending), r)
  BY AdmitMakes
<1> QED BY <1>1, AddCounts DEF Admits

LEMMA LaunchCounts ==
  ASSUME LifeBase, CountInv, LaunchOne  PROVE CountInv'
<1> DEFINE u == Head(batch)
           r == CompleteOne(req[u])
<1>1. /\ u \in Holders /\ u \in Uids
      /\ Range(batch) = {u} \cup Range(batch') /\ u \notin Range(batch')
      /\ req' = [req EXCEPT ![u] = r] /\ pc = "launch"
      /\ UNCHANGED <<pc, pending, running, chunks, flight, prev, submitted, aborted, reply>>
      /\ \E e \in Entry : /\ e.uid = u /\ e.chunked = req[u].chunked
                          /\ e.canDecode = CanDecode(r)
                          /\ launched' = Append(launched, e)
  BY LaunchMoves DEF LifeBase
<1>2. budget' = budget
  BY DEF LaunchOne
<1>3. IsReq(req[u])
  BY <1>1 DEF LifeBase, SlotInv, ReqFields
<1>4. /\ r.slot = req[u].slot /\ r.chunked = req[u].chunked
      /\ r.cached = req[u].device /\ r.max = req[u].max
      /\ r.device = IF req[u].device < req[u].max THEN req[u].device + 1
                    ELSE req[u].device
  BY <1>3, CompleteOneKeeps
<1> HIDE DEF u, r
<1>5. PICK e \in Entry : /\ e.uid = u /\ e.chunked = req[u].chunked
                         /\ e.canDecode = CanDecode(r)
                         /\ launched' = Append(launched, e)
  BY <1>1
<1>6. /\ \A v \in Uids \ {u} : req'[v] = req[v]
      /\ req'[u] = r
  BY <1>1 DEF LifeBase, SlotInv, ControlTypeOK
<1>7. Holders' = Holders
  BY <1>1, <1>4, <1>6 DEF Holders, Holds
<1>8. Gone' = Gone /\ Waiting' = Waiting
  BY <1>1 DEF Gone, Finished, Waiting
<1>9. flight = <<>> /\ u \notin UidsIn(launched)
  BY <1>1 DEF LifeBase, LifeInv, Phases, Once
<1>10. /\ Final(launched') = Final(launched) \cup {f \in {e} : ~f.chunked}
       /\ Answering(launched') = IF req[u].chunked THEN Answering(launched)
                                 ELSE Answering(launched) \cup {u}
  <2>1. launched \in Seq(Entry)
    BY DEF LifeBase, SlotInv, ControlTypeOK
  <2>2. /\ Final(launched') = Final(launched) \cup {f \in {e} : ~f.chunked}
        /\ Answering(launched') =
             Answering(launched) \cup {f.uid : f \in {f \in {e} : ~f.chunked}}
    BY <1>5, <2>1, EntriesAppend
  <2> QED BY <1>5, <2>2
<1>11. u \notin Answering(launched)
  BY <1>9, AnsweringIn
<1>12. /\ req[u].device \in Int /\ req[u].max \in Int
       /\ ~req[u].chunked => req[u].device < req[u].max
  <2>1. req[u].device \in Int /\ req[u].max \in Int
    BY <1>1 DEF CountInv, Numbers
  <2>2. u \in Range(batch)
    BY <1>1
  <2>3. req[u].chunked \/ RemainLen(req[u]) > 0
    BY <1>1, <2>2 DEF CountInv, Room
  <2> QED BY <2>1, <2>3 DEF RemainLen
<1>13. Numbers'
  BY <1>2, <1>4, <1>6, <1>7, <1>12 DEF CountInv, Numbers, Holders
<1>14. Fresh'
  BY <1>1, <1>8 DEF CountInv, Fresh
<1>15. Counted'
  <2> SUFFICES ASSUME NEW v \in Holders \ Gone, ~req'[v].chunked
               PROVE  /\ req'[v].max = Len(Prompt[v]) + OutputLen(v)
                      /\ req'[v].device = Len(Prompt[v]) + Sent(v)' + OnTheWay(v)'
                      /\ req'[v].device <= req'[v].max
    BY <1>7, <1>8 DEF Counted
  <2>1. Sent(v)' = Sent(v) /\ In(v, prev)' = In(v, prev) /\ In(v, flight)' = In(v, flight)
    BY <1>1 DEF Sent, In
  <2>2. CASE v = u
    <3>1. ~req[u].chunked
      BY <1>4, <1>6, <2>2
    <3>2. /\ req[u].max = Len(Prompt[u]) + OutputLen(u)
          /\ req[u].device = Len(Prompt[u]) + Sent(u) + OnTheWay(u)
      BY <2>2, <3>1 DEF CountInv, Counted
    <3>3. r.device = req[u].device + 1 /\ r.device <= r.max
      BY <1>4, <1>12, <3>1
    <3>4. In(u, launched) = 0
      BY <1>11 DEF In
    <3>5. v \in Answering(launched')
      BY <1>10, <2>2, <3>1
    <3>6. In(v, launched)' = 1
      BY <3>5 DEF In
    <3>7. OnTheWay(v)' = OnTheWay(u) + 1
      <4>1. In(u, prev) \in Int /\ In(u, flight) \in Int
        BY DEF In
      <4> QED BY <2>1, <2>2, <3>4, <3>6, <4>1 DEF OnTheWay
    <3>8. OnTheWay(u) \in Int /\ Sent(u) \in Int /\ Len(Prompt[u]) \in Int
      <4>1. In(u, prev) \in Int /\ In(u, flight) \in Int
        BY DEF In
      <4> QED BY <1>1, <3>4, <4>1, PromptTypes DEF OnTheWay, LifeBase, Replies, Sent
    <3> QED BY <1>4, <1>6, <2>1, <2>2, <3>2, <3>3, <3>7, <3>8
  <2>3. CASE v # u
    <3>1. v \in Uids /\ req'[v] = req[v]
      BY <1>6, <2>3 DEF Holders
    <3>2. In(v, launched)' = In(v, launched)
      BY <1>10, <2>3 DEF In
    <3> QED BY <2>1, <3>1, <3>2 DEF CountInv, Counted, OnTheWay
  <2> QED BY <2>2, <2>3
<1>16. Room'
  <2>1. Range(batch) \subseteq Uids
    BY ListsHold DEF LifeBase, Holders
  <2> QED BY <1>1, <1>6, <2>1 DEF CountInv, Room
<1>17. Marks'
  <2>1. ASSUME NEW f \in Final(launched'), f.uid \notin Gone
        PROVE  f.canDecode = (RemainLen(req'[f.uid]) > 0)
    <3>1. CASE f \in Final(launched)
      <4>1. f.uid \in Answering(launched) /\ f.uid \in Uids
        BY <3>1, FinalIn, ListsHold DEF LifeBase, Holders
      <4>2. req'[f.uid] = req[f.uid]
        BY <1>6, <1>11, <4>1
      <4> QED BY <2>1, <3>1, <4>2 DEF CountInv, Marks
    <3>2. CASE f \notin Final(launched)
      <4>1. f = e /\ ~e.chunked
        BY <1>10, <3>2
      <4>2. e.canDecode = (~r.chunked /\ RemainLen(r) > 0)
        BY <1>5 DEF CanDecode
      <4> QED BY <1>4, <1>5, <1>6, <4>1, <4>2
    <3> QED BY <3>1, <3>2
  <2> QED BY <1>1, <1>8, <1>9, <2>1, EntriesEmpty DEF CountInv, Marks, Sent
<1> QED BY <1>13, <1>14, <1>15, <1>16, <1>17 DEF CountInv

-----------------------------------------------------------------------------
(* The results.                                                            *)

\* what is left of the batch being processed keeps its marks
LEMMA MarksLeft ==
  ASSUME LifeBase, CountInv, Process, SameNumbers, UNCHANGED <<flight, launched>>,
         Gone \subseteq Gone',
         \A v \in Uids \ {Current.uid} : reply'[v] = reply[v],
         ~Current.chunked \/ UNCHANGED reply
  PROVE  /\ Marks'
         /\ \A v \in Uids \ {Current.uid} : OnTheWay(v)' = OnTheWay(v)
         /\ Current.chunked =>
              \A v \in Uids : OnTheWay(v)' = OnTheWay(v)
<1>1. prev \in Seq(Entry) /\ prev # <<>> /\ prev' = Tail(prev) /\ OncePerUid(prev)
  BY DEF Process, LifeBase, SlotInv, ControlTypeOK, LifeInv, Once
<1>2. /\ Final(prev') \subseteq Final(prev)
      /\ Current.uid \notin UidsIn(prev')
      /\ Answering(prev) = Answering(prev') \cup {f.uid : f \in {f \in {Current} : ~f.chunked}}
  BY <1>1, EntriesTail DEF Current
<1>3. /\ UidsIn(prev) \subseteq Uids /\ UidsIn(flight) \subseteq Uids
      /\ UidsIn(launched) \subseteq Uids
  BY UidsInUids DEF LifeBase, SlotInv, ControlTypeOK
<1>4. ASSUME NEW e \in Final(flight) \cup Final(launched), e.uid \notin Gone'
      PROVE  e.canDecode = (RemainLen(req'[e.uid]) > 0)
  <2>1. e.uid \in Uids /\ e.uid \notin Gone
    BY <1>3, <1>4, FinalIn, AnsweringIn
  <2> QED BY <2>1 DEF CountInv, Marks, SameNumbers, RemainLen
<1>5. ASSUME NEW e \in Final(prev'), e.uid \notin Gone'
      PROVE  e.canDecode = (Sent(e.uid)' + 1 < OutputLen(e.uid))
  <2>1. e \in Final(prev) /\ e.uid \notin Gone
    BY <1>2, <1>5
  <2>2. e.uid \in Uids /\ e.uid # Current.uid
    BY <1>2, <1>3, <2>1, FinalIn, AnsweringIn
  <2>3. Sent(e.uid)' = Sent(e.uid)
    BY <2>2 DEF Sent
  <2> QED BY <2>1, <2>3 DEF CountInv, Marks
<1>6. Marks'
  BY <1>4, <1>5 DEF Marks
<1>7. ASSUME NEW v \in Uids, v # Current.uid \/ Current.chunked
      PROVE  OnTheWay(v)' = OnTheWay(v)
  <2>1. v \in Answering(prev') <=> v \in Answering(prev)
    BY <1>2, <1>7
  <2> QED BY <2>1 DEF OnTheWay, In
<1>8. \A v \in Uids \ {Current.uid} : OnTheWay(v)' = OnTheWay(v)
  BY <1>7
<1>9. Current.chunked => \A v \in Uids : OnTheWay(v)' = OnTheWay(v)
  BY <1>7
<1> QED BY <1>6, <1>8, <1>9

LEMMA BecomesNumbers ==
  ASSUME NEW u \in Uids, NEW r, Becomes(u, r),
         r.slot = req[u].slot, r.cached = req[u].cached, r.device = req[u].device,
         r.max = req[u].max, r.chunked = req[u].chunked
  PROVE  SameNumbers
BY DEF Becomes, SameNumbers

LEMMA SkipChunkCounts ==
  ASSUME LifeBase, CountInv, SkipChunk  PROVE CountInv'
<1>1. /\ Process /\ Current.chunked
      /\ UNCHANGED <<pc, pending, running, batch, chunks, budget, launched, flight,
                     req, submitted, aborted, reply>>
  BY DEF SkipChunk, queueVars, batchVars, clientVars
<1>2. SameNumbers
  BY <1>1, UnchangedNumbers
<1>3. Gone' = Gone /\ Waiting' = Waiting
  BY <1>1 DEF Gone, Finished, Waiting
<1>4. Marks' /\ \A v \in Uids : OnTheWay(v)' = OnTheWay(v)
  BY <1>1, <1>2, <1>3, MarksLeft
<1>5. Room'
  BY <1>1 DEF CountInv, Room, RemainLen
<1> QED BY <1>1, <1>2, <1>3, <1>4, <1>5, SameCounts
        DEF CountInv, Numbers, Fresh, Holders

\* the lists of a step between two batches have room still
LEMMA RoomLeft ==
  ASSUME LifeBase, CountInv, SameNumbers, UNCHANGED <<pc, batch>>,
         pc \in {"idle", "process", "schedule"},
         Range(running') \subseteq Range(running)
  PROVE  Room'
<1>1. Range(running) \subseteq Uids /\ batch = <<>>
  BY ListsHold DEF LifeBase, Holders, LifeInv, Phases
<1>2. \A u \in Range(running') : RemainLen(req'[u]) > 0
  BY <1>1 DEF CountInv, Room, SameNumbers, RemainLen
<1> QED BY <1>1, <1>2, RangeEmpty DEF Room

LEMMA ReleaseCounts ==
  ASSUME LifeBase, CountInv, ReleaseSuppressed  PROVE CountInv'
<1> DEFINE u == Current.uid
<1>1. /\ Process /\ ~Current.chunked /\ u \in suppressed
      /\ FreeReqResourcesOrDefer(u, req[u]) \/ UNCHANGED req
      /\ UNCHANGED <<pc, pending, running, batch, chunks, budget, launched, flight,
                     submitted, aborted, reply>>
  BY DEF ReleaseSuppressed, queueVars, batchVars, clientVars
<1>2. u \in Uids /\ pc = "process"
  BY <1>1, ProcessMoves DEF LifeBase
<1>3. u \in Gone
  BY <1>1 DEF LifeBase, LifeInv, Farewell
<1>4. IsReq(req[u])
  BY <1>2 DEF LifeBase, SlotInv, ReqFields
<1>5. SameNumbers
  <2>1. CASE FreeReqResourcesOrDefer(u, req[u])
    <3>1. Becomes(u, req[u])
      BY <1>2, <1>4, <2>1, FreeOrDeferBecomes DEF LifeBase, SlotInv
    <3> QED BY <1>2, <3>1, BecomesNumbers
  <2>2. CASE UNCHANGED req
    BY <2>2, UnchangedNumbers
  <2> QED BY <1>1, <2>1, <2>2
<1>6. Gone' = Gone /\ Waiting' = Waiting
  BY <1>1 DEF Gone, Finished, Waiting
<1>7. Marks' /\ \A v \in Uids \ {u} : OnTheWay(v)' = OnTheWay(v)
  BY <1>1, <1>5, <1>6, MarksLeft
<1>8. Room'
  BY <1>1, <1>2, <1>5, RoomLeft
<1> HIDE DEF u
<1>9. \A v \in Holders \ Gone' : OnTheWay(v)' = OnTheWay(v)
  BY <1>3, <1>6, <1>7 DEF Holders
<1> QED BY <1>1, <1>5, <1>6, <1>7, <1>8, <1>9, SameCounts
        DEF CountInv, Numbers, Fresh

\* a token is handed to a client
LEMMA DeliverCounts ==
  ASSUME LifeBase, CountInv, NEW finished \in BOOLEAN, Deliver(finished),
         NEW r, Becomes(Current.uid, r), r.slot = req[Current.uid].slot,
         r.cached = req[Current.uid].cached, r.device = req[Current.uid].device,
         r.max = req[Current.uid].max, r.chunked = req[Current.uid].chunked,
         Range(running') \subseteq Range(running)
  PROVE  CountInv'
<1> DEFINE u == Current.uid
<1>1. /\ Process /\ ~Current.chunked /\ u \in Uids /\ u \notin Gone
      /\ reply'[u].tokens = Append(reply[u].tokens, Current.token)
      /\ \A v \in Uids \ {u} : reply'[v] = reply[v]
      /\ Gone' = IF finished THEN Gone \cup {u} ELSE Gone
      /\ Replies'
      /\ UNCHANGED <<pc, pending, batch, chunks, launched, flight, submitted, aborted>>
  BY DeliverMoves DEF LifeBase
<1>2. /\ u \in Answering(prev) /\ u \notin UidsIn(prev') /\ u \in Holders
      /\ pc = "process"
  BY <1>1, ProcessMoves DEF LifeBase
<1>3. budget' = budget
  BY DEF Deliver, batchVars
<1>4. SameNumbers
  BY <1>1, BecomesNumbers
<1>5. Gone \subseteq Gone' /\ Waiting' = Waiting
  BY <1>1 DEF Waiting
<1>6. Marks' /\ \A v \in Uids \ {u} : OnTheWay(v)' = OnTheWay(v)
  BY <1>1, <1>4, <1>5, MarksLeft
<1>7. Room'
  BY <1>1, <1>2, <1>4, RoomLeft
<1>8. Sent(u) \in Nat /\ Len(reply'[u].tokens) = Sent(u) + 1
  <2>1. reply[u].tokens \in Seq(Tokens)
    BY <1>1 DEF LifeBase, Replies
  <2> QED BY <1>1, <2>1 DEF Sent
<1>9. ~req[u].chunked /\ u \notin Waiting /\ u \in submitted
  <2>1. ~req[u].chunked
    BY <1>2 DEF LifeBase, LifeInv, Apart
  <2> QED BY <1>2, <2>1 DEF LifeBase, LifeInv, Apart, Holders, SlotInv, AllSubmitted
<1> HIDE DEF u
<1>10. Numbers'
  <2>1. Holders' = Holders
    BY <1>4 DEF SameNumbers, Holders, Holds
  <2> QED BY <1>3, <1>4, <2>1 DEF CountInv, Numbers, SameNumbers, Holders
<1>11. Fresh'
  <2>1. Waiting \subseteq Uids
    BY ListsHold DEF LifeBase, SlotInv, ControlTypeOK
  <2> QED BY <1>1, <1>5, <1>9, <2>1 DEF CountInv, Fresh
<1>12. Counted'
  <2> SUFFICES ASSUME NEW v \in Holders', v \notin Gone', ~req'[v].chunked
               PROVE  /\ req'[v].max = Len(Prompt[v]) + OutputLen(v)
                      /\ req'[v].device = Len(Prompt[v]) + Sent(v)' + OnTheWay(v)'
                      /\ req'[v].device <= req'[v].max
    BY DEF Counted
  <2>1. v \in Uids /\ v \in Holders \ Gone
    BY <1>4, <1>5 DEF SameNumbers, Holders, Holds
  <2>2. req'[v].max = req[v].max /\ req'[v].device = req[v].device /\ ~req[v].chunked
    BY <1>4, <2>1 DEF SameNumbers
  <2>3. /\ req[v].max = Len(Prompt[v]) + OutputLen(v)
        /\ req[v].device = Len(Prompt[v]) + Sent(v) + OnTheWay(v)
        /\ req[v].device <= req[v].max
    BY <2>1, <2>2 DEF CountInv, Counted
  <2>4. Sent(v)' + OnTheWay(v)' = Sent(v) + OnTheWay(v)
    <3>1. CASE v = u
      <4>1. Sent(v)' = Sent(v) + 1
        BY <1>8, <3>1 DEF Sent
      <4>2. v \notin Answering(prev')
        BY <1>2, <3>1, AnsweringIn
      <4>3. In(v, prev)' = 0 /\ In(v, prev) = 1
        BY <1>2, <3>1, <4>2 DEF In
      <4>4. /\ In(v, flight)' = In(v, flight) /\ In(v, launched)' = In(v, launched)
            /\ In(v, flight) \in Int /\ In(v, launched) \in Int
        BY <1>1 DEF In
      <4>5. Sent(v) \in Int
        BY <1>8, <3>1
      <4> QED BY <4>1, <4>3, <4>4, <4>5 DEF OnTheWay
    <3>2. CASE v # u
      BY <1>1, <1>6, <2>1, <3>2 DEF Sent
    <3> QED BY <3>1, <3>2
  <2>5. Len(Prompt[v]) \in Int /\ Sent(v) \in Int /\ OnTheWay(v) \in Int
        /\ Sent(v)' \in Int /\ OnTheWay(v)' \in Int
    <3>1. /\ In(v, prev) \in Int /\ In(v, flight) \in Int /\ In(v, launched) \in Int
          /\ In(v, prev)' \in Int /\ In(v, flight)' \in Int /\ In(v, launched)' \in Int
      BY DEF In
    <3>2. reply[v].tokens \in Seq(Tokens) /\ reply'[v].tokens \in Seq(Tokens)
      BY <1>1, <2>1 DEF LifeBase, Replies
    <3> QED BY <2>1, <3>1, <3>2, PromptTypes DEF OnTheWay, Sent
  <2>6. Len(Prompt[v]) + Sent(v)' + OnTheWay(v)' = Len(Prompt[v]) + Sent(v) + OnTheWay(v)
    BY <2>4, <2>5
  <2> QED BY <2>2, <2>3, <2>6
<1> QED BY <1>6, <1>7, <1>10, <1>11, <1>12 DEF CountInv

LEMMA DeliverBecomes ==
  ASSUME LifeBase, DeliverLast \/ DeliverNext
  PROVE  /\ Becomes(Current.uid, Appended)
         /\ Range(running') \subseteq Range(running)
         /\ \E finished \in BOOLEAN : Deliver(finished)
<1>1. PICK finished \in BOOLEAN : Deliver(finished)
  BY DEF DeliverLast, DeliverNext
<1>2. Current.uid \in Uids
  BY <1>1, DeliverMoves DEF LifeBase
<1>3. IsReq(Appended)
  BY <1>2, AppendedIsReq DEF LifeBase, SlotInv, ReqFields
<1>4. \/ FreeReqResourcesOrDefer(Current.uid, Appended)
      \/ CacheReqOrDefer(Current.uid, Appended)
      \/ req' = [req EXCEPT ![Current.uid] = Appended]
  BY DEF DeliverLast, DeliverNext
<1>5. Becomes(Current.uid, Appended)
  BY <1>2, <1>3, <1>4, FreeOrDeferBecomes, CacheOrDeferBecomes, UpdateBecomes
     DEF LifeBase, SlotInv, ControlTypeOK
<1>6. Range(running') \subseteq Range(running)
  <2>1. running' = running \/ running' = Erase(running, Current.uid)
    BY DEF DeliverLast, DeliverNext
  <2>2. running \in Seq(Uids) /\ IsInjective(running)
    BY DEF LifeBase, SlotInv, ControlTypeOK, LifeInv, Once
  <2> QED BY <2>1, <2>2, EraseRange
<1> QED BY <1>1, <1>5, <1>6

LEMMA ResultCounts ==
  ASSUME LifeBase, CountInv, DeliverLast \/ DeliverNext  PROVE CountInv'
<1>1. /\ Becomes(Current.uid, Appended) /\ Range(running') \subseteq Range(running)
  BY DeliverBecomes
<1>2. PICK finished \in BOOLEAN : Deliver(finished)
  BY DeliverBecomes
<1>3. Current.uid \in Uids
  BY <1>2, DeliverMoves DEF LifeBase
<1>4. /\ Appended.slot = req[Current.uid].slot
      /\ Appended.cached = req[Current.uid].cached
      /\ Appended.device = req[Current.uid].device
      /\ Appended.max = req[Current.uid].max
      /\ Appended.chunked = req[Current.uid].chunked
  BY <1>3, AppendedBecomes DEF LifeBase
<1> QED BY <1>1, <1>2, <1>4, DeliverCounts

-----------------------------------------------------------------------------
(* The commands, and the deferred actions.                                 *)

LEMMA SubmitCounts ==
  ASSUME LifeBase, CountInv, NEW u \in Uids, Submit(u)  PROVE CountInv'
<1>1. /\ pc = "idle" /\ submitted' = submitted \cup {u} /\ u \notin submitted
      /\ pending' = Append(pending, u)
      /\ UNCHANGED <<pc, running, batch, chunks, launched, flight, prev, budget,
                     req, aborted, reply>>
      /\ MaxSeqLen - Len(Prompt[u]) > 0 /\ MaxNewTokens[u] > 0
  BY DEF Submit, batchVars
<1>2. OutputLen(u) > 0
  BY <1>1 DEF OutputLen
<1>3. SameNumbers
  BY <1>1, UnchangedNumbers
<1>4. Waiting' = Waiting \cup {u}
  <2>1. Range(pending') = Range(pending) \cup {u}
    BY <1>1, RangeAppend DEF LifeBase, SlotInv, ControlTypeOK
  <2> QED BY <1>1, <2>1 DEF Waiting
<1>5. (Uids \ submitted') \cup Waiting' \subseteq (Uids \ submitted) \cup Waiting
  BY <1>1, <1>4
<1>6. \A v \in submitted' : OutputLen(v) > 0
  BY <1>1, <1>2 DEF CountInv, Fresh
<1>7. Gone' = Gone
  BY <1>1 DEF Gone, Finished
<1>8. budget' \in Int
  BY <1>1 DEF CountInv, Numbers
<1>9. \/ pc' # "filter" /\ Range(batch') \subseteq Range(batch)
  BY <1>1
<1> QED BY <1>1, <1>3, <1>5, <1>6, <1>7, <1>8, <1>9, QuietCounts

LEMMA AbortCounts ==
  ASSUME LifeBase, CountInv, NEW u \in Uids, Abort(u)  PROVE CountInv'
<1>1. /\ pc = "idle" /\ aborted' = aborted \cup {u}
      /\ pending' = Erase(pending, u) /\ running' = Erase(running, u)
      /\ UNCHANGED req \/ FreeReqResources(u, req[u])
      /\ UNCHANGED <<pc, batch, chunks, launched, flight, prev, budget, submitted, reply>>
  BY DEF Abort, batchVars
<1>2. SameNumbers
  <2>1. CASE UNCHANGED req
    BY <2>1, UnchangedNumbers
  <2>2. CASE FreeReqResources(u, req[u])
    <3>1. IsReq(req[u])
      BY DEF LifeBase, SlotInv, ReqFields
    <3>2. Becomes(u, req[u])
      BY <2>2, <3>1, FreeBecomes DEF LifeBase, SlotInv, ControlTypeOK
    <3> QED BY <3>2, BecomesNumbers
  <2> QED BY <1>1, <2>1, <2>2
<1>3. Gone \subseteq Gone'
  BY <1>1 DEF Gone, Finished
<1>4. /\ Range(pending') \subseteq Range(pending)
      /\ Range(running') \subseteq Range(running)
  BY <1>1, EraseRange DEF LifeBase, SlotInv, ControlTypeOK, LifeInv, Once
<1>5. (Uids \ submitted') \cup Waiting' \subseteq (Uids \ submitted) \cup Waiting
  BY <1>1, <1>4 DEF Waiting
<1>6. budget' \in Int /\ \A v \in submitted' : OutputLen(v) > 0
  BY <1>1 DEF CountInv, Numbers, Fresh
<1> QED BY <1>1, <1>2, <1>3, <1>4, <1>5, <1>6, QuietCounts

LEMMA FlushCounts ==
  ASSUME LifeBase, CountInv, FlushAction  PROVE CountInv'
<1> DEFINE act == Head(deferredActions)
           A == [uid : Uids, finished : BOOLEAN]
<1>1. /\ pc = "schedule" /\ deferredActions # <<>>
      /\ \/ FreeReqResources(act.uid, req[act.uid])
         \/ CacheReq(act.uid, req[act.uid], FALSE)
      /\ UNCHANGED <<pc, pending, running, batch, chunks, launched, flight, prev,
                     budget, submitted, aborted, reply>>
  BY DEF FlushAction, queueVars, batchVars, clientVars
<1>2. act \in A
  <2>1. deferredActions \in Seq(A)
    BY DEF LifeBase, SlotInv, ControlTypeOK
  <2> QED BY <1>1, <2>1, HeadTail
<1>3. act.uid \in Uids
  BY <1>2
<1> HIDE DEF act, A
<1>4. IsReq(req[act.uid])
  BY <1>3 DEF LifeBase, SlotInv, ReqFields
<1>5. Becomes(act.uid, req[act.uid])
  BY <1>1, <1>3, <1>4, FreeBecomes, CacheReqBecomes DEF LifeBase, SlotInv, ControlTypeOK
<1>6. SameNumbers
  BY <1>3, <1>5, BecomesNumbers
<1>7. Gone' = Gone /\ Waiting' = Waiting
  BY <1>1 DEF Gone, Finished, Waiting
<1>8. budget' \in Int /\ \A v \in submitted' : OutputLen(v) > 0
  BY <1>1 DEF CountInv, Numbers, Fresh
<1> QED BY <1>1, <1>6, <1>7, <1>8, QuietCounts

LEMMA CountStep == LifeBase /\ CountInv /\ [Next]_vars => CountInv'
<1> SUFFICES ASSUME LifeBase, CountInv, [Next]_vars  PROVE CountInv'
  OBVIOUS
<1>1. ASSUME NEW u \in Uids, Submit(u) \/ Abort(u)  PROVE CountInv'
  BY <1>1, SubmitCounts, AbortCounts
<1>2. CASE Step
  BY <1>2, ScheduleCounts, FilterCounts, BeginStepCounts, EndLaunchCounts,
     AdmitCounts, LaunchCounts, SkipChunkCounts, ReleaseCounts, ResultCounts,
     FlushCounts DEF Step
<1>3. CASE UNCHANGED vars
  BY <1>3, ScheduleCounts
<1> QED BY <1>1, <1>2, <1>3 DEF Next, Wait

-----------------------------------------------------------------------------
(* What the clients get.                                                   *)

\* a token is the last one exactly when the limit or an end of sequence says so
LEMMA EndsRight ==
  ASSUME LifeBase, CountInv, NEW finished \in BOOLEAN, Deliver(finished)
  PROVE  LET u == Current.uid
             n == Sent(u) + 1 IN
         /\ finished = (n = OutputLen(u) \/ (~IgnoreEos[u] /\ Current.token = EOS))
         /\ n <= OutputLen(u)
<1> DEFINE u == Current.uid
<1>1. /\ Process /\ ~Current.chunked /\ u \in Uids /\ u \notin Gone
      /\ finished = (\/ ~Current.canDecode
                     \/ ~IgnoreEos[u] /\ Current.token = EOS)
  BY DeliverMoves DEF LifeBase
<1>2. /\ u \in Answering(prev) /\ u \in Holders /\ Current \in Range(prev)
  BY <1>1, ProcessMoves DEF LifeBase
<1>3. Current \in Final(prev)
  BY <1>1, <1>2 DEF Final
<1>4. Current.canDecode = (Sent(u) + 1 < OutputLen(u))
  BY <1>1, <1>3 DEF CountInv, Marks
<1> HIDE DEF u
<1>5. ~req[u].chunked
  BY <1>2 DEF LifeBase, LifeInv, Apart
<1>6. /\ req[u].max = Len(Prompt[u]) + OutputLen(u)
      /\ req[u].device = Len(Prompt[u]) + Sent(u) + OnTheWay(u)
      /\ req[u].device <= req[u].max
  BY <1>1, <1>2, <1>5 DEF CountInv, Counted
<1>7. OnTheWay(u) \in Int /\ OnTheWay(u) >= 1
  <2>1. In(u, prev) = 1 /\ In(u, flight) \in 0 .. 1 /\ In(u, launched) \in 0 .. 1
    BY <1>2 DEF In
  <2> QED BY <2>1 DEF OnTheWay
<1>8. Len(Prompt[u]) \in Int /\ OutputLen(u) \in Int /\ Sent(u) \in Int
  BY <1>1, PromptTypes DEF LifeBase, Replies, Sent
<1>9. Sent(u) + 1 <= OutputLen(u)
  BY <1>6, <1>7, <1>8
<1>10. ~(Sent(u) + 1 < OutputLen(u)) <=> Sent(u) + 1 = OutputLen(u)
  BY <1>8, <1>9
<1>11. finished = (Sent(u) + 1 = OutputLen(u) \/ (~IgnoreEos[u] /\ Current.token = EOS))
  BY <1>1, <1>4, <1>10 DEF u
<1> QED BY <1>9, <1>11 DEF u

\* Ends(i) of ReplyShape, for the list r of the tokens of u
EndsAt(u, r, i) == i = OutputLen(u) \/ (~IgnoreEos[u] /\ r[i] = EOS)

LEMMA ShapeStep == LifeBase /\ CountInv /\ ReplyShape /\ [Next]_vars => ReplyShape'
<1> SUFFICES ASSUME LifeBase, CountInv, ReplyShape, [Next]_vars  PROVE ReplyShape'
  OBVIOUS
<1>1. \A u \in Uids : \A i : i \in 1 .. Len(reply[u].tokens) - 1 =>
        ~EndsAt(u, reply[u].tokens, i)
  BY DEF ReplyShape, EndsAt
<1>2. \A u \in Uids : reply[u].tokens # <<>> =>
        reply[u].finished = EndsAt(u, reply[u].tokens, Len(reply[u].tokens))
  BY DEF ReplyShape, EndsAt
<1>3. ASSUME UNCHANGED reply  PROVE ReplyShape'
  BY <1>3 DEF ReplyShape
<1>4. ASSUME NEW finished \in BOOLEAN, Deliver(finished)  PROVE ReplyShape'
  <2> DEFINE c == Current.uid
             s == reply[c].tokens
             t == reply'[c].tokens
             n == Len(s)
  <2>1. /\ c \in Uids /\ c \notin Gone
        /\ t = Append(s, Current.token) /\ reply'[c].finished = finished
        /\ \A v \in Uids \ {c} : reply'[v] = reply[v]
        /\ Process
    BY <1>4, DeliverMoves DEF LifeBase
  <2>2. Current.token \in Tokens
    BY <2>1, ProcessMoves DEF LifeBase, Entry
  <2>3. s \in Seq(Tokens)
    BY <2>1 DEF LifeBase, Replies
  <2>4. finished = (n + 1 = OutputLen(c) \/ (~IgnoreEos[c] /\ Current.token = EOS))
        /\ n + 1 <= OutputLen(c)
    BY <1>4, EndsRight DEF Sent
  <2>5. ~reply[c].finished
    BY <2>1 DEF Gone, Finished
  <2> HIDE DEF s, t
  <2>6. /\ n \in Nat /\ Len(t) = n + 1 /\ t[n + 1] = Current.token /\ t # <<>>
        /\ \A i \in 1 .. n : t[i] = s[i]
    BY <2>1, <2>2, <2>3
  <2>7. finished = EndsAt(c, t, n + 1)
    BY <2>4, <2>6 DEF EndsAt
  <2>8. \A i : i \in 1 .. n => ~EndsAt(c, t, i)
    <3> SUFFICES ASSUME NEW i \in 1 .. n  PROVE ~EndsAt(c, s, i)
      BY <2>6 DEF EndsAt
    <3>1. CASE i = n
      <4>1. s # <<>>
        BY <3>1 DEF n
      <4>2. reply[c].finished = EndsAt(c, s, n)
        BY <1>2, <2>1, <4>1 DEF s
      <4> QED BY <2>5, <3>1, <4>2
    <3>2. CASE i # n
      <4>1. i \in 1 .. n - 1
        BY <2>6, <3>2
      <4> QED BY <1>1, <2>1, <4>1 DEF s
    <3> QED BY <3>1, <3>2
  <2> HIDE DEF n, c
  <2>9. \A u \in Uids :
          /\ \A i : i \in 1 .. Len(reply'[u].tokens) - 1 =>
                 ~EndsAt(u, reply'[u].tokens, i)
          /\ reply'[u].tokens # <<>> =>
               reply'[u].finished = EndsAt(u, reply'[u].tokens, Len(reply'[u].tokens))
    <3> TAKE u \in Uids
    <3>1. CASE u = c
      <4>1. reply'[u].tokens = t /\ Len(t) - 1 = n /\ reply'[u].finished = finished
        BY <2>1, <2>6, <3>1 DEF t
      <4> QED BY <2>6, <2>7, <2>8, <3>1, <4>1
    <3>2. CASE u # c
      <4>1. reply'[u] = reply[u]
        BY <2>1, <3>2
      <4> QED BY <1>1, <1>2, <4>1
    <3> QED BY <3>1, <3>2
  <2> QED BY <2>9 DEF ReplyShape, EndsAt
<1> QED BY <1>3, <1>4, ClientSteps DEF clientVars, Submit, Abort

ReplyBase == LifeBase /\ CountInv

LEMMA ReplyBaseInit == Init => ReplyBase
BY LifeBaseInit, CountInit DEF ReplyBase

LEMMA ReplyBaseStep == ReplyBase /\ [Next]_vars => ReplyBase'
BY LifeBaseStep, CountStep DEF ReplyBase

LEMMA ShapeInit == Init => ReplyShape
<1> SUFFICES ASSUME Init, NEW u \in Uids
             PROVE  reply[u].tokens = <<>>
  BY DEF ReplyShape
<1> QED BY DEF Init

(* What a client gets: never a token after the end, and the end marked     *)
(* exactly when the limit that submit() computed, or an end-of-sequence    *)
(* token the request does not ignore, is reached (process_forward_output), *)
(* although the forward for a further token may have been launched before  *)
(* the end was seen.                                                       *)
THEOREM RepliesRight == Spec => []ReplyShape
<1>1. Init => ReplyBase /\ ReplyShape
  BY ReplyBaseInit, ShapeInit
<1>2. ReplyBase /\ ReplyShape /\ [Next]_vars => (ReplyBase /\ ReplyShape)'
  BY ReplyBaseStep, ShapeStep DEF ReplyBase
<1> QED BY <1>1, <1>2, PTL DEF Spec

LEMMA ServiceInit == Init => Service!Init
<1> SUFFICES ASSUME Init  PROVE Service!Init
  OBVIOUS
<1>1. \A u \in Uids : Phase(u) = "unknown" /\ Len(reply[u].tokens) = 0
  BY DEF Init, Phase, Finished
<1> QED BY <1>1 DEF Service!Init

LEMMA ServiceStep == ReplyBase /\ [Next]_vars => [Service!Next]_(Service!vars)
<1> SUFFICES ASSUME ReplyBase, [Next]_vars  PROVE [Service!Next]_(Service!vars)
  OBVIOUS
<1> USE DEF ReplyBase
<1>1. ASSUME UNCHANGED clientVars  PROVE UNCHANGED Service!vars
  BY <1>1 DEF clientVars, Service!vars, Phase, Finished
<1>2. ASSUME NEW u \in Uids, Submit(u)  PROVE Service!Next
  <2>1. /\ u \notin submitted /\ submitted' = submitted \cup {u}
        /\ UNCHANGED <<aborted, reply>>
    BY <1>2 DEF Submit
  <2>2. u \notin aborted /\ ~Finished(u)
    BY <2>1 DEF LifeBase, LifeInv, Farewell, Gone
  <2>3. Phase(u) = "unknown" /\ Phase(u)' = "live"
    BY <2>1, <2>2 DEF Phase, Finished
  <2>4. \A v \in Uids \ {u} : Phase(v)' = Phase(v)
    BY <2>1 DEF Phase, Finished
  <2>5. Service!Submit(u)
    BY <2>1, <2>3, <2>4 DEF Service!Submit
  <2> QED BY <2>5 DEF Service!Next
<1>3. ASSUME NEW u \in Uids, Abort(u)  PROVE Service!Next
  <2>1. /\ Contains(pending, u) \/ Contains(running, u)
        /\ aborted' = aborted \cup {u} /\ UNCHANGED <<submitted, reply>>
    BY <1>3 DEF Abort
  <2>2. u \in Waiting \cup Range(running)
    BY <2>1 DEF Contains, Waiting, Range
  <2>3. u \in submitted
    BY <2>2, ListsHold DEF LifeBase, SlotInv, AllSubmitted
  <2>4. u \notin aborted /\ ~Finished(u)
    BY <2>2 DEF LifeBase, LifeInv, Farewell, Gone
  <2>5. Phase(u) = "live" /\ Phase(u)' = "aborted"
    BY <2>1, <2>3, <2>4 DEF Phase
  <2>6. \A v \in Uids \ {u} : Phase(v)' = Phase(v)
    BY <2>1 DEF Phase, Finished
  <2>7. Service!Abort(u)
    BY <2>1, <2>5, <2>6 DEF Service!Abort
  <2> QED BY <2>7 DEF Service!Next
<1>4. ASSUME NEW finished \in BOOLEAN, Deliver(finished)  PROVE Service!Next
  <2> DEFINE c == Current.uid
  <2>1. /\ Process /\ c \in Uids /\ c \notin Gone
        /\ reply'[c].tokens = Append(reply[c].tokens, Current.token)
        /\ reply'[c].finished = finished
        /\ \A v \in Uids \ {c} : reply'[v] = reply[v]
        /\ UNCHANGED <<submitted, aborted>>
    BY <1>4, DeliverMoves DEF LifeBase
  <2>2. c \in Holders
    BY <2>1, ProcessMoves DEF LifeBase
  <2>3. c \in submitted
    BY <2>2 DEF LifeBase, SlotInv, AllSubmitted
  <2>4. Sent(c) + 1 = OutputLen(c) => finished
    BY <1>4, EndsRight
  <2>5. Len(reply'[c].tokens) = Sent(c) + 1
    <3>1. reply[c].tokens \in Seq(Tokens)
      BY <2>1 DEF LifeBase, Replies
    <3> QED BY <2>1, <3>1 DEF Sent
  <2> HIDE DEF c
  <2>6. PICK u \in Uids : u = c
    BY <2>1
  <2>7. c \notin aborted /\ ~Finished(c)
    BY <2>1 DEF Gone
  <2>8. /\ Phase(u) = "live" /\ Phase(u)' = IF finished THEN "ended" ELSE "live"
    BY <2>1, <2>3, <2>6, <2>7 DEF Phase, Finished
  <2>9. \A v \in Uids \ {u} : /\ Phase(v)' = Phase(v)
                                /\ Len(reply'[v].tokens) = Len(reply[v].tokens)
    BY <2>1, <2>6 DEF Phase, Finished
  <2>10. Service!Reply(u, finished)
    BY <2>4, <2>5, <2>6, <2>8, <2>9 DEF Service!Reply, Sent
  <2> QED BY <2>10 DEF Service!Next
<1> QED BY <1>1, <1>2, <1>3, <1>4, ClientSteps

(* The scheduler implements Generation, on which Frontend is built: tokens *)
(* one by one, the limit marked as the end at the latest, nothing after    *)
(* the end and nothing after an abort, although the token of a forward in  *)
(* flight arrives later (suppressed_reqs_, release_deferred_req).          *)
THEOREM PromiseKept == Spec => ImplementsGeneration
<1> QED BY ReplyBaseInit, ReplyBaseStep, ServiceInit, ServiceStep, PTL
        DEF Spec, ImplementsGeneration, Service!Spec

\* appending to the second of two lists appends to both of them
LEMMA ConcatAppend ==
  ASSUME NEW S, NEW s \in Seq(S), NEW t \in Seq(S), NEW e \in S
  PROVE  s \o Append(t, e) = Append(s \o t, e)
<1> DEFINE x == s \o Append(t, e)
           y == Append(s \o t, e)
           n == Len(s) + Len(t)
<1>1. /\ Append(t, e) \in Seq(S) /\ Len(Append(t, e)) = Len(t) + 1
      /\ \A i \in 1 .. Len(t) : Append(t, e)[i] = t[i]
      /\ Append(t, e)[Len(t) + 1] = e
  BY AppendProperties
<1>2. /\ s \o t \in Seq(S) /\ Len(s \o t) = n
      /\ \A i \in 1 .. n : (s \o t)[i] = IF i <= Len(s) THEN s[i] ELSE t[i - Len(s)]
  BY ConcatProperties
<1>3. /\ x \in Seq(S) /\ Len(x) = Len(s) + Len(Append(t, e))
      /\ \A i \in 1 .. Len(s) + Len(Append(t, e)) :
           x[i] = IF i <= Len(s) THEN s[i] ELSE Append(t, e)[i - Len(s)]
  BY <1>1, ConcatProperties
<1>4. /\ y \in Seq(S) /\ Len(y) = n + 1
      /\ \A i \in 1 .. n : y[i] = (s \o t)[i]
      /\ y[n + 1] = e
  BY <1>2, AppendProperties
<1>5. Len(s) \in Nat /\ Len(t) \in Nat /\ Len(x) = n + 1
  BY <1>1, <1>3
<1> HIDE DEF x, y
<1>6. ASSUME NEW i \in 1 .. Len(x) PROVE x[i] = y[i]
  <2>1. CASE i <= Len(s)
    <3>1. i \in 1 .. n
      BY <1>5, <2>1
    <3> QED BY <1>1, <1>2, <1>3, <1>4, <1>5, <2>1, <3>1
  <2>2. CASE i > Len(s) /\ i <= n
    <3>1. i \in 1 .. n /\ i - Len(s) \in 1 .. Len(t) /\ ~(i <= Len(s))
      BY <1>5, <2>2
    <3>2. x[i] = Append(t, e)[i - Len(s)]
      BY <1>1, <1>3, <1>5, <3>1
    <3> QED BY <1>1, <1>2, <1>4, <3>1, <3>2
  <2>3. CASE i = n + 1
    <3>1. i - Len(s) = Len(t) + 1 /\ ~(i <= Len(s))
      BY <1>5, <2>3
    <3>2. x[i] = Append(t, e)[i - Len(s)]
      BY <1>1, <1>3, <1>5, <3>1
    <3> QED BY <1>1, <1>4, <2>3, <3>1, <3>2
  <2> QED BY <1>5, <2>1, <2>2, <2>3
<1>7. x = y
  BY <1>3, <1>4, <1>5, <1>6, SeqEqual
<1> QED BY <1>7 DEF x, y

-----------------------------------------------------------------------------
(* The host's copy of a request and the row the device continues.          *)

Row(u) == tokenRow[req[u].slot]
Text(u) == Prompt[u] \o reply[u].tokens

\* s begins t
Begins(s, t) == Len(s) <= Len(t) /\ \A i \in 1 .. Len(s) : s[i] = t[i]

RowTypes ==
  /\ tokenRow \in [Slots -> Seq(Tokens)]
  /\ \A u \in Holders : req[u].ids \in Seq(Tokens)

\* the host's tokens are those of the prompt and of the client, and the device
\* has them too
Mirrors ==
  \A u \in Owned : /\ Begins(req[u].ids, Row(u))
                   /\ Begins(req[u].ids, Text(u))
                   /\ ~req[u].chunked => Len(req[u].ids) = Len(Text(u))

\* the device's row is as long as the device believes, and the tokens on their
\* way are its last ones
Ahead ==
  \A u \in Holders \ Gone :
    /\ ~req[u].chunked => Len(Row(u)) = req[u].device
    /\ \A e \in Final(flight) \cup Final(launched) :
         e.uid = u => Row(u)[req[u].device] = e.token
    /\ \A e \in Final(prev) :
         e.uid = u => Row(u)[Len(Prompt[u]) + Sent(u) + 1] = e.token

MirrorInv == RowTypes /\ Mirrors /\ Ahead

LEMMA MirrorInit == Init => MirrorInv
<1> SUFFICES ASSUME Init  PROVE MirrorInv
  OBVIOUS
<1>1. Holders = {} /\ Owned = {}
  BY DEF Init, Holders, Owned, Holds, NoReq
<1>2. tokenRow \in [Slots -> Seq(Tokens)]
  BY DEF Init
<1> QED BY <1>1, <1>2 DEF MirrorInv, RowTypes, Mirrors, Ahead

SameRecords ==
  \A v \in Uids : /\ req'[v].slot = req[v].slot /\ req'[v].ids = req[v].ids
                  /\ req'[v].device = req[v].device
                  /\ req'[v].chunked = req[v].chunked

LEMMA UnchangedRecords == ASSUME UNCHANGED req PROVE SameRecords
BY DEF SameRecords

LEMMA BecomesRecords ==
  ASSUME NEW u \in Uids, Becomes(u, req[u])  PROVE SameRecords
BY DEF Becomes, SameRecords

\* a step that leaves the rows, the replies and the host's copies alone
LEMMA SameMirror ==
  ASSUME ReplyBase, MirrorInv, SameRecords, UNCHANGED <<tokenRow, reply>>,
         Owned' \subseteq Owned, Ahead'
  PROVE  MirrorInv'
<1>1. RowTypes'
  BY DEF MirrorInv, RowTypes, SameRecords, Holders, Holds
<1>2. Mirrors'
  <2> SUFFICES ASSUME NEW u \in Owned'
               PROVE  /\ Begins(req'[u].ids, Row(u)')
                      /\ Begins(req'[u].ids, Text(u)')
                      /\ ~req'[u].chunked => Len(req'[u].ids) = Len(Text(u)')
    BY DEF Mirrors
  <2>1. u \in Owned /\ u \in Uids
    BY DEF Owned
  <2>2. /\ req'[u].ids = req[u].ids /\ req'[u].chunked = req[u].chunked
        /\ Row(u)' = Row(u) /\ Text(u)' = Text(u)
    BY <2>1 DEF SameRecords, Row, Text
  <2> QED BY <2>1, <2>2 DEF MirrorInv, Mirrors
<1> QED BY <1>1, <1>2 DEF MirrorInv

\* as SameMirror, and no answer comes
LEMMA QuietMirror ==
  ASSUME ReplyBase, MirrorInv, SameRecords, UNCHANGED <<tokenRow, reply>>,
         Owned' \subseteq Owned, Gone \subseteq Gone',
         Final(flight') \cup Final(launched') \subseteq Final(flight) \cup Final(launched),
         Final(prev') \subseteq Final(prev)
  PROVE  MirrorInv'
<1>1. Ahead'
  <2> SUFFICES ASSUME NEW u \in Holders', u \notin Gone'
               PROVE  /\ ~req'[u].chunked => Len(Row(u)') = req'[u].device
                      /\ \A e \in Final(flight') \cup Final(launched') :
                           e.uid = u => Row(u)'[req'[u].device] = e.token
                      /\ \A e \in Final(prev') :
                           e.uid = u => Row(u)'[Len(Prompt[u]) + Sent(u)' + 1] = e.token
    BY DEF Ahead
  <2>1. u \in Holders \ Gone /\ u \in Uids
    BY DEF Holders, Holds, SameRecords
  <2>2. /\ req'[u].device = req[u].device /\ req'[u].chunked = req[u].chunked
        /\ Row(u)' = Row(u) /\ Sent(u)' = Sent(u)
    BY <2>1 DEF SameRecords, Row, Sent
  <2> QED BY <2>1, <2>2 DEF MirrorInv, Ahead
<1> QED BY <1>1, SameMirror

LEMMA OwnedHolds ==
  ASSUME ReplyBase
  PROVE  Owned \subseteq Holders /\ Holders \ Gone \subseteq Owned
BY DEF Owned, Holders, ReplyBase, LifeBase, LifeInv, Farewell

LEMMA TextTypes ==
  ASSUME ReplyBase, NEW u \in Uids
  PROVE  /\ Text(u) \in Seq(Tokens) /\ Len(Text(u)) = Len(Prompt[u]) + Sent(u)
         /\ Sent(u) \in Nat /\ Len(Prompt[u]) \in Nat
         /\ \A i \in 1 .. Len(Prompt[u]) : Text(u)[i] = Prompt[u][i]
<1>1. Prompt[u] \in Seq(Tokens) /\ reply[u].tokens \in Seq(Tokens)
  BY PromptTypes DEF ReplyBase, LifeBase, Replies
<1>2. /\ Text(u) \in Seq(Tokens) /\ Len(Text(u)) = Len(Prompt[u]) + Sent(u)
      /\ \A i \in 1 .. Len(Prompt[u]) + Sent(u) :
           Text(u)[i] = IF i <= Len(Prompt[u]) THEN Prompt[u][i]
                        ELSE reply[u].tokens[i - Len(Prompt[u])]
  BY <1>1, ConcatProperties DEF Text, Sent
<1>3. Len(Prompt[u]) \in Nat /\ Sent(u) \in Nat
  BY <1>1 DEF Sent
<1> QED BY <1>2, <1>3

-----------------------------------------------------------------------------
(* The steps that leave the tokens alone.                                  *)

LEMMA PassMirror ==
  ASSUME ReplyBase, MirrorInv,
         \/ BeginAdmission \/ Reclaim \/ EndStep \/ UNCHANGED vars
         \/ ScheduleBurst \/ ScheduleDecode \/ SchedulePrefill
         \/ BeginFilter \/ FilterOne \/ SkipChunk
  PROVE  MirrorInv'
<1> USE DEF queueVars, batchVars, deferVars, tableVars, clientVars
<1>1. UNCHANGED <<req, tokenRow, reply, flight, launched, freed, aborted>>
  BY DEF BeginAdmission, Reclaim, EndStep, vars, ScheduleBurst, ScheduleDecode,
         SchedulePrefill, DecodeBatch, BeginFilter, FilterOne, SkipChunk
<1>2. SameRecords /\ Owned' = Owned /\ Gone' = Gone
  BY <1>1, UnchangedRecords DEF Owned, Holds, Gone, Finished
<1>3. Final(prev') \subseteq Final(prev)
  <2>1. CASE SkipChunk
    <3>1. Range(prev) = {Current} \cup Range(prev')
      BY <2>1, ProcessMoves DEF ReplyBase, LifeBase, SkipChunk
    <3> QED BY <3>1 DEF Final
  <2>2. CASE ~SkipChunk
    <3>1. UNCHANGED prev
      BY <2>2 DEF BeginAdmission, Reclaim, EndStep, vars, ScheduleBurst, ScheduleDecode,
                  SchedulePrefill, DecodeBatch, BeginFilter, FilterOne
    <3> QED BY <3>1
  <2> QED BY <2>1, <2>2
<1> QED BY <1>1, <1>2, <1>3, QuietMirror

\* the batch launched becomes the one to be processed, now or one step later
LEMMA MovedTokens ==
  ASSUME ReplyBase, MirrorInv, NEW s, s = flight \/ s = launched,
         \A u \in Uids : OnTheWay(u) = In(u, s),
         NEW u \in Holders \ Gone, NEW e \in Final(s), e.uid = u
  PROVE  Row(u)[Len(Prompt[u]) + Sent(u) + 1] = e.token
<1>1. u \in Answering(s) /\ u \in Uids
  BY FinalIn DEF Holders
<1>2. ~req[u].chunked
  BY <1>1 DEF ReplyBase, LifeBase, LifeInv, Apart
<1>3. OnTheWay(u) = 1
  BY <1>1 DEF In
<1>4. req[u].device = Len(Prompt[u]) + Sent(u) + 1
  BY <1>2, <1>3 DEF ReplyBase, CountInv, Counted
<1>5. Row(u)[req[u].device] = e.token
  BY DEF MirrorInv, Ahead
<1> QED BY <1>4, <1>5

LEMMA BeginStepMirror ==
  ASSUME ReplyBase, MirrorInv, BeginStep  PROVE MirrorInv'
<1> USE DEF queueVars, batchVars, deferVars, tableVars, clientVars
<1>1. /\ UNCHANGED <<req, tokenRow, reply, launched, freed, aborted>>
      /\ pc = "idle" /\ prev' = flight /\ flight' = <<>>
  BY DEF BeginStep
<1>2. launched = <<>> /\ prev = <<>>
  BY <1>1 DEF ReplyBase, LifeBase, LifeInv, Phases
<1>3. SameRecords /\ Owned' = Owned /\ Gone' = Gone /\ Holders' = Holders
  BY <1>1, UnchangedRecords DEF Owned, Holds, Gone, Finished, Holders
<1>4. \A u \in Uids : OnTheWay(u) = In(u, flight)
  BY <1>2, EntriesEmpty DEF OnTheWay, In
<1>5. \A u \in Holders \ Gone : \A e \in Final(flight) :
        e.uid = u => Row(u)[Len(Prompt[u]) + Sent(u) + 1] = e.token
  BY <1>4, MovedTokens
<1>6. \A u : Row(u)' = Row(u) /\ Sent(u)' = Sent(u)
  BY <1>1 DEF Row, Sent
<1>7. Ahead'
  BY <1>1, <1>2, <1>3, <1>5, <1>6, EntriesEmpty DEF Ahead, MirrorInv
<1> QED BY <1>1, <1>3, <1>7, SameMirror

LEMMA EndLaunchMirror ==
  ASSUME ReplyBase, MirrorInv, EndLaunch  PROVE MirrorInv'
<1> USE DEF queueVars, batchVars, deferVars, tableVars, clientVars
<1>1. /\ UNCHANGED <<req, tokenRow, reply, freed, aborted>>
      /\ launched' = <<>> /\ flight = <<>>
      /\ \/ flight' = launched /\ UNCHANGED prev
         \/ prev' = launched /\ UNCHANGED flight /\ prev = <<>>
  BY DEF EndLaunch, ReplyBase, LifeBase, LifeInv, Phases
<1>2. SameRecords /\ Owned' = Owned /\ Gone' = Gone /\ Holders' = Holders
  BY <1>1, UnchangedRecords DEF Owned, Holds, Gone, Finished, Holders
<1>3. CASE flight' = launched /\ UNCHANGED prev
  BY <1>1, <1>2, <1>3, EntriesEmpty, QuietMirror
<1>4. CASE prev' = launched /\ UNCHANGED flight /\ prev = <<>>
  <2>1. \A u \in Uids : OnTheWay(u) = In(u, launched)
    BY <1>1, <1>4, EntriesEmpty DEF OnTheWay, In
  <2>2. \A u \in Holders \ Gone : \A e \in Final(launched) :
          e.uid = u => Row(u)[Len(Prompt[u]) + Sent(u) + 1] = e.token
    BY <2>1, MovedTokens
  <2>3. \A u : Row(u)' = Row(u) /\ Sent(u)' = Sent(u)
    BY <1>1 DEF Row, Sent
  <2>4. Ahead'
    BY <1>1, <1>2, <1>4, <2>2, <2>3, EntriesEmpty DEF Ahead, MirrorInv
  <2> QED BY <1>1, <1>2, <2>4, SameMirror
<1> QED BY <1>1, <1>3, <1>4

-----------------------------------------------------------------------------
(* Aborts, frees and the handles of the cache.                             *)

LEMMA SubmitMirror ==
  ASSUME ReplyBase, MirrorInv, NEW u \in Uids, Submit(u)  PROVE MirrorInv'
<1>1. /\ u \notin submitted /\ freed' = freed \ {u}
      /\ UNCHANGED <<req, tokenRow, reply, launched, flight, prev, aborted>>
  BY DEF Submit, batchVars, tableVars
<1>2. ~Holds(u)
  BY <1>1 DEF ReplyBase, LifeBase, SlotInv, AllSubmitted, Holders
<1>3. SameRecords /\ Owned' = Owned /\ Gone' = Gone
  BY <1>1, <1>2, UnchangedRecords DEF Owned, Holds, Gone, Finished
<1> QED BY <1>1, <1>3, QuietMirror

\* a step that may give up what a request owns, and no more
LEMMA GiveUpMirror ==
  ASSUME ReplyBase, MirrorInv, SameRecords, UNCHANGED <<tokenRow, reply>>,
         freed \subseteq freed', Gone \subseteq Gone',
         UNCHANGED <<flight, launched>>, Final(prev') \subseteq Final(prev)
  PROVE  MirrorInv'
<1>1. Owned' \subseteq Owned
  BY DEF Owned, Holds, SameRecords
<1> QED BY <1>1, QuietMirror

LEMMA AbortMirror ==
  ASSUME ReplyBase, MirrorInv, NEW u \in Uids, Abort(u)  PROVE MirrorInv'
<1>1. /\ aborted' = aborted \cup {u}
      /\ UNCHANGED <<req, freed>> \/ FreeReqResources(u, req[u])
      /\ UNCHANGED <<tokenRow, launched, flight, prev, reply>>
  BY DEF Abort, batchVars
<1>2. IsReq(req[u])
  BY DEF ReplyBase, LifeBase, SlotInv, ReqFields
<1>3. SameRecords /\ freed \subseteq freed'
  <2>1. CASE UNCHANGED <<req, freed>>
    BY <2>1, UnchangedRecords
  <2>2. CASE FreeReqResources(u, req[u])
    <3>1. Becomes(u, req[u]) /\ freed' = freed \cup {u}
      BY <1>2, <2>2, FreeBecomes DEF ReplyBase, LifeBase, SlotInv, ControlTypeOK
    <3> QED BY <3>1, BecomesRecords
  <2> QED BY <1>1, <2>1, <2>2
<1>4. Gone \subseteq Gone'
  BY <1>1 DEF Gone, Finished
<1> QED BY <1>1, <1>3, <1>4, GiveUpMirror

LEMMA FlushMirror ==
  ASSUME ReplyBase, MirrorInv, FlushAction  PROVE MirrorInv'
<1> DEFINE act == Head(deferredActions)
           A == [uid : Uids, finished : BOOLEAN]
<1>1. /\ deferredActions # <<>>
      /\ \/ FreeReqResources(act.uid, req[act.uid])
         \/ CacheReq(act.uid, req[act.uid], FALSE) /\ UNCHANGED freed
      /\ UNCHANGED <<tokenRow, launched, flight, prev, aborted, reply>>
  BY DEF FlushAction, batchVars, clientVars
<1>2. act \in A
  <2>1. deferredActions \in Seq(A)
    BY DEF ReplyBase, LifeBase, SlotInv, ControlTypeOK
  <2> QED BY <1>1, <2>1, HeadTail
<1>3. act.uid \in Uids
  BY <1>2
<1> HIDE DEF act, A
<1>4. IsReq(req[act.uid])
  BY <1>3 DEF ReplyBase, LifeBase, SlotInv, ReqFields
<1>5. Becomes(act.uid, req[act.uid]) /\ freed \subseteq freed'
  BY <1>1, <1>3, <1>4, FreeBecomes, CacheReqBecomes
     DEF ReplyBase, LifeBase, SlotInv, ControlTypeOK
<1>6. SameRecords
  BY <1>3, <1>5, BecomesRecords
<1>7. Gone' = Gone
  BY <1>1 DEF Gone, Finished
<1> QED BY <1>1, <1>5, <1>6, <1>7, GiveUpMirror

LEMMA ReleaseMirror ==
  ASSUME ReplyBase, MirrorInv, ReleaseSuppressed  PROVE MirrorInv'
<1> DEFINE u == Current.uid
<1>1. /\ Process
      /\ FreeReqResourcesOrDefer(u, req[u]) \/ UNCHANGED <<req, freed>>
      /\ UNCHANGED <<tokenRow, launched, flight, aborted, reply>>
  BY DEF ReleaseSuppressed, batchVars, clientVars
<1>2. u \in Uids /\ Range(prev) = {Current} \cup Range(prev')
  BY <1>1, ProcessMoves DEF ReplyBase, LifeBase
<1>3. IsReq(req[u])
  BY <1>2 DEF ReplyBase, LifeBase, SlotInv, ReqFields
<1>4. SameRecords /\ freed \subseteq freed'
  <2>1. CASE FreeReqResourcesOrDefer(u, req[u])
    <3>1. Becomes(u, req[u]) /\ freed \subseteq freed'
      BY <1>2, <1>3, <2>1, FreeOrDeferBecomes DEF ReplyBase, LifeBase, SlotInv
    <3> QED BY <1>2, <3>1, BecomesRecords
  <2>2. CASE UNCHANGED <<req, freed>>
    BY <2>2, UnchangedRecords
  <2> QED BY <1>1, <2>1, <2>2
<1>5. Gone' = Gone /\ Final(prev') \subseteq Final(prev)
  BY <1>1, <1>2 DEF Gone, Finished, Final
<1> QED BY <1>1, <1>4, <1>5, GiveUpMirror

-----------------------------------------------------------------------------
(* A request gets its tokens.                                              *)

\* the first n elements of a list, n being any integer up to its length
LEMMA FirstOf ==
  ASSUME NEW T, NEW s \in Seq(T), NEW n \in Int, n <= Len(s)
  PROVE  /\ SubSeq(s, 1, n) \in Seq(T)
         /\ Len(SubSeq(s, 1, n)) = IF n >= 0 THEN n ELSE 0
         /\ Len(SubSeq(s, 1, n)) <= Len(s)
         /\ \A i \in 1 .. Len(SubSeq(s, 1, n)) : SubSeq(s, 1, n)[i] = s[i]
OBVIOUS

LEMMA AddMirror ==
  ASSUME ReplyBase, SlotInv', MirrorInv, pc = "admit", pending # <<>>, NEW r,
         NEW u, u = Head(pending), Add(u, r), r.slot # NoSlot, r.device \in Int,
         r.device <= Len(Prompt[u]), r.ids = SubSeq(Prompt[u], 1, r.device),
         ~r.chunked => r.device = Len(Prompt[u])
  PROVE  MirrorInv'
<1>1. /\ u \in Uids /\ u \in Waiting
      /\ UNCHANGED <<launched, flight, prev, freed, aborted, reply>>
      /\ req' = [req EXCEPT ![u] = r]
  BY AddMoves DEF ReplyBase, LifeBase
<1>2. tokenRow' = [tokenRow EXCEPT ![r.slot] = r.ids]
  BY DEF Add
<1>3. /\ r.ids \in Seq(Tokens) /\ Len(r.ids) <= Len(Prompt[u])
      /\ \A i \in 1 .. Len(r.ids) : r.ids[i] = Prompt[u][i]
      /\ ~r.chunked => Len(r.ids) = r.device
  BY <1>1, PromptTypes, FirstOf
<1>5. /\ \A v \in Uids \ {u} : req'[v] = req[v]
      /\ req'[u] = r
  BY <1>1 DEF ReplyBase, LifeBase, SlotInv, ControlTypeOK
<1>6. u \notin freed /\ Gone' = Gone /\ u \notin Gone
  BY <1>1 DEF ReplyBase, LifeBase, LifeInv, Farewell, Gone, Finished
<1>7. u \in Owned' /\ Holders' = Holders \cup {u}
  BY <1>1, <1>5, <1>6 DEF Owned, Holders, Holds
<1>8. r.slot \in Slots
  BY <1>1, <1>5 DEF SlotInv, ControlTypeOK
<1>9. ASSUME NEW v \in Owned', v # u
      PROVE  /\ v \in Owned /\ v \in Uids /\ req'[v] = req[v] /\ Row(v)' = Row(v)
             /\ Text(v)' = Text(v)
  <2>1. v \in Uids /\ req'[v] = req[v]
    BY <1>5, <1>9 DEF Owned
  <2>2. v \in Owned
    BY <1>1, <1>9, <2>1 DEF Owned, Holds
  <2>3. req[v].slot # r.slot
    BY <1>5, <1>7, <1>9, <2>1 DEF SlotInv, SlotsExclusive
  <2>4. req[v].slot \in Slots
    BY <2>1, <2>2 DEF ReplyBase, LifeBase, SlotInv, ControlTypeOK, Owned, Holds
  <2>5. Row(v)' = Row(v)
    BY <1>2, <2>1, <2>3, <2>4 DEF Row, MirrorInv, RowTypes
  <2> QED BY <1>1, <2>1, <2>2, <2>5 DEF Text
<1>10. Row(u)' = r.ids
  <2>1. tokenRow'[r.slot] = r.ids
    BY <1>2, <1>8 DEF MirrorInv, RowTypes
  <2> QED BY <1>5, <2>1 DEF Row
<1>11. RowTypes'
  <2>1. tokenRow' \in [Slots -> Seq(Tokens)]
    BY <1>2, <1>3, <1>8 DEF MirrorInv, RowTypes
  <2> QED BY <1>3, <1>5, <1>7, <2>1 DEF MirrorInv, RowTypes, Holders
<1>12. Mirrors'
  <2> SUFFICES ASSUME NEW v \in Owned'
               PROVE  /\ Begins(req'[v].ids, Row(v)')
                      /\ Begins(req'[v].ids, Text(v)')
                      /\ ~req'[v].chunked => Len(req'[v].ids) = Len(Text(v)')
    BY DEF Mirrors
  <2>1. CASE v = u
    <3>1. Row(v)' = r.ids
      BY <1>10, <2>1
    <3>2. Text(v)' = Text(u)
      BY <1>1, <2>1 DEF Text
    <3>3. Sent(u) = 0
      BY <1>1 DEF ReplyBase, CountInv, Fresh, Sent
    <3>4. /\ Len(Text(u)) = Len(Prompt[u])
          /\ \A i \in 1 .. Len(Prompt[u]) : Text(u)[i] = Prompt[u][i]
      BY <1>1, <3>3, TextTypes
    <3>5. Len(r.ids) \in Nat /\ Len(Prompt[u]) \in Nat
      BY <1>1, <1>3, PromptTypes
    <3>6. Begins(r.ids, r.ids)
      BY <3>5 DEF Begins
    <3>7. Begins(r.ids, Text(u))
      <4>1. \A i \in 1 .. Len(r.ids) : i \in 1 .. Len(Prompt[u])
        BY <1>3, <3>5
      <4> QED BY <1>3, <3>4, <4>1 DEF Begins
    <3> QED BY <1>3, <1>5, <2>1, <3>1, <3>2, <3>4, <3>6, <3>7
  <2>2. CASE v # u
    BY <1>9, <2>2 DEF MirrorInv, Mirrors
  <2> QED BY <2>1, <2>2
<1>13. Ahead'
  <2>1. flight = <<>> /\ launched = <<>>
    BY DEF ReplyBase, LifeBase, LifeInv, Phases
  <2>2. u \notin Answering(prev)
    BY <1>1, WaitingApart DEF ReplyBase, LifeBase
  <2>3. \A e \in Final(prev) : e.uid # u
    BY <2>2, FinalIn
  <2> SUFFICES ASSUME NEW v \in Holders', v \notin Gone'
               PROVE  /\ ~req'[v].chunked => Len(Row(v)') = req'[v].device
                      /\ \A e \in Final(prev) :
                           e.uid = v => Row(v)'[Len(Prompt[v]) + Sent(v)' + 1] = e.token
    BY <1>1, <2>1, EntriesEmpty DEF Ahead
  <2>4. CASE v = u
    <3>1. Row(v)' = r.ids
      BY <1>10, <2>4
    <3> QED BY <1>3, <1>5, <1>1, <2>3, <2>4, <3>1
  <2>5. CASE v # u
    <3>1. v \in Holders \ Gone
      BY <1>6, <1>7, <2>5
    <3>2. v \in Owned'
      BY <1>1, <1>6, <1>7, <2>5, <3>1 DEF ReplyBase, LifeBase, LifeInv, Farewell,
         Owned, Holders
    <3>3. req'[v] = req[v] /\ Row(v)' = Row(v)
      BY <1>9, <2>5, <3>2
    <3>4. Sent(v)' = Sent(v)
      BY <1>1 DEF Sent
    <3> QED BY <3>1, <3>3, <3>4 DEF MirrorInv, Ahead
  <2> QED BY <2>4, <2>5
<1> QED BY <1>11, <1>12, <1>13 DEF MirrorInv

LEMMA AdmitMirror ==
  ASSUME ReplyBase, MirrorInv, AdmitChunk \/ AdmitNew, NEW u, u = Head(pending)
  PROVE  MirrorInv'
<1>1. pc = "admit" /\ pending # <<>>
  BY AdmitMakes DEF ReplyBase
<1>2. PICK r : Admits(u, r)
  BY AdmitMakes DEF ReplyBase
<1>3. SlotInv'
  <2>1. [Next]_vars
    BY DEF Next, Step
  <2> QED BY <2>1, SlotInvStep DEF ReplyBase, LifeBase
<1> QED BY <1>1, <1>2, <1>3, AddMirror DEF Admits

LEMMA LaunchMirror ==
  ASSUME ReplyBase, MirrorInv, LaunchOne, NEW u, u = Head(batch)  PROVE MirrorInv'
<1> DEFINE old == req[u]
           r == CompleteOne(old)
           row == tokenRow[old.slot]
<1>1. /\ u \in Holders /\ u \in Uids
      /\ Range(batch) = {u} \cup Range(batch')
      /\ req' = [req EXCEPT ![u] = r] /\ pc = "launch"
      /\ UNCHANGED <<flight, prev, freed, aborted, reply>>
      /\ \E e \in Entry :
           /\ e.uid = u /\ e.chunked = old.chunked
           /\ (~CanDecode(old) => UNCHANGED tokenRow)
           /\ (CanDecode(old) => tokenRow' = [tokenRow EXCEPT ![old.slot] =
                                     Append(SubSeq(@, 1, old.device), e.token)])
           /\ launched' = Append(launched, e)
  BY LaunchMoves DEF ReplyBase, LifeBase
<1>2. IsReq(old) /\ old.slot \in Slots
  BY <1>1 DEF ReplyBase, LifeBase, SlotInv, ReqFields, ControlTypeOK, Holders, Holds
<1>3. /\ r.slot = old.slot /\ r.chunked = old.chunked /\ r.ids = old.ids
      /\ r.device = IF old.device < old.max THEN old.device + 1 ELSE old.device
  BY <1>2, CompleteOneKeeps
<1>4. PICK e \in Entry :
           /\ e.uid = u /\ e.chunked = old.chunked
           /\ (~CanDecode(old) => UNCHANGED tokenRow)
           /\ (CanDecode(old) => tokenRow' = [tokenRow EXCEPT ![old.slot] =
                                     Append(SubSeq(@, 1, old.device), e.token)])
           /\ launched' = Append(launched, e)
  BY <1>1
<1>5. u \notin Gone /\ u \in Owned
  <2>1. u \notin Gone
    BY <1>1 DEF ReplyBase, LifeBase, LifeInv, Farewell
  <2> QED BY <1>1, <2>1, OwnedHolds
<1>6. /\ old.device \in Int /\ old.max \in Int
      /\ ~old.chunked => old.device < old.max /\ CanDecode(old)
  <2>1. old.device \in Int /\ old.max \in Int
    BY <1>1 DEF ReplyBase, CountInv, Numbers
  <2>2. old.chunked \/ RemainLen(old) > 0
    <3>1. u \in Range(batch)
      BY <1>1
    <3> QED BY <1>1, <3>1 DEF ReplyBase, CountInv, Room
  <2> QED BY <2>1, <2>2 DEF RemainLen, CanDecode
<1>7. row \in Seq(Tokens) /\ e.token \in Tokens
      /\ (~old.chunked => Len(row) = old.device)
  BY <1>1, <1>2, <1>5 DEF MirrorInv, RowTypes, Ahead, Row, Entry
<1>8. /\ \A v \in Uids \ {u} : req'[v] = req[v]
      /\ req'[u] = r
  BY <1>1 DEF ReplyBase, LifeBase, SlotInv, ControlTypeOK
<1> HIDE DEF r
<1>9. CanDecode(old) <=> ~old.chunked
  BY <1>6 DEF CanDecode
<1> HIDE DEF old
<1>10. tokenRow' = IF old.chunked THEN tokenRow
                   ELSE [tokenRow EXCEPT ![old.slot] = Append(row, e.token)]
  <2>1. CASE old.chunked
    BY <1>4, <1>9, <2>1
  <2>2. CASE ~old.chunked
    <3>1. SubSeq(row, 1, old.device) = row
      BY <1>7, <2>2
    <3>2. tokenRow' = [tokenRow EXCEPT ![old.slot] =
                         Append(SubSeq(tokenRow[old.slot], 1, old.device), e.token)]
      BY <1>4, <1>9, <2>2
    <3> QED BY <2>2, <3>1, <3>2
  <2> QED BY <2>1, <2>2
<1>11. Row(u)' = IF old.chunked THEN Row(u) ELSE Append(Row(u), e.token)
  BY <1>2, <1>3, <1>8, <1>10 DEF Row, MirrorInv, RowTypes, old
<1>12. Row(u) = row
  BY DEF Row, old
<1> HIDE DEF row
<1>13. /\ Row(u) \in Seq(Tokens)
       /\ Len(Row(u)) <= Len(Row(u)')
       /\ \A i \in 1 .. Len(Row(u)) : Row(u)'[i] = Row(u)[i]
       /\ ~old.chunked => /\ Len(Row(u)') = r.device
                          /\ Row(u)'[r.device] = e.token
  <2>1. CASE old.chunked
    BY <1>7, <1>11, <1>12, <2>1
  <2>2. CASE ~old.chunked
    <3> DEFINE t == Append(row, e.token)
    <3>1. /\ Len(t) = Len(row) + 1 /\ t[Len(row) + 1] = e.token
          /\ \A i \in 1 .. Len(row) : t[i] = row[i]
          /\ Len(row) \in Nat
      BY <1>7
    <3>2. r.device = Len(row) + 1
      BY <1>3, <1>6, <1>7, <2>2
    <3>3. Row(u)' = t
      BY <1>11, <1>12, <2>2
    <3> HIDE DEF t
    <3> QED BY <1>7, <1>12, <3>1, <3>2, <3>3
  <2> QED BY <2>1, <2>2
<1>14. Holders' = Holders /\ Owned' = Owned /\ Gone' = Gone
  BY <1>1, <1>3, <1>8 DEF Holders, Holds, Owned, Gone, Finished, old
<1>15. ASSUME NEW v \in Owned, v # u
       PROVE  v \in Uids /\ req'[v] = req[v] /\ Row(v)' = Row(v)
  <2>1. v \in Uids /\ req'[v] = req[v]
    BY <1>8, <1>15 DEF Owned
  <2>2. req[v].slot # old.slot
    BY <1>5, <1>15 DEF ReplyBase, LifeBase, SlotInv, SlotsExclusive, old
  <2>3. req[v].slot \in Slots
    BY <1>15, <2>1 DEF ReplyBase, LifeBase, SlotInv, ControlTypeOK, Owned, Holds
  <2> QED BY <1>2, <1>10, <2>1, <2>2, <2>3 DEF Row, MirrorInv, RowTypes
<1>16. \A v \in Uids : Text(v)' = Text(v) /\ Sent(v)' = Sent(v)
  BY <1>1 DEF Text, Sent
<1>17. RowTypes'
  <2>1. tokenRow' \in [Slots -> Seq(Tokens)]
    BY <1>2, <1>7, <1>10 DEF MirrorInv, RowTypes
  <2> QED BY <1>3, <1>8, <1>14, <2>1 DEF MirrorInv, RowTypes, Holders, old
<1>18. Mirrors'
  <2> SUFFICES ASSUME NEW v \in Owned
               PROVE  /\ Begins(req'[v].ids, Row(v)')
                      /\ Begins(req'[v].ids, Text(v)')
                      /\ ~req'[v].chunked => Len(req'[v].ids) = Len(Text(v)')
    BY <1>14 DEF Mirrors
  <2>1. v \in Uids
    BY DEF Owned
  <2>2. req'[v].ids = req[v].ids /\ req'[v].chunked = req[v].chunked
    BY <1>3, <1>8, <2>1 DEF old
  <2>3. /\ Begins(req[v].ids, Row(v)) /\ Begins(req[v].ids, Text(v))
        /\ ~req[v].chunked => Len(req[v].ids) = Len(Text(v))
    BY DEF MirrorInv, Mirrors
  <2>4. Begins(req[v].ids, Row(v)')
    <3>1. CASE v = u
      <4>1. /\ Len(Row(u)) \in Nat /\ Len(Row(u)') \in Nat
            /\ Len(req[u].ids) \in Nat
        <5>1. Row(u)' \in Seq(Tokens)
          BY <1>7, <1>11, <1>12
        <5>2. req[u].ids \in Seq(Tokens)
          BY <1>1 DEF MirrorInv, RowTypes
        <5> QED BY <1>13, <5>1, <5>2
      <4>2. \A i \in 1 .. Len(req[u].ids) : i \in 1 .. Len(Row(u))
        BY <2>3, <3>1, <4>1 DEF Begins
      <4>3. Len(req[u].ids) <= Len(Row(u)')
        BY <1>13, <2>3, <3>1, <4>1 DEF Begins
      <4> QED BY <1>13, <2>3, <3>1, <4>2, <4>3 DEF Begins
    <3>2. CASE v # u
      BY <1>15, <2>3, <3>2
    <3> QED BY <3>1, <3>2
  <2> QED BY <1>16, <2>1, <2>2, <2>3, <2>4
<1>19. Ahead'
  <2>1. flight = <<>> /\ u \notin Answering(launched)
    BY <1>1, AnsweringIn DEF ReplyBase, LifeBase, LifeInv, Phases, Once
  <2>2. Final(launched') = Final(launched) \cup {f \in {e} : ~f.chunked}
    BY <1>4, EntriesAppend DEF ReplyBase, LifeBase, SlotInv, ControlTypeOK
  <2> SUFFICES ASSUME NEW v \in Holders \ Gone
               PROVE  /\ ~req'[v].chunked => Len(Row(v)') = req'[v].device
                      /\ \A f \in Final(launched') :
                           f.uid = v => Row(v)'[req'[v].device] = f.token
                      /\ \A f \in Final(prev) :
                           f.uid = v => Row(v)'[Len(Prompt[v]) + Sent(v)' + 1] = f.token
    BY <1>1, <1>14, <2>1, EntriesEmpty DEF Ahead
  <2>3. CASE v = u
    <3>1. ~req'[v].chunked => Len(Row(v)') = req'[v].device
      BY <1>3, <1>8, <1>13, <2>3
    <3>2. ASSUME NEW f \in Final(launched'), f.uid = v
          PROVE  Row(v)'[req'[v].device] = f.token
      <4>1. f = e /\ ~e.chunked
        BY <2>1, <2>2, <2>3, <3>2, FinalIn
      <4> QED BY <1>4, <1>8, <1>13, <2>3, <4>1
    <3>3. ASSUME NEW f \in Final(prev), f.uid = v
          PROVE  Row(v)'[Len(Prompt[v]) + Sent(v)' + 1] = f.token
      <4>1. u \in Answering(prev)
        BY <2>3, <3>3, FinalIn
      <4>2. ~old.chunked
        BY <4>1 DEF ReplyBase, LifeBase, LifeInv, Apart, old
      <4>3. old.device = Len(Prompt[u]) + Sent(u) + OnTheWay(u)
        BY <1>1, <1>5, <4>2 DEF ReplyBase, CountInv, Counted, old
      <4>4. OnTheWay(u) \in Int /\ OnTheWay(u) >= 1
        <5>1. In(u, prev) = 1 /\ In(u, flight) \in 0 .. 1 /\ In(u, launched) \in 0 .. 1
          BY <4>1 DEF In
        <5> QED BY <5>1 DEF OnTheWay
      <4>5. Len(Prompt[u]) \in Nat /\ Sent(u) \in Nat
        BY <1>1, TextTypes
      <4>6. Len(Prompt[u]) + Sent(u) + 1 \in 1 .. Len(Row(u))
        BY <1>7, <1>12, <4>2, <4>3, <4>4, <4>5
      <4>7. Row(u)[Len(Prompt[u]) + Sent(u) + 1] = f.token
        BY <1>1, <1>5, <2>3, <3>3 DEF MirrorInv, Ahead
      <4> QED BY <1>1, <1>13, <1>16, <2>3, <4>6, <4>7
    <3> QED BY <3>1, <3>2, <3>3
  <2>4. CASE v # u
    <3>1. v \in Owned
      BY OwnedHolds
    <3>2. v \in Uids /\ req'[v] = req[v] /\ Row(v)' = Row(v) /\ Sent(v)' = Sent(v)
      BY <1>15, <1>16, <2>4, <3>1
    <3>3. \A f \in Final(launched') : f.uid = v => f \in Final(launched)
      BY <1>4, <2>2, <2>4
    <3> QED BY <3>2, <3>3 DEF MirrorInv, Ahead
  <2> QED BY <2>3, <2>4
<1> QED BY <1>17, <1>18, <1>19 DEF MirrorInv

LEMMA ResultFrees ==
  ASSUME LifeBase, DeliverLast \/ DeliverNext  PROVE freed \subseteq freed'
<1>1. Current.uid \in Uids
  BY DeliverMoves DEF LifeBase, DeliverLast, DeliverNext
<1>2. IsReq(Appended)
  BY <1>1, AppendedIsReq DEF LifeBase, SlotInv, ReqFields
<1>3. \/ UNCHANGED freed
      \/ FreeReqResourcesOrDefer(Current.uid, Appended)
      \/ CacheReqOrDefer(Current.uid, Appended)
  BY DEF DeliverLast, DeliverNext
<1> QED BY <1>1, <1>2, <1>3, FreeOrDeferBecomes, CacheOrDeferBecomes
        DEF LifeBase, SlotInv

\* the token about to be delivered is in the row, right after what the host has
LEMMA NextToken ==
  ASSUME ReplyBase, MirrorInv, NEW finished \in BOOLEAN, Deliver(finished),
         NEW u, u = Current.uid
  PROVE  /\ u \in Uids /\ u \in Holders \ Gone /\ ~req[u].chunked
         /\ Len(Prompt[u]) + Sent(u) + 1 <= req[u].device
         /\ req[u].device = Len(Row(u))
         /\ Row(u)[Len(Prompt[u]) + Sent(u) + 1] = Current.token
<1>1. /\ Process /\ ~Current.chunked /\ u \in Uids /\ u \notin Gone
  BY DeliverMoves DEF ReplyBase, LifeBase
<1>2. /\ u \in Answering(prev) /\ u \in Holders /\ Current \in Range(prev)
  BY <1>1, ProcessMoves DEF ReplyBase, LifeBase
<1>3. Current \in Final(prev)
  BY <1>1, <1>2 DEF Final
<1>4. ~req[u].chunked
  BY <1>2 DEF ReplyBase, LifeBase, LifeInv, Apart
<1>5. req[u].device = Len(Prompt[u]) + Sent(u) + OnTheWay(u)
  BY <1>1, <1>2, <1>4 DEF ReplyBase, CountInv, Counted
<1>6. OnTheWay(u) \in Int /\ OnTheWay(u) >= 1
  <2>1. In(u, prev) = 1 /\ In(u, flight) \in 0 .. 1 /\ In(u, launched) \in 0 .. 1
    BY <1>2 DEF In
  <2> QED BY <2>1 DEF OnTheWay
<1>7. Len(Prompt[u]) \in Nat /\ Sent(u) \in Nat
  BY <1>1, TextTypes
<1>8. Len(Row(u)) = req[u].device /\ Row(u)[Len(Prompt[u]) + Sent(u) + 1] = Current.token
  BY <1>1, <1>2, <1>3, <1>4 DEF MirrorInv, Ahead
<1> QED BY <1>1, <1>2, <1>4, <1>5, <1>6, <1>7, <1>8

LEMMA ResultMirror ==
  ASSUME ReplyBase, MirrorInv, DeliverLast \/ DeliverNext, NEW u, u = Current.uid
  PROVE  MirrorInv'
<1> DEFINE r == Appended
           token == Current.token
<1>1. Becomes(u, r) /\ freed \subseteq freed'
  BY DeliverBecomes, ResultFrees DEF ReplyBase
<1>2. PICK finished \in BOOLEAN : Deliver(finished)
  BY DeliverBecomes DEF ReplyBase
<1>3. /\ Process /\ ~Current.chunked /\ u \in Uids /\ u \notin Gone
      /\ reply'[u].tokens = Append(reply[u].tokens, token)
      /\ \A v \in Uids \ {u} : reply'[v] = reply[v]
      /\ Gone' = IF finished THEN Gone \cup {u} ELSE Gone
      /\ UNCHANGED <<launched, flight>>
  BY <1>2, DeliverMoves DEF ReplyBase, LifeBase
<1>4. UNCHANGED tokenRow
  BY <1>2 DEF Deliver
<1>5. /\ u \in Holders \ Gone /\ ~req[u].chunked
      /\ Len(Prompt[u]) + Sent(u) + 1 <= req[u].device
      /\ req[u].device = Len(Row(u))
      /\ Row(u)[Len(Prompt[u]) + Sent(u) + 1] = token
  BY <1>2, NextToken
<1>6. /\ r.slot = req[u].slot /\ r.device = req[u].device
      /\ r.chunked = req[u].chunked /\ r.ids = Append(req[u].ids, token)
  BY <1>3, AppendedBecomes DEF ReplyBase, LifeBase
<1>7. /\ Range(prev) = {Current} \cup Range(prev') /\ u \notin UidsIn(prev')
      /\ token \in Tokens
  BY <1>3, ProcessMoves DEF ReplyBase, LifeBase, Entry
<1> HIDE DEF r, token
<1>8. /\ \A v \in Uids \ {u} : req'[v] = req[v]
      /\ req'[u].slot = req[u].slot /\ req'[u].device = req[u].device
      /\ req'[u].chunked = req[u].chunked /\ req'[u].ids = Append(req[u].ids, token)
  BY <1>1, <1>6 DEF Becomes
<1>9. /\ \A v \in Uids : Holds(v)' <=> Holds(v)
      /\ Holders' = Holders /\ Owned' \subseteq Owned
  <2>1. \A v \in Uids : Holds(v)' <=> Holds(v)
    BY <1>8 DEF Holds
  <2> QED BY <1>1, <2>1 DEF Holders, Owned
<1>10. \A v \in Uids : Row(v)' = Row(v)
  BY <1>4, <1>8 DEF Row
<1>11. \A v \in Uids \ {u} : Text(v)' = Text(v) /\ Sent(v)' = Sent(v)
  BY <1>3 DEF Text, Sent
<1>12. /\ Text(u)' \in Seq(Tokens) /\ Len(Text(u)') = Len(Text(u)) + 1
       /\ Text(u)'[Len(Text(u)) + 1] = token
       /\ \A i \in 1 .. Len(Text(u)) : Text(u)'[i] = Text(u)[i]
       /\ Len(Text(u)) \in Nat /\ Len(Text(u)) = Len(Prompt[u]) + Sent(u)
  <2>1. Prompt[u] \in Seq(Tokens) /\ reply[u].tokens \in Seq(Tokens)
    BY <1>3, PromptTypes DEF ReplyBase, LifeBase, Replies
  <2>2. Prompt[u] \o Append(reply[u].tokens, token) = Append(Prompt[u] \o reply[u].tokens, token)
    <3>1. token \in Tokens
      BY <1>7
    <3>2. ASSUME NEW s \in Seq(Tokens), NEW t \in Seq(Tokens), NEW e \in Tokens
          PROVE  s \o Append(t, e) = Append(s \o t, e)
      BY ConcatAppend
    <3> QED BY <2>1, <3>1, <3>2, Zenon
  <2>3. Text(u)' = Append(Text(u), token)
    BY <1>3, <2>2, Zenon DEF Text
  <2>4. Text(u) \in Seq(Tokens) /\ Len(Text(u)) = Len(Prompt[u]) + Sent(u)
    BY <1>3, TextTypes
  <2> QED BY <1>7, <2>3, <2>4
<1>13. RowTypes'
  <2>1. req[u].ids \in Seq(Tokens)
    BY <1>5 DEF MirrorInv, RowTypes
  <2>2. req'[u].ids \in Seq(Tokens)
    BY <1>7, <1>8, <2>1
  <2> QED BY <1>4, <1>8, <1>9, <2>2 DEF MirrorInv, RowTypes, Holders
<1>14. Mirrors'
  <2> SUFFICES ASSUME NEW v \in Owned'
               PROVE  /\ Begins(req'[v].ids, Row(v)')
                      /\ Begins(req'[v].ids, Text(v)')
                      /\ ~req'[v].chunked => Len(req'[v].ids) = Len(Text(v)')
    BY DEF Mirrors
  <2>1. v \in Owned /\ v \in Uids
    BY <1>9 DEF Owned
  <2>2. /\ Begins(req[v].ids, Row(v)) /\ Begins(req[v].ids, Text(v))
        /\ ~req[v].chunked => Len(req[v].ids) = Len(Text(v))
    BY <2>1 DEF MirrorInv, Mirrors
  <2>3. CASE v # u
    BY <1>8, <1>10, <1>11, <2>1, <2>2, <2>3
  <2>4. CASE v = u
    <3> DEFINE n == Len(Text(u))
               ids == req[u].ids
               more == Append(ids, token)
    <3>1. ids \in Seq(Tokens) /\ Len(ids) = n /\ n \in Nat
      BY <1>5, <1>12, <2>2, <2>4 DEF MirrorInv, RowTypes
    <3>2. /\ Len(more) = n + 1 /\ more[n + 1] = token
          /\ \A i \in 1 .. n : more[i] = ids[i]
      BY <1>7, <3>1
    <3>3. /\ Len(Row(u)) >= n + 1 /\ Row(u)[n + 1] = token
          /\ Len(Text(u)') = n + 1 /\ Text(u)'[n + 1] = token
          /\ \A i \in 1 .. n : Row(u)[i] = ids[i] /\ Text(u)'[i] = ids[i]
      <4>1. Len(Row(u)) >= n + 1 /\ Row(u)[n + 1] = token
        BY <1>5, <1>12
      <4>2. \A i \in 1 .. n : Row(u)[i] = ids[i] /\ Text(u)'[i] = ids[i]
        BY <1>12, <2>2, <2>4, <3>1 DEF Begins
      <4> QED BY <1>12, <4>1, <4>2
    <3>4. req'[v].ids = more /\ Row(v)' = Row(u) /\ Text(v)' = Text(u)'
      BY <1>3, <1>8, <1>10, <2>4
    <3> HIDE DEF n, ids, more
    <3>5. \A i \in 1 .. n + 1 : i \in 1 .. n \/ i = n + 1
      BY <3>1
    <3>6. Len(Row(u)) \in Nat
      <4>1. u \in Uids /\ req[u].slot \in Slots
        BY <1>5 DEF Holders, Holds, ReplyBase, LifeBase, SlotInv, ControlTypeOK
      <4>2. Row(u) \in Seq(Tokens)
        BY <4>1 DEF MirrorInv, RowTypes, Row
      <4> QED BY <4>2
    <3>7. Begins(more, Row(u))
      BY <3>1, <3>2, <3>3, <3>5, <3>6 DEF Begins
    <3>8. Begins(more, Text(u)')
      BY <3>1, <3>2, <3>3, <3>5 DEF Begins
    <3> QED BY <3>2, <3>3, <3>4, <3>7, <3>8
  <2> QED BY <2>3, <2>4
<1>15. Ahead'
  <2> SUFFICES ASSUME NEW v \in Holders', v \notin Gone'
               PROVE  /\ ~req'[v].chunked => Len(Row(v)') = req'[v].device
                      /\ \A e \in Final(flight) \cup Final(launched) :
                           e.uid = v => Row(v)'[req'[v].device] = e.token
                      /\ \A e \in Final(prev') :
                           e.uid = v => Row(v)'[Len(Prompt[v]) + Sent(v)' + 1] = e.token
    BY <1>3 DEF Ahead
  <2>1. v \in Holders \ Gone /\ v \in Uids
    BY <1>3, <1>9 DEF Holders
  <2>2. req'[v].device = req[v].device /\ req'[v].chunked = req[v].chunked
    BY <1>8, <2>1
  <2>3. ASSUME NEW e \in Final(prev'), e.uid = v
        PROVE  Row(v)'[Len(Prompt[v]) + Sent(v)' + 1] = e.token
    <3>1. v # u
      BY <1>7, <2>3, FinalIn, AnsweringIn
    <3>2. e \in Final(prev) /\ Sent(v)' = Sent(v)
      BY <1>7, <1>11, <2>1, <2>3, <3>1 DEF Final
    <3> QED BY <1>10, <2>1, <2>3, <3>2 DEF MirrorInv, Ahead
  <2> QED BY <1>10, <2>1, <2>2, <2>3 DEF MirrorInv, Ahead
<1> QED BY <1>13, <1>14, <1>15 DEF MirrorInv

LEMMA MirrorStep == ReplyBase /\ MirrorInv /\ [Next]_vars => MirrorInv'
<1> SUFFICES ASSUME ReplyBase, MirrorInv, [Next]_vars  PROVE MirrorInv'
  OBVIOUS
<1>1. ASSUME NEW u \in Uids, Submit(u) \/ Abort(u)  PROVE MirrorInv'
  BY <1>1, SubmitMirror, AbortMirror
<1>2. CASE Step
  BY <1>2, PassMirror, BeginStepMirror, EndLaunchMirror, AdmitMirror, LaunchMirror,
     ReleaseMirror, ResultMirror, FlushMirror DEF Step
<1>3. CASE UNCHANGED vars
  BY <1>3, PassMirror
<1> QED BY <1>1, <1>2, <1>3 DEF Next, Wait

(* Host and device agree on every request: the host's copy is the prompt   *)
(* and what the client was sent, a prefix of the row the GPU continues,    *)
(* which is already ahead of it, and append_host_token's TORCH_CHECK has   *)
(* room for every token that arrives.                                      *)
THEOREM HostAgreesWithDevice == Spec => []HostMirrorsDevice
<1>1. ReplyBase /\ MirrorInv => HostMirrorsDevice
  <2> SUFFICES ASSUME ReplyBase, MirrorInv  PROVE HostMirrorsDevice
    OBVIOUS
  <2>1. ASSUME NEW u \in Owned
        PROVE  /\ IsPrefix(req[u].ids, tokenRow[req[u].slot])
               /\ req[u].ids = SubSeq(Prompt[u] \o reply[u].tokens, 1, Len(req[u].ids))
               /\ ~req[u].chunked => Len(req[u].ids) = Len(Prompt[u] \o reply[u].tokens)
    <3> DEFINE ids == req[u].ids
    <3>1. u \in Uids /\ u \in Holders /\ req[u].slot \in Slots
      BY DEF Owned, Holders, Holds, ReplyBase, LifeBase, SlotInv, ControlTypeOK
    <3>2. ids \in Seq(Tokens) /\ Row(u) \in Seq(Tokens) /\ Text(u) \in Seq(Tokens)
      BY <3>1, TextTypes DEF MirrorInv, RowTypes, Row
    <3>3. Begins(ids, Row(u)) /\ Begins(ids, Text(u))
          /\ (~req[u].chunked => Len(ids) = Len(Text(u)))
      BY DEF MirrorInv, Mirrors
    <3> HIDE DEF ids
    <3>4. ids = SubSeq(Row(u), 1, Len(ids)) /\ ids = SubSeq(ids, 1, Len(ids))
      BY <3>2, <3>3 DEF Begins
    <3>5. ids = SubSeq(Text(u), 1, Len(ids))
      BY <3>2, <3>3 DEF Begins
    <3>6. IsPrefix(ids, Row(u))
      BY <3>3, <3>4 DEF IsPrefix, Begins
    <3> QED BY <3>3, <3>5, <3>6 DEF ids, Row, Text
  <2>2. ASSUME NEW i \in DOMAIN prev, ~prev[i].chunked, prev[i].uid \notin suppressed
        PROVE  Len(req[prev[i].uid].ids) < req[prev[i].uid].device
    <3> DEFINE e == prev[i]
               u == e.uid
    <3>1. e \in Final(prev) /\ u \in Answering(prev)
      BY <2>2 DEF Final, Answering, Range
    <3>2. u \in Holders /\ u \notin Gone /\ ~req[u].chunked
      BY <2>2, <3>1, ListsHold DEF ReplyBase, LifeBase, LifeInv, Apart, Farewell
    <3>3. u \in Owned /\ u \in Uids
      BY <3>2, OwnedHolds DEF Holders
    <3> HIDE DEF u, e
    <3>4. Len(req[u].ids) = Len(Text(u))
      BY <3>2, <3>3 DEF MirrorInv, Mirrors
    <3>5. req[u].device = Len(Prompt[u]) + Sent(u) + OnTheWay(u)
      BY <3>2 DEF ReplyBase, CountInv, Counted
    <3>6. OnTheWay(u) \in Int /\ OnTheWay(u) >= 1
      <4>1. In(u, prev) = 1 /\ In(u, flight) \in 0 .. 1 /\ In(u, launched) \in 0 .. 1
        BY <3>1 DEF In
      <4> QED BY <4>1 DEF OnTheWay
    <3>7. Len(Text(u)) = Len(Prompt[u]) + Sent(u) /\ Len(Text(u)) \in Nat
      BY <3>3, TextTypes
    <3>8. Len(req[u].ids) < req[u].device
      BY <3>4, <3>5, <3>6, <3>7
    <3> QED BY <3>8 DEF u, e
  <2> QED BY <2>1, <2>2 DEF HostMirrorsDevice
<1>2. Init => ReplyBase /\ MirrorInv
  BY ReplyBaseInit, MirrorInit
<1>3. ReplyBase /\ MirrorInv /\ [Next]_vars => (ReplyBase /\ MirrorInv)'
  BY ReplyBaseStep, MirrorStep
<1> QED BY <1>1, <1>2, <1>3, PTL DEF Spec
=============================================================================
