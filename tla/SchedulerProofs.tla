-------------------------- MODULE SchedulerProofs --------------------------
(***************************************************************************)
(* The slots of Scheduler and the life of its requests. First the slots:   *)
(* whatever is still to be done is for a request that holds a slot, no     *)
(* slot serves two requests (SlotInv). Then the life of a request from its *)
(* submission to its end: in which list it waits, who may still answer it, *)
(* when it is freed (LifeInv).                                             *)
(***************************************************************************)
EXTENDS Scheduler, SequenceTheorems, TLAPS

-----------------------------------------------------------------------------
(* Lists.                                                                  *)

LEMMA EraseProperties ==
  ASSUME NEW S, NEW s \in Seq(S), NEW u
  PROVE  /\ Erase(s, u) \in Seq(S)
         /\ \A i \in 1 .. Len(Erase(s, u)) :
              \E j \in 1 .. Len(s) : Erase(s, u)[i] = s[j]
<1>1. CASE ~Contains(s, u)
  BY <1>1 DEF Erase
<1>2. CASE Contains(s, u)
  <2> DEFINE k == CHOOSE i \in DOMAIN s : s[i] = u
  <2>1. k \in 1 .. Len(s)
    BY <1>2 DEF Contains
  <2> HIDE DEF k
  <2> DEFINE A == SubSeq(s, 1, k - 1)
             B == SubSeq(s, k + 1, Len(s))
  <2>2. /\ A \in Seq(S) /\ Len(A) = k - 1 /\ \A i \in 1 .. k - 1 : A[i] = s[i]
        /\ B \in Seq(S) /\ Len(B) = Len(s) - k
        /\ \A i \in 1 .. Len(s) - k : B[i] = s[k + i]
    BY <2>1
  <2>3. Erase(s, u) = A \o B
    BY <1>2 DEF Erase, RemoveAt, k
  <2> HIDE DEF A, B
  <2>4. ASSUME NEW i \in 1 .. Len(A \o B)
        PROVE  \E j \in 1 .. Len(s) : (A \o B)[i] = s[j]
    <3>1. CASE i < k
      BY <3>1, <2>1, <2>2
    <3>2. CASE i >= k
      <4>1. i + 1 \in 1 .. Len(s) /\ (A \o B)[i] = s[i + 1]
        BY <3>2, <2>1, <2>2
      <4> QED BY <4>1
    <3> QED BY <3>1, <3>2, <2>1, <2>2
  <2> QED BY <2>2, <2>3, <2>4
<1> QED BY <1>1, <1>2

LEMMA RangeAppend ==
  ASSUME NEW S, NEW s \in Seq(S), NEW e \in S
  PROVE  Range(Append(s, e)) = Range(s) \cup {e}
<1> DEFINE t == Append(s, e)
<1>1. /\ DOMAIN s = 1 .. Len(s) /\ DOMAIN t = 1 .. Len(s) + 1
      /\ \A i \in 1 .. Len(s) : t[i] = s[i]
      /\ t[Len(s) + 1] = e
  OBVIOUS
<1> HIDE DEF t
<1>2. ASSUME NEW x \in Range(t) PROVE x \in Range(s) \cup {e}
  BY <1>1, <1>2 DEF Range
<1>3. ASSUME NEW x \in Range(s) PROVE x \in Range(t)
  BY <1>1, <1>3 DEF Range
<1>4. e \in Range(t)
  BY <1>1 DEF Range
<1> QED BY <1>2, <1>3, <1>4 DEF t

-----------------------------------------------------------------------------
(* The table slots.                                                        *)

IsReq(r) == DOMAIN r = DOMAIN NoReq /\ r.chunked \in BOOLEAN
ReqFields == \A u \in Uids : IsReq(req[u])

Holders == {u \in Uids : Holds(u)}

\* whatever the scheduler still has to do is about requests with a slot
AllHold ==
  /\ \A i \in DOMAIN batch : batch[i] \in Holders
  /\ \A i \in DOMAIN running : running[i] \in Holders
  /\ \A i \in DOMAIN launched : launched[i].uid \in Holders
  /\ \A i \in DOMAIN flight : flight[i].uid \in Holders
  /\ \A i \in DOMAIN prev : prev[i].uid \in Holders
  /\ \A i \in DOMAIN deferredActions : deferredActions[i].uid \in Holders

\* only what was submitted is waiting or has a slot
AllSubmitted ==
  /\ \A i \in DOMAIN pending : pending[i] \in submitted
  /\ \A i \in DOMAIN chunks : chunks[i] \in submitted
  /\ Holders \subseteq submitted

SlotInv ==
  ControlTypeOK /\ ReqFields /\ AllHold /\ AllSubmitted /\ SlotsExclusive

\* what an action that gives out no slot does with req
SlotsKept == /\ DOMAIN req' = Uids
             /\ ReqFields'
             /\ \A u \in Uids : req'[u].slot = req[u].slot

LEMMA CacheReqKeepsSlots ==
  ASSUME SlotInv, NEW u \in Uids, NEW r, NEW finished,
         IsReq(r), r.slot = req[u].slot,
         CacheReq(u, r, finished)
  PROVE  SlotsKept
<1> DEFINE ids == Take(r.ids, r.cached)
<1>1. req' = [req EXCEPT ![u] = IF finished THEN r
                                ELSE [r EXCEPT !.handle = ids]]
  BY DEF CacheReq
<1>2. /\ IsReq([r EXCEPT !.handle = ids])
      /\ [r EXCEPT !.handle = ids].slot = r.slot
  BY DEF NoReq, IsReq
<1> QED BY <1>1, <1>2 DEF SlotsKept, SlotInv, ControlTypeOK, ReqFields

LEMMA FreeKeepsSlots ==
  ASSUME SlotInv, NEW u \in Uids, Holds(u), NEW r,
         IsReq(r), r.slot = req[u].slot,
         FreeReqResources(u, r)
  PROVE  /\ SlotsKept
         /\ SlotsExclusive'
         /\ freed' \subseteq Uids
         /\ freeSlots' \in Seq(Slots)
<1>1. CASE u \in freed
  <2>1. SlotsKept
    BY <1>1 DEF FreeReqResources, SlotsKept, SlotInv, ControlTypeOK, ReqFields
  <2>2. UNCHANGED <<freed, freeSlots>>
    BY <1>1 DEF FreeReqResources
  <2> QED BY <2>1, <2>2 DEF SlotsKept, SlotInv, ControlTypeOK, SlotsExclusive,
                            Owned, Holds
<1>2. CASE u \notin freed
  <2>1. CacheReq(u, r, TRUE)
    BY <1>2 DEF FreeReqResources
  <2>2. SlotsKept
    BY <2>1, CacheReqKeepsSlots
  <2>3. /\ freed' = freed \cup {u}
        /\ freeSlots' = Append(freeSlots, req[u].slot)
    BY <1>2 DEF FreeReqResources
  <2>4. req[u].slot \in Slots /\ u \in Owned
    BY <1>2 DEF SlotInv, ControlTypeOK, Holds, Owned
  <2>5. freeSlots' \in Seq(Slots) /\ freed' \subseteq Uids
    BY <2>3, <2>4 DEF SlotInv, ControlTypeOK
  <2>6. Owned' = Owned \ {u}
    BY <2>2, <2>3 DEF Owned, Holds, SlotsKept
  <2>7. Range(freeSlots') = Range(freeSlots) \cup {req[u].slot}
    BY <2>3, <2>4, RangeAppend DEF SlotInv, ControlTypeOK
  <2>8. \A i, j \in DOMAIN freeSlots' : i # j => freeSlots'[i] # freeSlots'[j]
    BY <2>3, <2>4 DEF SlotInv, ControlTypeOK, SlotsExclusive, Range
  <2> QED BY <2>2, <2>4, <2>5, <2>6, <2>7, <2>8
          DEF SlotsExclusive, SlotInv, SlotsKept, Owned
<1> QED BY <1>1, <1>2

LEMMA KeptExclusive ==
  ASSUME SlotInv, SlotsKept, UNCHANGED <<freed, freeSlots>>
  PROVE  SlotsExclusive'
BY DEF SlotInv, SlotsKept, SlotsExclusive, Owned, Holds

LEMMA KeptHolders ==
  ASSUME SlotsKept PROVE  Holders' = Holders
BY DEF SlotsKept, Holders, Holds

LEMMA NextReqIsReq ==
  ASSUME NEW u, NEW slot, NEW cached, NEW handle
  PROVE  /\ IsReq(NextReq(u, slot, cached, handle))
         /\ NextReq(u, slot, cached, handle).slot = slot
BY DEF NextReq, IsReq, NoReq

\* what a list holds after one more element
LEMMA AppendElements ==
  ASSUME NEW S, NEW s \in Seq(S), NEW e \in S
  PROVE  /\ Append(s, e) \in Seq(S)
         /\ DOMAIN Append(s, e) = 1 .. Len(s) + 1
         /\ \A i \in DOMAIN Append(s, e) :
              Append(s, e)[i] = e \/ \E j \in DOMAIN s : Append(s, e)[i] = s[j]
<1>1. /\ Append(s, e) \in Seq(S)
      /\ DOMAIN Append(s, e) = 1 .. Len(s) + 1
      /\ \A i \in 1 .. Len(s) : Append(s, e)[i] = s[i]
      /\ Append(s, e)[Len(s) + 1] = e
      /\ DOMAIN s = 1 .. Len(s)
  OBVIOUS
<1> QED BY <1>1

LEMMA SlotInvInit == Init => SlotInv
<1> SUFFICES ASSUME Init PROVE SlotInv
  OBVIOUS
<1>1. /\ freeSlots \in Seq(Slots)
      /\ \A i, j \in DOMAIN freeSlots : i # j => freeSlots[i] # freeSlots[j]
  BY SchedulerAssumption DEF Init, Slots
<1>2. ControlTypeOK
  <2>1. <<>> \in Seq(Uids) /\ <<>> \in Seq(Entry)
        /\ <<>> \in Seq([uid : Uids, finished : BOOLEAN])
    BY EmptySeq
  <2>2. DOMAIN req = Uids /\ \A u \in Uids : req[u].slot \in Slots \cup {NoSlot}
    BY DEF Init, NoReq
  <2> QED BY <1>1, <2>1, <2>2 DEF Init, ControlTypeOK
<1>3. \A u \in Uids : req[u] = NoReq
  BY DEF Init
<1>4. ReqFields /\ Holders = {}
  <2>1. IsReq(NoReq) /\ NoReq.slot = NoSlot
    BY DEF IsReq, NoReq
  <2> QED BY <1>3, <2>1 DEF ReqFields, Holders, Holds
<1>5. AllHold
  BY DEF Init, AllHold
<1>6. AllSubmitted
  BY <1>4 DEF Init, AllSubmitted
<1> QED BY <1>1, <1>2, <1>4, <1>5, <1>6 DEF SlotInv, SlotsExclusive, Owned, Holders

-----------------------------------------------------------------------------
(* What the handling of one request in process_forward_output leaves true. *)

EndsWell ==
  /\ SlotsKept /\ SlotsExclusive'
  /\ freed' \subseteq Uids /\ freeSlots' \in Seq(Slots)
  /\ deferredActions' \in Seq([uid : Uids, finished : BOOLEAN])
  /\ \A i \in DOMAIN deferredActions' : deferredActions'[i].uid \in Holders

LEMMA UpdateEndsWell ==
  ASSUME SlotInv, NEW u \in Uids, NEW r, IsReq(r), r.slot = req[u].slot,
         req' = [req EXCEPT ![u] = r],
         UNCHANGED <<freed, deferredActions, freeSlots>>
  PROVE  EndsWell
<1>1. SlotsKept
  BY DEF SlotsKept, SlotInv, ControlTypeOK, ReqFields
<1>2. SlotsExclusive'
  BY <1>1, KeptExclusive
<1> QED BY <1>1, <1>2 DEF EndsWell, SlotInv, ControlTypeOK, AllHold

LEMMA UnchangedEndsWell ==
  ASSUME SlotInv, UNCHANGED <<freed, deferredActions, req, freeSlots>>
  PROVE  EndsWell
<1>1. SlotsKept
  BY DEF SlotsKept, SlotInv, ControlTypeOK, ReqFields
<1>2. SlotsExclusive'
  BY <1>1, KeptExclusive
<1> QED BY <1>1, <1>2 DEF EndsWell, SlotInv, ControlTypeOK, AllHold

LEMMA DeferEndsWell ==
  ASSUME SlotInv, NEW u \in Holders, NEW r, NEW finished \in BOOLEAN,
         IsReq(r), r.slot = req[u].slot, Defer(u, r, finished)
  PROVE  EndsWell
<1> DEFINE a == [uid |-> u, finished |-> finished]
           A == [uid : Uids, finished : BOOLEAN]
<1>1. u \in Uids /\ a \in A /\ a.uid = u
  BY DEF Holders
<1>2. /\ deferredActions' = Append(deferredActions, a)
      /\ req' = [req EXCEPT ![u] = r]
      /\ UNCHANGED <<freed, freeSlots>>
  BY DEF Defer
<1>3. /\ deferredActions \in Seq(A)
      /\ \A i \in DOMAIN deferredActions : deferredActions[i].uid \in Holders
  BY DEF SlotInv, ControlTypeOK, AllHold
<1>4. SlotsKept
  BY <1>1, <1>2 DEF SlotsKept, SlotInv, ControlTypeOK, ReqFields
<1>5. SlotsExclusive'
  BY <1>2, <1>4, KeptExclusive
<1> HIDE DEF a, A
<1>6. /\ deferredActions' \in Seq(A)
      /\ \A i \in DOMAIN deferredActions' :
           \/ deferredActions'[i] = a
           \/ \E j \in DOMAIN deferredActions :
                deferredActions'[i] = deferredActions[j]
  BY <1>1, <1>2, <1>3, AppendElements
<1>7. \A i \in DOMAIN deferredActions' : deferredActions'[i].uid \in Holders
  BY <1>1, <1>3, <1>6
<1> QED BY <1>2, <1>4, <1>5, <1>6, <1>7 DEF EndsWell, SlotInv, ControlTypeOK, A

LEMMA FreeOrDeferEndsWell ==
  ASSUME SlotInv, NEW u \in Holders, NEW r, IsReq(r), r.slot = req[u].slot,
         FreeReqResourcesOrDefer(u, r)
  PROVE  EndsWell
<1>1. CASE MustDefer
  BY <1>1, DeferEndsWell DEF FreeReqResourcesOrDefer
<1>2. CASE ~MustDefer
  <2>1. FreeReqResources(u, r) /\ UNCHANGED deferredActions
    BY <1>2 DEF FreeReqResourcesOrDefer
  <2>2. u \in Uids /\ Holds(u)
    BY DEF Holders
  <2> QED BY <2>1, <2>2, FreeKeepsSlots DEF EndsWell, SlotInv, ControlTypeOK, AllHold
<1> QED BY <1>1, <1>2

LEMMA CacheOrDeferEndsWell ==
  ASSUME SlotInv, NEW u \in Holders, NEW r, IsReq(r), r.slot = req[u].slot,
         CacheReqOrDefer(u, r)
  PROVE  EndsWell
<1>1. CASE MustDefer
  BY <1>1, DeferEndsWell DEF CacheReqOrDefer
<1>2. CASE ~MustDefer
  <2>1. CacheReq(u, r, FALSE) /\ UNCHANGED <<freed, freeSlots, deferredActions>>
    BY <1>2 DEF CacheReqOrDefer
  <2>2. u \in Uids
    BY DEF Holders
  <2>3. SlotsKept
    BY <2>1, <2>2, CacheReqKeepsSlots
  <2>4. SlotsExclusive'
    BY <2>1, <2>3, KeptExclusive
  <2> QED BY <2>1, <2>3, <2>4 DEF EndsWell, SlotInv, ControlTypeOK, AllHold
<1> QED BY <1>1, <1>2

LEMMA AppendedIsReq ==
  ASSUME SlotInv, Current.uid \in Uids
  PROVE  IsReq(Appended) /\ Appended.slot = req[Current.uid].slot
BY DEF SlotInv, ReqFields, IsReq, Appended, NoReq

LEMMA ProcessStep ==
  ASSUME SlotInv, EndsWell,
         prev' \in Seq(Entry), \A i \in DOMAIN prev' : prev'[i].uid \in Holders,
         \/ UNCHANGED running
         \/ \E v \in Uids : running' = Erase(running, v),
         suppressed' \subseteq Uids, deferredFree' \subseteq Uids,
         UNCHANGED <<pc, pending, burst, batch, chunks, prefill, launched,
                     flight, submitted, aborted>>
  PROVE  SlotInv'
<1>1. Holders' = Holders
  BY KeptHolders DEF EndsWell
<1>2. /\ running' \in Seq(Uids)
      /\ \A i \in DOMAIN running' : running'[i] \in Holders
  <2>1. /\ running \in Seq(Uids)
        /\ \A i \in 1 .. Len(running) : running[i] \in Holders
    BY DEF SlotInv, ControlTypeOK, AllHold
  <2>2. CASE UNCHANGED running
    BY <2>1, <2>2
  <2>3. CASE \E v \in Uids : running' = Erase(running, v)
    <3>1. running' \in Seq(Uids)
          /\ \A i \in 1 .. Len(running') :
               \E j \in 1 .. Len(running) : running'[i] = running[j]
      BY <2>1, <2>3, EraseProperties
    <3>2. DOMAIN running' = 1 .. Len(running')
      BY <3>1, LenProperties
    <3> QED BY <2>1, <3>1, <3>2
  <2> QED BY <2>2, <2>3
<1>3. ControlTypeOK'
  BY <1>2 DEF SlotInv, ControlTypeOK, EndsWell, SlotsKept
<1>4. AllHold'
  BY <1>1, <1>2 DEF SlotInv, AllHold, EndsWell
<1>5. AllSubmitted'
  BY <1>1 DEF SlotInv, AllSubmitted
<1> QED BY <1>3, <1>4, <1>5 DEF SlotInv, EndsWell, SlotsKept

LEMMA SlotInvStep == SlotInv /\ [Next]_vars => SlotInv'
<1> SUFFICES ASSUME SlotInv, [Next]_vars PROVE SlotInv'
  OBVIOUS
<1> USE DEF SlotInv, queueVars, batchVars, deferVars, tableVars, cacheVars,
            clientVars
<1>1. ASSUME BeginStep PROVE SlotInv'
  <2>0. <<>> \in Seq(Entry)
    BY EmptySeq
  <2>1. ControlTypeOK'
    <3>1. /\ prev' = flight /\ flight' = <<>> /\ pc' = "schedule"
          /\ UNCHANGED <<pending, running, burst, batch, chunks, prefill,
                         launched, suppressed, freed, deferredFree,
                         deferredActions, req, freeSlots, submitted, aborted>>
      BY <1>1 DEF BeginStep
    <3>2. prev' \in Seq(Entry) /\ flight' \in Seq(Entry)
      BY <2>0, <3>1 DEF ControlTypeOK
    <3> QED BY <3>1, <3>2 DEF ControlTypeOK
  <2>2. SlotsKept
    BY <1>1 DEF BeginStep, SlotsKept, ControlTypeOK, ReqFields
  <2>3. Holders' = Holders
    BY <2>2, KeptHolders
  <2>4. AllHold'
    BY <1>1, <2>3 DEF BeginStep, ControlTypeOK, AllHold
  <2>5. AllSubmitted'
    BY <1>1, <2>3 DEF BeginStep, ControlTypeOK, AllSubmitted
  <2>6. UNCHANGED <<freed, freeSlots>>
    BY <1>1 DEF BeginStep
  <2> QED BY <2>1, <2>2, <2>4, <2>5, <2>6, KeptExclusive DEF SlotsKept
<1>2. ASSUME ScheduleBurst PROVE SlotInv'
  <2>1. ControlTypeOK'
    <3>1. burst' \in Nat /\ pc' = "reclaim" /\ prefill' = FALSE
          /\ batch' = running
      BY <1>2 DEF ScheduleBurst, Bursting, DecodeBatch, ControlTypeOK
    <3> QED BY <1>2, <3>1 DEF ScheduleBurst, ControlTypeOK
  <2>2. SlotsKept
    BY <1>2 DEF ScheduleBurst, DecodeBatch, SlotsKept, ControlTypeOK, ReqFields
  <2>3. Holders' = Holders
    BY <2>2, KeptHolders
  <2>4. AllHold'
    BY <1>2, <2>3 DEF ScheduleBurst, DecodeBatch, ControlTypeOK, AllHold
  <2>5. AllSubmitted'
    BY <1>2, <2>3 DEF ScheduleBurst, DecodeBatch, ControlTypeOK, AllSubmitted
  <2>6. UNCHANGED <<freed, freeSlots>>
    BY <1>2 DEF ScheduleBurst, DecodeBatch
  <2> QED BY <2>1, <2>2, <2>4, <2>5, <2>6, KeptExclusive DEF SlotsKept
<1>3. ASSUME BeginAdmission PROVE SlotInv'
  <2>1. ControlTypeOK'
    BY <1>3, SchedulerAssumption DEF BeginAdmission, ControlTypeOK
  <2>2. SlotsKept
    BY <1>3 DEF BeginAdmission, SlotsKept, ControlTypeOK, ReqFields
  <2>3. Holders' = Holders
    BY <2>2, KeptHolders
  <2>4. AllHold'
    BY <1>3, <2>3 DEF BeginAdmission, ControlTypeOK, AllHold
  <2>5. AllSubmitted'
    BY <1>3, <2>3 DEF BeginAdmission, ControlTypeOK, AllSubmitted
  <2>6. UNCHANGED <<freed, freeSlots>>
    BY <1>3 DEF BeginAdmission
  <2> QED BY <2>1, <2>2, <2>4, <2>5, <2>6, KeptExclusive DEF SlotsKept
<1>4. ASSUME SchedulePrefill PROVE SlotInv'
  <2>1. ControlTypeOK'
    BY SMTT(30), <1>4, SchedulerAssumption DEF SchedulePrefill, ControlTypeOK
  <2>2. SlotsKept
    BY <1>4 DEF SchedulePrefill, SlotsKept, ControlTypeOK, ReqFields
  <2>3. Holders' = Holders
    BY <2>2, KeptHolders
  <2>4. AllHold'
    BY <1>4, <2>3 DEF SchedulePrefill, ControlTypeOK, AllHold
  <2>5. AllSubmitted'
    BY <1>4, <2>3 DEF SchedulePrefill, ControlTypeOK, AllSubmitted
  <2>6. UNCHANGED <<freed, freeSlots>>
    BY <1>4 DEF SchedulePrefill
  <2> QED BY <2>1, <2>2, <2>4, <2>5, <2>6, KeptExclusive DEF SlotsKept
<1>5. ASSUME ScheduleDecode PROVE SlotInv'
  <2>1. ControlTypeOK'
    BY <1>5, SchedulerAssumption DEF ScheduleDecode, DecodeBatch, AfterLaunch, ControlTypeOK
  <2>2. SlotsKept
    BY <1>5 DEF ScheduleDecode, DecodeBatch, AfterLaunch, SlotsKept, ControlTypeOK, ReqFields
  <2>3. Holders' = Holders
    BY <2>2, KeptHolders
  <2>4. AllHold'
    BY <1>5, <2>3 DEF ScheduleDecode, DecodeBatch, AfterLaunch, ControlTypeOK, AllHold
  <2>5. AllSubmitted'
    BY <1>5, <2>3 DEF ScheduleDecode, DecodeBatch, AfterLaunch, ControlTypeOK, AllSubmitted
  <2>6. UNCHANGED <<freed, freeSlots>>
    BY <1>5 DEF ScheduleDecode, DecodeBatch, AfterLaunch
  <2> QED BY <2>1, <2>2, <2>4, <2>5, <2>6, KeptExclusive DEF SlotsKept
<1>6. ASSUME Reclaim PROVE SlotInv'
  <2>1. ControlTypeOK'
    BY <1>6, SchedulerAssumption DEF Reclaim, ControlTypeOK
  <2>2. SlotsKept
    BY <1>6 DEF Reclaim, SlotsKept, ControlTypeOK, ReqFields
  <2>3. Holders' = Holders
    BY <2>2, KeptHolders
  <2>4. AllHold'
    BY <1>6, <2>3 DEF Reclaim, ControlTypeOK, AllHold
  <2>5. AllSubmitted'
    BY <1>6, <2>3 DEF Reclaim, ControlTypeOK, AllSubmitted
  <2>6. UNCHANGED <<freed, freeSlots>>
    BY <1>6 DEF Reclaim
  <2> QED BY <2>1, <2>2, <2>4, <2>5, <2>6, KeptExclusive DEF SlotsKept
<1>7. ASSUME BeginFilter PROVE SlotInv'
  <2> DEFINE uids == [i \in DOMAIN launched |-> launched[i].uid]
  <2>0. /\ launched \in Seq(Entry) /\ running \in Seq(Uids)
        /\ \A i \in DOMAIN launched : launched[i].uid \in Holders
        /\ Holders \subseteq Uids
    BY DEF ControlTypeOK, AllHold, Holders
  <2>1. /\ uids \in Seq(Uids)
        /\ \A i \in DOMAIN uids : uids[i] \in Holders
    BY <2>0
  <2>2. batch' = running \o uids
    BY <1>7 DEF BeginFilter
  <2> HIDE DEF uids
  <2>3. batch' \in Seq(Uids) /\ running' \in Seq(Uids)
    <3>1. batch' \in Seq(Uids)
      BY <2>0, <2>1, <2>2, ConcatProperties
    <3>2. running' = <<>>
      BY <1>7 DEF BeginFilter
    <3> QED BY <3>1, <3>2, EmptySeq
  <2>4. ControlTypeOK'
    BY <1>7, <2>3 DEF BeginFilter, ControlTypeOK
  <2>5. SlotsKept
    BY <1>7 DEF BeginFilter, SlotsKept, ControlTypeOK, ReqFields
  <2>6. Holders' = Holders
    BY <2>5, KeptHolders
  <2>7. \A i \in DOMAIN batch' : batch'[i] \in Holders
    BY <2>1, <2>2 DEF ControlTypeOK, AllHold
  <2>8. AllHold'
    BY <1>7, <2>6, <2>7 DEF BeginFilter, AllHold
  <2>9. AllSubmitted'
    BY <1>7, <2>6 DEF BeginFilter, AllSubmitted
  <2>10. UNCHANGED <<freed, freeSlots>>
    BY <1>7 DEF BeginFilter
  <2> QED BY <2>4, <2>5, <2>8, <2>9, <2>10, KeptExclusive DEF SlotsKept
<1>8. ASSUME FilterOne PROVE SlotInv'
  <2>1. ControlTypeOK'
    BY SMTT(30), <1>8, SchedulerAssumption DEF FilterOne, ControlTypeOK
  <2>2. SlotsKept
    BY <1>8 DEF FilterOne, SlotsKept, ControlTypeOK, ReqFields
  <2>3. Holders' = Holders
    BY <2>2, KeptHolders
  <2>4. AllHold'
    BY <1>8, <2>3 DEF FilterOne, ControlTypeOK, AllHold
  <2>5. AllSubmitted'
    BY <1>8, <2>3 DEF FilterOne, ControlTypeOK, AllSubmitted
  <2>6. UNCHANGED <<freed, freeSlots>>
    BY <1>8 DEF FilterOne
  <2> QED BY <2>1, <2>2, <2>4, <2>5, <2>6, KeptExclusive DEF SlotsKept
<1>9. ASSUME EndLaunch PROVE SlotInv'
  <2>1. ControlTypeOK'
    BY <1>9, SchedulerAssumption DEF EndLaunch, AfterLaunch, ControlTypeOK
  <2>2. SlotsKept
    BY <1>9 DEF EndLaunch, AfterLaunch, SlotsKept, ControlTypeOK, ReqFields
  <2>3. Holders' = Holders
    BY <2>2, KeptHolders
  <2>4. AllHold'
    BY <1>9, <2>3 DEF EndLaunch, AfterLaunch, ControlTypeOK, AllHold
  <2>5. AllSubmitted'
    BY <1>9, <2>3 DEF EndLaunch, AfterLaunch, ControlTypeOK, AllSubmitted
  <2>6. UNCHANGED <<freed, freeSlots>>
    BY <1>9 DEF EndLaunch, AfterLaunch
  <2> QED BY <2>1, <2>2, <2>4, <2>5, <2>6, KeptExclusive DEF SlotsKept
<1>10. ASSUME SkipChunk PROVE SlotInv'
  <2>1. ControlTypeOK'
    BY <1>10, SchedulerAssumption DEF SkipChunk, Process, ControlTypeOK
  <2>2. SlotsKept
    BY <1>10 DEF SkipChunk, Process, SlotsKept, ControlTypeOK, ReqFields
  <2>3. Holders' = Holders
    BY <2>2, KeptHolders
  <2>4. AllHold'
    BY <1>10, <2>3 DEF SkipChunk, Process, ControlTypeOK, AllHold
  <2>5. AllSubmitted'
    BY <1>10, <2>3 DEF SkipChunk, Process, ControlTypeOK, AllSubmitted
  <2>6. UNCHANGED <<freed, freeSlots>>
    BY <1>10 DEF SkipChunk, Process
  <2> QED BY <2>1, <2>2, <2>4, <2>5, <2>6, KeptExclusive DEF SlotsKept
<1>11. ASSUME EndStep PROVE SlotInv'
  <2>1. ControlTypeOK'
    BY <1>11, SchedulerAssumption DEF EndStep, ControlTypeOK
  <2>2. SlotsKept
    BY <1>11 DEF EndStep, SlotsKept, ControlTypeOK, ReqFields
  <2>3. Holders' = Holders
    BY <2>2, KeptHolders
  <2>4. AllHold'
    BY <1>11, <2>3 DEF EndStep, ControlTypeOK, AllHold
  <2>5. AllSubmitted'
    BY <1>11, <2>3 DEF EndStep, ControlTypeOK, AllSubmitted
  <2>6. UNCHANGED <<freed, freeSlots>>
    BY <1>11 DEF EndStep
  <2> QED BY <2>1, <2>2, <2>4, <2>5, <2>6, KeptExclusive DEF SlotsKept
<1>12. ASSUME NEW u \in Uids, Submit(u) PROVE SlotInv'
  <2>1. ControlTypeOK'
    BY <1>12, SchedulerAssumption DEF Submit, ControlTypeOK
  <2>2. SlotsKept
    BY <1>12 DEF Submit, SlotsKept, ControlTypeOK, ReqFields
  <2>3. Holders' = Holders
    BY <2>2, KeptHolders
  <2>4. AllHold'
    BY <1>12, <2>3 DEF Submit, ControlTypeOK, AllHold
  <2>5. AllSubmitted'
    <3>1. /\ pending' = Append(pending, u)
          /\ submitted' = submitted \cup {u}
          /\ UNCHANGED chunks
      BY <1>12 DEF Submit, batchVars
    <3>2. \A i \in DOMAIN pending' : pending'[i] \in submitted'
      BY <3>1, AppendElements DEF ControlTypeOK, AllSubmitted
    <3>3. \A i \in DOMAIN chunks' : chunks'[i] \in submitted'
      BY <3>1 DEF AllSubmitted
    <3> QED BY <2>3, <3>1, <3>2, <3>3 DEF AllSubmitted
  <2>6. Owned' = Owned /\ UNCHANGED freeSlots
    BY <1>12, <2>3 DEF Submit, tableVars, AllSubmitted, Owned, Holders
  <2>7. SlotsExclusive'
    BY <2>2, <2>6 DEF SlotsExclusive, SlotsKept, Owned
  <2> QED BY <2>1, <2>2, <2>4, <2>5, <2>7 DEF SlotsKept
<1>13. ASSUME AdmitChunk PROVE SlotInv'
  <2> DEFINE u == Head(pending)
  <2>1. /\ pending \in Seq(Uids) /\ pending # <<>> /\ Holds(u)
    BY <1>13 DEF AdmitChunk, ControlTypeOK
  <2>2. u \in Holders
    BY <2>1 DEF Holders
  <2>3. PICK r : IsReq(r) /\ r.slot = req[u].slot /\ Add(u, r)
    BY <1>13, NextReqIsReq DEF AdmitChunk
  <2>4. /\ req' = [req EXCEPT ![u] = r]
        /\ chunks' = IF r.chunked THEN Append(chunks, u) ELSE chunks
        /\ batch' = Append(batch, u) /\ pending' = Tail(pending)
        /\ UNCHANGED <<pc, running, burst, prefill, launched, flight, prev,
                       suppressed, freed, deferredFree, deferredActions,
                       freeSlots, submitted, aborted>>
    BY <1>13, <2>3 DEF AdmitChunk, Add
  <2> HIDE DEF u
  <2>5. SlotsKept
    BY <2>2, <2>3, <2>4 DEF SlotsKept, ControlTypeOK, ReqFields, Holders
  <2>6. Holders' = Holders
    BY <2>5, KeptHolders
  <2>7. ControlTypeOK'
    BY <2>1, <2>2, <2>4, <2>5 DEF ControlTypeOK, SlotsKept, Holders
  <2>8. AllHold'
    <3>1. \A i \in DOMAIN batch' : batch'[i] \in Holders
      <4>1. /\ batch \in Seq(Uids) /\ u \in Uids /\ batch' = Append(batch, u)
            /\ \A i \in DOMAIN batch : batch[i] \in Holders
        BY <2>2, <2>4 DEF ControlTypeOK, AllHold, Holders
      <4>2. \A i \in DOMAIN batch' :
              batch'[i] = u \/ \E j \in DOMAIN batch : batch'[i] = batch[j]
        BY <4>1, AppendElements
      <4> QED BY <2>2, <4>1, <4>2
    <3> QED BY <2>4, <2>6, <3>1 DEF AllHold
  <2>9. AllSubmitted'
    <3>1. /\ chunks \in Seq(Uids) /\ u \in Uids /\ u \in submitted
          /\ submitted' = submitted
      BY <2>2, <2>4 DEF ControlTypeOK, AllSubmitted, Holders
    <3>2. \A i \in DOMAIN pending' : pending'[i] \in submitted'
      BY <2>1, <2>4, <3>1 DEF AllSubmitted
    <3>3. \A i \in DOMAIN chunks' : chunks'[i] \in submitted'
      <4>1. CASE r.chunked
        BY <2>4, <3>1, <4>1, AppendElements DEF AllSubmitted
      <4>2. CASE ~r.chunked
        BY <2>4, <3>1, <4>2 DEF AllSubmitted
      <4> QED BY <4>1, <4>2
    <3> QED BY <2>6, <3>1, <3>2, <3>3 DEF AllSubmitted
  <2> QED BY <2>4, <2>5, <2>7, <2>8, <2>9, KeptExclusive DEF SlotsKept
<1>14. ASSUME LaunchOne PROVE SlotInv'
  <2> DEFINE u == Head(batch)
  <2>1. /\ batch \in Seq(Uids) /\ batch # <<>>
        /\ batch' = Tail(batch)
        /\ req' = [req EXCEPT ![u] = CompleteOne(req[u])]
        /\ UNCHANGED <<pc, pending, running, burst, chunks, prefill, flight, prev,
                       suppressed, freed, deferredFree, deferredActions,
                       freeSlots, submitted, aborted>>
    BY <1>14 DEF LaunchOne, ControlTypeOK
  <2>2. u \in Holders /\ u \in Uids
    BY <2>1 DEF AllHold, Holders
  <2>3. PICK e : /\ e \in Entry /\ e.uid = u
                 /\ launched' = Append(launched, e)
    <3>1. PICK t \in IF req[u].chunked THEN {EOS} ELSE Sampled :
            launched' = Append(launched,
                   [uid |-> u, prefill |-> prefill, chunked |-> req[u].chunked,
                    canDecode |-> CanDecode(CompleteOne(req[u])), token |-> t])
      BY <1>14 DEF LaunchOne
    <3>2. req[u].chunked \in BOOLEAN /\ prefill \in BOOLEAN /\ t \in Tokens
      BY <2>2, SchedulerAssumption DEF ReqFields, IsReq, ControlTypeOK
    <3>3. CanDecode(CompleteOne(req[u])) \in BOOLEAN
      BY DEF CanDecode
    <3> QED BY <2>2, <3>1, <3>2, <3>3 DEF Entry
  <2>4. IsReq(CompleteOne(req[u])) /\ CompleteOne(req[u]).slot = req[u].slot
    BY <2>2 DEF CompleteOne, ReqFields, IsReq, NoReq
  <2> HIDE DEF u
  <2>5. SlotsKept
    BY <2>1, <2>2, <2>4 DEF SlotsKept, ControlTypeOK, ReqFields
  <2>6. Holders' = Holders
    BY <2>5, KeptHolders
  <2>7. ControlTypeOK'
    BY <2>1, <2>3, <2>5 DEF ControlTypeOK, SlotsKept
  <2>8. AllHold'
    <3>0. /\ launched \in Seq(Entry)
          /\ \A i \in 1 .. Len(launched) : launched[i].uid \in Holders
      BY DEF ControlTypeOK, AllHold
    <3>1. \A i \in DOMAIN launched' : launched'[i].uid \in Holders
      <4>1. /\ DOMAIN launched' = 1 .. Len(launched) + 1
            /\ \A i \in 1 .. Len(launched) : launched'[i] = launched[i]
            /\ launched'[Len(launched) + 1] = e
        BY <2>3, <3>0
      <4> QED BY <2>2, <2>3, <3>0, <4>1
    <3>2. \A i \in DOMAIN batch' : batch'[i] \in Holders
      BY <2>1 DEF AllHold
    <3> QED BY <2>1, <2>6, <3>1, <3>2 DEF AllHold
  <2>9. AllSubmitted'
    BY <2>1, <2>6 DEF AllSubmitted
  <2> QED BY <2>1, <2>5, <2>7, <2>8, <2>9, KeptExclusive DEF SlotsKept
<1>15. ASSUME AdmitNew PROVE SlotInv'
  <2> DEFINE u == Head(pending)
             slot == BackSlot
  <2>1. /\ pending \in Seq(Uids) /\ pending # <<>>
        /\ freeSlots \in Seq(Slots) /\ freeSlots # <<>>
        /\ ~Holds(u)
    BY <1>15 DEF AdmitNew, Admissible, ControlTypeOK
  <2>2. u \in Uids /\ u \in submitted /\ slot \in Slots
    BY <2>1 DEF AllSubmitted, BackSlot
  <2>3. PICK r : IsReq(r) /\ r.slot = slot /\ Add(u, r)
    BY <1>15, NextReqIsReq DEF AdmitNew
  <2>4. /\ req' = [req EXCEPT ![u] = r]
        /\ chunks' = IF r.chunked THEN Append(chunks, u) ELSE chunks
        /\ batch' = Append(batch, u) /\ pending' = Tail(pending)
        /\ freeSlots' = Front(freeSlots)
        /\ UNCHANGED <<pc, running, burst, prefill, launched, flight, prev,
                       suppressed, freed, deferredFree, deferredActions,
                       submitted, aborted>>
    BY <1>15, <2>3 DEF AdmitNew, Add
  <2> HIDE DEF u, slot
  <2>5. /\ DOMAIN req' = Uids
        /\ ReqFields'
        /\ req'[u].slot = slot
        /\ \A v \in Uids \ {u} : req'[v].slot = req[v].slot
    BY <2>2, <2>3, <2>4 DEF ControlTypeOK, ReqFields
  <2>6. Holders' = Holders \cup {u}
    BY <2>2, <2>5 DEF Holders, Holds, Slots, NoSlot
  <2>7. /\ freeSlots' \in Seq(Slots)
        /\ Len(freeSlots') = Len(freeSlots) - 1
        /\ \A i \in 1 .. Len(freeSlots) - 1 : freeSlots'[i] = freeSlots[i]
    <3>1. freeSlots' = SubSeq(freeSlots, 1, Len(freeSlots) - 1)
      BY <2>4 DEF Front
    <3> DEFINE n == Len(freeSlots) - 1
    <3>2. n \in Nat /\ Len(freeSlots) = n + 1
      BY <2>1
    <3> HIDE DEF n
    <3>3. \A i \in 1 .. n : i \in DOMAIN freeSlots /\ freeSlots[i] \in Slots
      BY <2>1, <3>2
    <3>4. /\ Len(SubSeq(freeSlots, 1, n)) = n
          /\ \A i \in 1 .. n : SubSeq(freeSlots, 1, n)[i] = freeSlots[i]
          /\ SubSeq(freeSlots, 1, n) \in Seq(Slots)
      BY <2>1, <3>2, <3>3, SubSeqProperties
    <3> QED BY <3>1, <3>4 DEF n
  <2>8. ControlTypeOK'
    BY <2>1, <2>2, <2>3, <2>4, <2>5, <2>7 DEF ControlTypeOK
  <2>9. AllHold'
    <3>1. \A i \in DOMAIN batch' : batch'[i] \in Holders'
      <4>1. /\ batch \in Seq(Uids) /\ batch' = Append(batch, u)
            /\ \A i \in DOMAIN batch : batch[i] \in Holders
        BY <2>4 DEF ControlTypeOK, AllHold
      <4>2. \A i \in DOMAIN batch' :
              batch'[i] = u \/ \E j \in DOMAIN batch : batch'[i] = batch[j]
        BY <2>2, <4>1, AppendElements
      <4> QED BY <2>6, <4>1, <4>2
    <3> QED BY <2>4, <2>6, <3>1 DEF AllHold
  <2>10. AllSubmitted'
    BY SMTT(30), <2>1, <2>2, <2>3, <2>4, <2>6 DEF ControlTypeOK, AllSubmitted
  <2>11. /\ Owned' \subseteq Owned \cup {u}
         /\ u \notin Owned
    BY <2>1, <2>4, <2>6 DEF Owned, Holders, u
  <2>12. slot \notin Range(freeSlots') /\ slot \in Range(freeSlots)
    BY <2>1, <2>7 DEF SlotsExclusive, Range, slot, BackSlot
  <2>13. Range(freeSlots') \subseteq Range(freeSlots)
    BY <2>1, <2>7 DEF Range
  <2>14. SlotsExclusive'
    <3>1. \A i, j \in DOMAIN freeSlots' : i # j => freeSlots'[i] # freeSlots'[j]
      BY <2>1, <2>7 DEF SlotsExclusive
    <3>2. \A v \in Owned : req[v].slot # slot
      BY <2>12 DEF SlotsExclusive
    <3> QED BY <2>5, <2>11, <2>12, <2>13, <3>1, <3>2 DEF SlotsExclusive, Owned
  <2> QED BY <2>5, <2>8, <2>9, <2>10, <2>14
<1>16. ASSUME NEW u \in Uids, Abort(u) PROVE SlotInv'
  <2>1. /\ pending' \in Seq(Uids) /\ running' \in Seq(Uids)
        /\ \A i \in DOMAIN pending' : \E j \in DOMAIN pending : pending'[i] = pending[j]
        /\ \A i \in DOMAIN running' : \E j \in DOMAIN running : running'[i] = running[j]
    <3>1. /\ pending' = Erase(pending, u) /\ running' = Erase(running, u)
          /\ pending \in Seq(Uids) /\ running \in Seq(Uids)
      BY <1>16 DEF Abort, ControlTypeOK
    <3>2. \A i \in 1 .. Len(pending') : \E j \in 1 .. Len(pending) : pending'[i] = pending[j]
      BY <3>1, EraseProperties
    <3>3. \A i \in 1 .. Len(running') : \E j \in 1 .. Len(running) : running'[i] = running[j]
      BY <3>1, EraseProperties
    <3>4. pending' \in Seq(Uids) /\ running' \in Seq(Uids)
      BY <3>1, EraseProperties
    <3>5. /\ DOMAIN pending = 1 .. Len(pending) /\ DOMAIN pending' = 1 .. Len(pending')
          /\ DOMAIN running = 1 .. Len(running) /\ DOMAIN running' = 1 .. Len(running')
      BY <3>1, <3>4, LenProperties
    <3> QED BY <3>2, <3>3, <3>4, <3>5
  <2>2. /\ SlotsKept /\ SlotsExclusive'
        /\ freed' \subseteq Uids /\ freeSlots' \in Seq(Slots)
    <3>1. CASE ~Holds(u) \/ PendingUses(u)
      <4>1. UNCHANGED <<req, freed, freeSlots>>
        BY <1>16, <3>1 DEF Abort
      <4>2. SlotsKept
        BY <4>1 DEF SlotsKept, ControlTypeOK, ReqFields
      <4> QED BY <4>1, <4>2, KeptExclusive DEF ControlTypeOK
    <3>2. CASE Holds(u) /\ ~PendingUses(u)
      <4>1. FreeReqResources(u, req[u])
        BY <1>16, <3>2 DEF Abort
      <4> QED BY <3>2, <4>1, FreeKeepsSlots DEF ReqFields
    <3> QED BY <3>1, <3>2
  <2>3. Holders' = Holders
    BY <2>2, KeptHolders
  <2>4. /\ suppressed' \subseteq Uids /\ deferredFree' \subseteq Uids
        /\ aborted' \subseteq Uids
        /\ UNCHANGED <<pc, burst, batch, chunks, prefill, launched, flight, prev,
                       deferredActions, submitted>>
    BY <1>16 DEF Abort, ControlTypeOK
  <2>5. ControlTypeOK'
    BY <2>1, <2>2, <2>4 DEF ControlTypeOK, SlotsKept
  <2>6. AllHold'
    BY <2>1, <2>3, <2>4 DEF AllHold
  <2>7. AllSubmitted'
    BY <2>1, <2>3, <2>4 DEF AllSubmitted
  <2> QED BY <2>2, <2>5, <2>6, <2>7 DEF SlotsKept
<1>17. ASSUME FlushAction PROVE SlotInv'
  <2> DEFINE a == Head(deferredActions)
  <2>1. /\ deferredActions \in Seq([uid : Uids, finished : BOOLEAN])
        /\ deferredActions # <<>>
        /\ deferredActions' = Tail(deferredActions)
        /\ UNCHANGED <<pc, pending, running, burst, batch, chunks, prefill,
                       launched, flight, prev, suppressed, deferredFree,
                       submitted, aborted>>
    BY <1>17 DEF FlushAction, ControlTypeOK
  <2>2. a.uid \in Uids /\ a.uid \in Holders
    <3>1. 1 \in DOMAIN deferredActions /\ a = deferredActions[1]
      BY <2>1
    <3>2. deferredActions[1].uid \in Holders
      BY <3>1 DEF AllHold
    <3> QED BY <3>1, <3>2 DEF Holders
  <2>3. /\ deferredActions' \in Seq([uid : Uids, finished : BOOLEAN])
        /\ \A i \in DOMAIN deferredActions' : deferredActions'[i].uid \in Holders
    BY <2>1 DEF AllHold
  <2>4. \/ FreeReqResources(a.uid, req[a.uid])
        \/ CacheReq(a.uid, req[a.uid], FALSE) /\ UNCHANGED <<freed, freeSlots>>
    BY <1>17 DEF FlushAction
  <2>5. Holds(a.uid) /\ IsReq(req[a.uid])
    BY <2>2 DEF Holders, ReqFields
  <2> HIDE DEF a
  <2>6. /\ SlotsKept /\ SlotsExclusive'
        /\ freed' \subseteq Uids /\ freeSlots' \in Seq(Slots)
    BY <2>2, <2>4, <2>5, FreeKeepsSlots, CacheReqKeepsSlots, KeptExclusive
       DEF ControlTypeOK
  <2>7. Holders' = Holders
    BY <2>6, KeptHolders
  <2>8. ControlTypeOK'
    BY <2>1, <2>3, <2>6 DEF ControlTypeOK, SlotsKept
  <2>9. AllHold'
    BY <2>1, <2>3, <2>7 DEF AllHold
  <2>10. AllSubmitted'
    BY <2>1, <2>7 DEF AllSubmitted
  <2> QED BY <2>6, <2>8, <2>9, <2>10 DEF SlotsKept
<1>18. ASSUME ReleaseSuppressed PROVE SlotInv'
  <2> DEFINE u == Current.uid
  <2>1. /\ prev \in Seq(Entry) /\ prev # <<>> /\ prev' = Tail(prev)
        /\ UNCHANGED <<pc, pending, running, burst, batch, chunks, prefill,
                       launched, flight, submitted, aborted>>
        /\ suppressed' \subseteq Uids /\ deferredFree' \subseteq Uids
    BY <1>18 DEF ReleaseSuppressed, Process, ControlTypeOK
  <2>2. u \in Uids /\ u \in Holders
    <3>1. 1 \in DOMAIN prev /\ Current = prev[1]
      BY <2>1 DEF Current
    <3>2. prev[1].uid \in Holders
      BY <3>1 DEF AllHold
    <3> QED BY <3>1, <3>2 DEF Holders
  <2>3. /\ prev' \in Seq(Entry)
        /\ \A i \in DOMAIN prev' : prev'[i].uid \in Holders
    BY <2>1 DEF AllHold
  <2>4. \/ FreeReqResourcesOrDefer(u, req[u])
        \/ UNCHANGED <<freed, deferredActions, req, freeSlots>>
    BY <1>18 DEF ReleaseSuppressed
  <2>5. IsReq(req[u])
    BY <2>2 DEF ReqFields
  <2> HIDE DEF u
  <2>6. EndsWell
    BY <2>2, <2>4, <2>5, FreeOrDeferEndsWell, UnchangedEndsWell
  <2>7. UNCHANGED running \/ \E v \in Uids : running' = Erase(running, v)
    BY <2>1
  <2> QED BY <2>1, <2>3, <2>6, <2>7, ProcessStep
<1>19. ASSUME DeliverLast PROVE SlotInv'
  <2> DEFINE u == Current.uid
  <2>1. /\ prev \in Seq(Entry) /\ prev # <<>> /\ prev' = Tail(prev)
        /\ UNCHANGED <<pc, pending, burst, batch, chunks, prefill,
                       launched, flight, submitted, aborted>>
        /\ running' = Erase(running, u)
    BY <1>19 DEF DeliverLast, Deliver, Process, ControlTypeOK
  <2>2. u \in Uids /\ u \in Holders
    <3>1. 1 \in DOMAIN prev /\ Current = prev[1]
      BY <2>1 DEF Current
    <3>2. prev[1].uid \in Holders
      BY <3>1 DEF AllHold
    <3> QED BY <3>1, <3>2 DEF Holders
  <2>3. /\ prev' \in Seq(Entry)
        /\ \A i \in DOMAIN prev' : prev'[i].uid \in Holders
    BY <2>1 DEF AllHold
  <2>4. \/ FreeReqResourcesOrDefer(u, Appended)
        \/ /\ UNCHANGED <<freed, deferredActions, freeSlots>>
           /\ req' = [req EXCEPT ![u] = Appended]
    BY <1>19 DEF DeliverLast
  <2>5. IsReq(Appended) /\ Appended.slot = req[u].slot
    BY <2>2, AppendedIsReq
  <2>6. suppressed' \subseteq Uids /\ deferredFree' \subseteq Uids
    BY <1>19, <2>2 DEF DeliverLast, ControlTypeOK
  <2> HIDE DEF u
  <2>7. EndsWell
    BY <2>2, <2>4, <2>5, FreeOrDeferEndsWell, UpdateEndsWell
  <2> QED BY <2>1, <2>2, <2>3, <2>6, <2>7, ProcessStep
<1>20. ASSUME DeliverNext PROVE SlotInv'
  <2> DEFINE u == Current.uid
  <2>1. /\ prev \in Seq(Entry) /\ prev # <<>> /\ prev' = Tail(prev)
        /\ UNCHANGED <<pc, pending, running, burst, batch, chunks, prefill,
                       launched, flight, suppressed, deferredFree, submitted,
                       aborted>>
    BY <1>20 DEF DeliverNext, Deliver, Process, ControlTypeOK
  <2>2. u \in Uids /\ u \in Holders
    <3>1. 1 \in DOMAIN prev /\ Current = prev[1]
      BY <2>1 DEF Current
    <3>2. prev[1].uid \in Holders
      BY <3>1 DEF AllHold
    <3> QED BY <3>1, <3>2 DEF Holders
  <2>3. /\ prev' \in Seq(Entry)
        /\ \A i \in DOMAIN prev' : prev'[i].uid \in Holders
    BY <2>1 DEF AllHold
  <2>4. \/ CacheReqOrDefer(u, Appended)
        \/ /\ UNCHANGED <<freed, deferredActions, freeSlots>>
           /\ req' = [req EXCEPT ![u] = Appended]
    BY <1>20 DEF DeliverNext
  <2>5. IsReq(Appended) /\ Appended.slot = req[u].slot
    BY <2>2, AppendedIsReq
  <2> HIDE DEF u
  <2>6. EndsWell
    BY <2>2, <2>4, <2>5, CacheOrDeferEndsWell, UpdateEndsWell
  <2>7. suppressed' \subseteq Uids /\ deferredFree' \subseteq Uids
    BY <2>1 DEF ControlTypeOK
  <2> QED BY <2>1, <2>3, <2>6, <2>7, ProcessStep
<1>21. ASSUME UNCHANGED vars PROVE SlotInv'
  BY <1>21 DEF vars, ControlTypeOK, ReqFields, AllHold, AllSubmitted, Holders,
               Holds, SlotsExclusive, Owned
<1> QED
  BY <1>1, <1>2, <1>3, <1>4, <1>5, <1>6, <1>7, <1>8, <1>9, <1>10, <1>11, <1>12,
     <1>13, <1>14, <1>15, <1>16, <1>17, <1>18, <1>19, <1>20, <1>21
  DEF Next, Step, Wait

-----------------------------------------------------------------------------
(* No table slot is ever given to two requests, kept by a request that     *)
(* released it, or put on the free list twice (TableManager::allocate and  *)
(* free), for every workload, number of slots, budget and interleaving of  *)
(* submits, aborts and overlapped steps; aborts in the two states of       *)
(* AbortHazard included.                                                   *)
THEOREM SlotsAlwaysExclusive == Spec => []SlotsExclusive
<1>1. SlotInv => SlotsExclusive
  BY DEF SlotInv
<1> QED BY <1>1, SlotInvInit, SlotInvStep, PTL DEF Spec

(* The queues, batches and sets of the scheduler only ever name requests   *)
(* of the workload, and every slot number is one of the table's.           *)
THEOREM ControlTypes == Spec => []ControlTypeOK
<1>1. SlotInv => ControlTypeOK
  BY DEF SlotInv
<1> QED BY <1>1, SlotInvInit, SlotInvStep, PTL DEF Spec

(* Whatever the scheduler still has to do, launch, decode, process, cache  *)
(* or free, is about a request that was given a table slot, and only       *)
(* submitted requests wait or have one: abort() and process_forward_output *)
(* never index the tables for a request without a slot.                    *)
THEOREM WorkHasSlots == Spec => [](AllHold /\ AllSubmitted)
<1>1. SlotInv => AllHold /\ AllSubmitted
  BY DEF SlotInv
<1> QED BY <1>1, SlotInvInit, SlotInvStep, PTL DEF Spec

-----------------------------------------------------------------------------
(* More about lists.                                                       *)

LEMMA RangeEmpty == Range(<<>>) = {} /\ IsInjective(<<>>)
BY DEF Range, IsInjective

LEMMA EmptyRange ==
  ASSUME NEW S, NEW s \in Seq(S), Range(s) = {}
  PROVE  s = <<>>
<1>1. s # <<>> => s[1] \in Range(s)
  BY DEF Range
<1> QED BY <1>1

LEMMA HeadTail ==
  ASSUME NEW S, NEW s \in Seq(S), s # <<>>
  PROVE  /\ Tail(s) \in Seq(S)
         /\ Head(s) \in S
         /\ Range(s) = {Head(s)} \cup Range(Tail(s))
         /\ IsInjective(s) => Head(s) \notin Range(Tail(s)) /\ IsInjective(Tail(s))
<1> DEFINE n == Len(s)
           t == Tail(s)
<1>1. /\ n \in Nat /\ n > 0 /\ DOMAIN s = 1 .. n /\ s[1] = Head(s)
      /\ t \in Seq(S) /\ DOMAIN t = 1 .. n - 1
      /\ \A i \in 1 .. n - 1 : t[i] = s[i + 1]
      /\ \A i \in 1 .. n : s[i] \in S
  OBVIOUS
<1> HIDE DEF n, t
<1>2. ASSUME NEW x \in Range(s) PROVE x \in {Head(s)} \cup Range(t)
  <2>1. PICK i \in 1 .. n : x = s[i]
    BY <1>1 DEF Range
  <2>2. CASE i = 1
    BY <1>1, <2>1, <2>2
  <2>3. CASE i # 1
    <3>1. i - 1 \in 1 .. n - 1 /\ i = (i - 1) + 1
      BY <1>1, <2>3
    <3>2. x = t[i - 1]
      BY <1>1, <2>1, <3>1
    <3> QED BY <1>1, <3>1, <3>2 DEF Range
  <2> QED BY <2>2, <2>3
<1>3. ASSUME NEW x \in {Head(s)} \cup Range(t) PROVE x \in Range(s)
  <2>1. CASE x = Head(s)
    BY <1>1, <2>1 DEF Range
  <2>2. CASE x \in Range(t)
    <3>1. PICK i \in 1 .. n - 1 : x = t[i]
      BY <1>1, <2>2 DEF Range
    <3>2. i + 1 \in 1 .. n /\ x = s[i + 1]
      BY <1>1, <3>1
    <3> QED BY <1>1, <3>2 DEF Range
  <2> QED BY <1>3, <2>1, <2>2
<1>4. ASSUME IsInjective(s) PROVE Head(s) \notin Range(t) /\ IsInjective(t)
  <2>1. \A i, j \in 1 .. n : s[i] = s[j] => i = j
    BY <1>1, <1>4 DEF IsInjective
  <2>2. ASSUME NEW i \in 1 .. n - 1, t[i] = s[1] PROVE FALSE
    <3>1. i + 1 \in 1 .. n /\ 1 \in 1 .. n /\ i + 1 # 1 /\ s[i + 1] = s[1]
      BY <1>1, <2>2
    <3> QED BY <2>1, <3>1
  <2>3. ASSUME NEW i \in 1 .. n - 1, NEW j \in 1 .. n - 1, t[i] = t[j]
        PROVE  i = j
    <3>1. i + 1 \in 1 .. n /\ j + 1 \in 1 .. n /\ s[i + 1] = s[j + 1]
      BY <1>1, <2>3
    <3>2. i + 1 = j + 1
      BY <2>1, <3>1
    <3> QED BY <3>2
  <2> QED BY <1>1, <2>2, <2>3 DEF Range, IsInjective
<1>5. Range(s) = {Head(s)} \cup Range(t)
  BY <1>2, <1>3
<1>6. Head(s) \in S
  BY <1>1
<1>7. IsInjective(s) => Head(s) \notin Range(t) /\ IsInjective(t)
  BY <1>4
<1> QED BY <1>1, <1>5, <1>6, <1>7 DEF t

LEMMA AppendKeepsInjective ==
  ASSUME NEW S, NEW s \in Seq(S), NEW e \in S, IsInjective(s), e \notin Range(s)
  PROVE  IsInjective(Append(s, e))
<1> DEFINE n == Len(s)
           t == Append(s, e)
<1>1. /\ n \in Nat /\ DOMAIN s = 1 .. n /\ DOMAIN t = 1 .. n + 1
      /\ t[n + 1] = e /\ \A i \in 1 .. n : t[i] = s[i]
  OBVIOUS
<1> HIDE DEF n, t
<1>2. \A i, j \in 1 .. n : s[i] = s[j] => i = j
  BY <1>1 DEF IsInjective
<1>3. \A i \in 1 .. n : t[i] # e
  BY <1>1 DEF Range
<1>4. ASSUME NEW i \in 1 .. n + 1, NEW j \in 1 .. n + 1, t[i] = t[j]
      PROVE  i = j
  <2>1. (i = n + 1 \/ i \in 1 .. n) /\ (j = n + 1 \/ j \in 1 .. n)
    BY <1>1
  <2>2. CASE i \in 1 .. n /\ j \in 1 .. n
    BY <1>1, <1>2, <1>4, <2>2
  <2>3. CASE i = n + 1 \/ j = n + 1
    BY <1>1, <1>3, <1>4, <2>1, <2>3
  <2> QED BY <2>1, <2>2, <2>3
<1>5. IsInjective(t)
  BY <1>1, <1>4 DEF IsInjective
<1> QED BY <1>5 DEF t

LEMMA ConcatRange ==
  ASSUME NEW S, NEW s \in Seq(S), NEW t \in Seq(S)
  PROVE  /\ s \o t \in Seq(S)
         /\ Range(s \o t) = Range(s) \cup Range(t)
         /\ IsInjective(s) /\ IsInjective(t) /\ Range(s) \cap Range(t) = {}
              => IsInjective(s \o t)
<1> DEFINE m == Len(s)
           n == Len(t)
           r == s \o t
<1>1. /\ m \in Nat /\ n \in Nat /\ DOMAIN s = 1 .. m /\ DOMAIN t = 1 .. n
      /\ r \in Seq(S) /\ DOMAIN r = 1 .. m + n
      /\ \A i \in 1 .. m + n : r[i] = IF i <= m THEN s[i] ELSE t[i - m]
  BY ConcatProperties
<1> HIDE DEF m, n, r
<1>2. \A i \in 1 .. m : i \in 1 .. m + n /\ r[i] = s[i]
  BY <1>1
<1>3. \A j \in 1 .. n : m + j \in 1 .. m + n /\ r[m + j] = t[j]
  <2> TAKE j \in 1 .. n
  <2>1. m + j \in 1 .. m + n /\ ~(m + j <= m) /\ (m + j) - m = j
    BY <1>1
  <2> QED BY <1>1, <2>1
<1>4. \A i \in 1 .. m + n : i \in 1 .. m \/ \E j \in 1 .. n : i = m + j
  <2> TAKE i \in 1 .. m + n
  <2>1. CASE i <= m
    BY <1>1, <2>1
  <2>2. CASE ~(i <= m)
    <3>1. i - m \in 1 .. n /\ i = m + (i - m)
      BY <1>1, <2>2
    <3> QED BY <3>1
  <2> QED BY <2>1, <2>2
<1>5. Range(r) = Range(s) \cup Range(t)
  <2>1. ASSUME NEW x \in Range(r) PROVE x \in Range(s) \cup Range(t)
    <3>1. PICK i \in 1 .. m + n : x = r[i]
      BY <1>1 DEF Range
    <3>2. CASE i \in 1 .. m
      BY <1>1, <1>2, <3>1, <3>2 DEF Range
    <3>3. CASE \E j \in 1 .. n : i = m + j
      BY <1>1, <1>3, <3>1, <3>3 DEF Range
    <3> QED BY <1>4, <3>2, <3>3
  <2>2. \A x \in Range(s) : x \in Range(r)
    BY <1>1, <1>2 DEF Range
  <2>3. ASSUME NEW x \in Range(t) PROVE x \in Range(r)
    <3>1. PICK j \in 1 .. n : x = t[j]
      BY <1>1 DEF Range
    <3>2. m + j \in 1 .. m + n /\ r[m + j] = x
      BY <1>3, <3>1
    <3>3. m + j \in DOMAIN r
      BY <1>1, <3>2
    <3> HIDE DEF m
    <3> QED BY <3>2, <3>3 DEF Range
  <2> QED BY <2>1, <2>2, <2>3
<1>6. ASSUME IsInjective(s), IsInjective(t), Range(s) \cap Range(t) = {}
      PROVE  IsInjective(r)
  <2>1. \A i, j \in 1 .. m : s[i] = s[j] => i = j
    BY <1>1, <1>6 DEF IsInjective
  <2>2. \A i, j \in 1 .. n : t[i] = t[j] => i = j
    BY <1>1, <1>6 DEF IsInjective
  <2>3. \A i \in 1 .. m : \A j \in 1 .. n : s[i] # t[j]
    BY <1>1, <1>6 DEF Range
  <2>4. ASSUME NEW i \in 1 .. m + n, NEW j \in 1 .. m + n, r[i] = r[j]
        PROVE  i = j
    <3>1. i \in 1 .. m \/ \E k \in 1 .. n : i = m + k
      BY <1>4
    <3>2. j \in 1 .. m \/ \E k \in 1 .. n : j = m + k
      BY <1>4
    <3> QED BY <1>2, <1>3, <2>1, <2>2, <2>3, <2>4, <3>1, <3>2
  <2> QED BY <1>1, <2>4 DEF IsInjective
<1>7. IsInjective(s) /\ IsInjective(t) /\ Range(s) \cap Range(t) = {}
        => IsInjective(r)
  BY <1>6
<1> QED BY <1>1, <1>5, <1>7 DEF r

LEMMA EraseRange ==
  ASSUME NEW S, NEW s \in Seq(S), NEW u, IsInjective(s)
  PROVE  /\ Erase(s, u) \in Seq(S)
         /\ IsInjective(Erase(s, u))
         /\ Range(Erase(s, u)) = Range(s) \ {u}
<1>1. CASE ~Contains(s, u)
  <2>1. u \notin Range(s)
    BY <1>1 DEF Contains, Range
  <2> QED BY <1>1, <2>1 DEF Erase
<1>2. CASE Contains(s, u)
  <2> DEFINE k == CHOOSE i \in DOMAIN s : s[i] = u
  <2>1. k \in 1 .. Len(s) /\ s[k] = u
    BY <1>2 DEF Contains
  <2> HIDE DEF k
  <2> DEFINE A == SubSeq(s, 1, k - 1)
             B == SubSeq(s, k + 1, Len(s))
             n == Len(s)
  <2>2. /\ n \in Nat /\ k \in 1 .. n /\ DOMAIN s = 1 .. n
        /\ A \in Seq(S) /\ DOMAIN A = 1 .. k - 1 /\ \A i \in 1 .. k - 1 : A[i] = s[i]
        /\ B \in Seq(S) /\ DOMAIN B = 1 .. n - k
        /\ \A i \in 1 .. n - k : B[i] = s[k + i]
    BY <2>1
  <2>3. Erase(s, u) = A \o B
    BY <1>2 DEF Erase, RemoveAt, k
  <2> HIDE DEF A, B, n
  <2>4. \A i, j \in 1 .. n : s[i] = s[j] => i = j
    BY <2>2 DEF IsInjective
  <2>5. IsInjective(A)
    BY <2>2, <2>4 DEF IsInjective
  <2>6. IsInjective(B)
    <3>1. ASSUME NEW i \in 1 .. n - k, NEW j \in 1 .. n - k, B[i] = B[j]
          PROVE  i = j
      <4>1. k + i \in 1 .. n /\ k + j \in 1 .. n /\ s[k + i] = s[k + j]
        BY <2>2, <3>1
      <4>2. k + i = k + j
        BY <2>4, <4>1
      <4> QED BY <2>2, <4>2
    <3> QED BY <2>2, <3>1 DEF IsInjective
  <2>7. \A x : x \in Range(A) <=> \E i \in 1 .. k - 1 : x = s[i]
    BY <2>2 DEF Range
  <2>8. \A x : x \in Range(B) <=> \E i \in 1 .. n - k : x = s[k + i]
    BY <2>2 DEF Range
  <2>9. \A x : x \in Range(s) <=> \E i \in 1 .. n : x = s[i]
    BY <2>2 DEF Range
  <2>10. Range(A) \cap Range(B) = {}
    <3>1. ASSUME NEW i \in 1 .. k - 1, NEW j \in 1 .. n - k, s[i] = s[k + j]
          PROVE  FALSE
      <4>1. i \in 1 .. n /\ k + j \in 1 .. n /\ i # k + j
        BY <2>2
      <4> QED BY <2>4, <3>1, <4>1
    <3> QED BY <2>7, <2>8, <3>1
  <2>11. ASSUME NEW x \in Range(A) \cup Range(B) PROVE x \in Range(s) \ {u}
    <3>1. CASE x \in Range(A)
      <4>1. PICK i \in 1 .. k - 1 : x = s[i]
        BY <2>7, <3>1
      <4>2. i \in 1 .. n /\ i # k
        BY <2>2
      <4> QED BY <2>1, <2>2, <2>4, <2>9, <4>1, <4>2
    <3>2. CASE x \in Range(B)
      <4>1. PICK i \in 1 .. n - k : x = s[k + i]
        BY <2>8, <3>2
      <4>2. k + i \in 1 .. n /\ k + i # k
        BY <2>2
      <4> QED BY <2>1, <2>2, <2>4, <2>9, <4>1, <4>2
    <3> QED BY <2>11, <3>1, <3>2
  <2>12. ASSUME NEW x \in Range(s) \ {u} PROVE x \in Range(A) \cup Range(B)
    <3>1. PICK i \in 1 .. n : x = s[i]
      BY <2>9
    <3>2. i # k
      BY <2>1, <3>1
    <3>3. CASE i < k
      <4>1. i \in 1 .. k - 1
        BY <2>2, <3>3
      <4> QED BY <2>7, <3>1, <4>1
    <3>4. CASE ~(i < k)
      <4>1. i - k \in 1 .. n - k /\ k + (i - k) = i
        BY <2>2, <3>2, <3>4
      <4> QED BY <2>8, <3>1, <4>1
    <3> QED BY <3>3, <3>4
  <2>13. Range(A) \cup Range(B) = Range(s) \ {u}
    BY <2>11, <2>12
  <2> QED BY <2>2, <2>3, <2>5, <2>6, <2>10, <2>13, ConcatRange
<1> QED BY <1>1, <1>2

-----------------------------------------------------------------------------
(* The entries of a batch: whom it is about, and whom it will answer.      *)

UidsIn(s) == {e.uid : e \in Range(s)}
Final(s) == {e \in Range(s) : ~e.chunked}
Answering(s) == {e.uid : e \in Final(s)}
OncePerUid(s) ==
  IsInjective(s) /\ \A e, f \in Range(s) : e.uid = f.uid => e = f

LEMMA EntriesEmpty ==
  UidsIn(<<>>) = {} /\ Final(<<>>) = {} /\ Answering(<<>>) = {} /\ OncePerUid(<<>>)
BY RangeEmpty DEF UidsIn, Final, Answering, OncePerUid

LEMMA EntriesAppend ==
  ASSUME NEW s \in Seq(Entry), NEW e \in Entry
  PROVE  /\ Range(Append(s, e)) = Range(s) \cup {e}
         /\ UidsIn(Append(s, e)) = UidsIn(s) \cup {e.uid}
         /\ Final(Append(s, e)) = Final(s) \cup {f \in {e} : ~f.chunked}
         /\ Answering(Append(s, e)) =
              Answering(s) \cup {f.uid : f \in {f \in {e} : ~f.chunked}}
         /\ OncePerUid(s) /\ e.uid \notin UidsIn(s) => OncePerUid(Append(s, e))
<1>1. Range(Append(s, e)) = Range(s) \cup {e}
  BY RangeAppend
<1>2. OncePerUid(s) /\ e.uid \notin UidsIn(s) => OncePerUid(Append(s, e))
  <2> SUFFICES ASSUME OncePerUid(s), e.uid \notin UidsIn(s)
               PROVE  OncePerUid(Append(s, e))
    OBVIOUS
  <2>1. e \notin Range(s)
    BY DEF UidsIn
  <2>2. IsInjective(Append(s, e))
    BY <2>1, AppendKeepsInjective DEF OncePerUid
  <2> QED BY <1>1, <2>2 DEF OncePerUid, UidsIn
<1> QED BY <1>1, <1>2 DEF UidsIn, Final, Answering

LEMMA EntriesTail ==
  ASSUME NEW s \in Seq(Entry), s # <<>>
  PROVE  /\ Tail(s) \in Seq(Entry) /\ Head(s) \in Entry
         /\ Range(s) = {Head(s)} \cup Range(Tail(s))
         /\ UidsIn(s) = {Head(s).uid} \cup UidsIn(Tail(s))
         /\ Final(s) = Final(Tail(s)) \cup {f \in {Head(s)} : ~f.chunked}
         /\ Answering(s) =
              Answering(Tail(s)) \cup {f.uid : f \in {f \in {Head(s)} : ~f.chunked}}
         /\ OncePerUid(s) => OncePerUid(Tail(s)) /\ Head(s).uid \notin UidsIn(Tail(s))
<1>1. /\ Tail(s) \in Seq(Entry) /\ Head(s) \in Entry
      /\ Range(s) = {Head(s)} \cup Range(Tail(s))
      /\ IsInjective(s) => Head(s) \notin Range(Tail(s)) /\ IsInjective(Tail(s))
  BY HeadTail
<1>2. OncePerUid(s) => OncePerUid(Tail(s)) /\ Head(s).uid \notin UidsIn(Tail(s))
  BY <1>1 DEF OncePerUid, UidsIn
<1> QED BY <1>1, <1>2 DEF UidsIn, Final, Answering

LEMMA AnsweringIn == ASSUME NEW s PROVE Answering(s) \subseteq UidsIn(s)
BY DEF Answering, Final, UidsIn

\* the members of a list and the entries of a batch are of the workload
LEMMA RangeIn == ASSUME NEW S, NEW s \in Seq(S) PROVE Range(s) \subseteq S
BY RangeOfSeq

LEMMA UidsInUids == ASSUME NEW s \in Seq(Entry) PROVE UidsIn(s) \subseteq Uids
<1>1. Range(s) \subseteq Entry
  BY RangeIn
<1> QED BY <1>1 DEF UidsIn, Entry

-----------------------------------------------------------------------------
(* Where a request can be.                                                 *)

Waiting == Range(pending) \cup Range(chunks)

\* those whose client got the end of its answer, and the aborted ones
Gone == aborted \cup {u \in Uids : Finished(u)}

\* those a deferred action will free
Freeing == {a.uid : a \in {a \in Range(deferredActions) : a.finished}}

\* which lists are empty where the thread is
Phases ==
  /\ pc \in {"idle", "schedule", "process"} => batch = <<>>
  /\ pc \notin {"launch", "filter"} => launched = <<>>
  /\ pc \notin {"idle", "process"} => flight = <<>>
  /\ pc = "idle" => prev = <<>>
  /\ ~Overlap => flight = <<>> /\ (pc # "process" => prev = <<>>)
  /\ pc # "admit" => chunks = <<>>
  /\ Range(chunks) \subseteq Range(batch)
  /\ deferredActions # <<>> => pc \in {"idle", "schedule", "process"}

\* every list names a request once, and the steps of an admission or a launch
\* move it from one list to the next
Once ==
  /\ IsInjective(pending) /\ IsInjective(running) /\ IsInjective(chunks)
  /\ Range(pending) \cap Range(chunks) = {}
  /\ pc # "filter" => IsInjective(batch)
  /\ pc = "admit" => Range(batch) \cap Range(pending) = {}
  /\ pc = "launch" => Range(batch) \cap UidsIn(launched) = {}
  /\ OncePerUid(launched) /\ OncePerUid(flight) /\ OncePerUid(prev)

\* a request with a slot waits for its next chunk, or all of its prompt is
\* launched and it runs and is answered; never both
Apart ==
  /\ \A u \in Waiting : Holds(u) => req[u].chunked
  /\ \A u \in Range(running) : ~req[u].chunked
  /\ \A u \in Answering(launched) \cup Answering(flight) \cup Answering(prev) :
       ~req[u].chunked

\* nothing is done any more for a request that is gone, but for a batch in
\* flight whose answer is suppressed, once, and only what is gone is freed,
\* never under a forward in flight
Farewell ==
  /\ freed \cup suppressed \cup Freeing \subseteq Gone
  /\ Gone \subseteq submitted
  /\ Gone \cap (Waiting \cup Range(running) \cup Range(batch) \cup UidsIn(launched)) = {}
  /\ Gone \cap (Answering(flight) \cup Answering(prev)) \subseteq suppressed
  /\ suppressed \cap Answering(flight) \cap Answering(prev) = {}
  /\ freed \cap UidsIn(flight) = {}

LifeInv == Phases /\ Once /\ Apart /\ Farewell

LEMMA LifeInit == Init => LifeInv
<1> SUFFICES ASSUME Init PROVE LifeInv
  OBVIOUS
<1>1. Waiting = {} /\ Freeing = {}
  BY RangeEmpty DEF Init, Waiting, Freeing
<1>2. Gone = {}
  BY DEF Init, Gone, Finished
<1> QED BY <1>1, <1>2, RangeEmpty, EntriesEmpty
        DEF Init, LifeInv, Phases, Once, Apart, Farewell

-----------------------------------------------------------------------------
(* What the handling of a request does to its record, and to who is freed. *)

\* all but the handle of u is that of r, and nothing else changes
Becomes(u, r) ==
  /\ \A v \in Uids \ {u} : req'[v] = req[v]
  /\ req'[u].slot = r.slot /\ req'[u].ids = r.ids /\ req'[u].cached = r.cached
  /\ req'[u].device = r.device /\ req'[u].max = r.max
  /\ req'[u].chunked = r.chunked

LEMMA UpdateBecomes ==
  ASSUME DOMAIN req = Uids, NEW u \in Uids, NEW r, req' = [req EXCEPT ![u] = r]
  PROVE  Becomes(u, r)
BY DEF Becomes

LEMMA CacheReqBecomes ==
  ASSUME DOMAIN req = Uids, NEW u \in Uids, NEW r, NEW finished, IsReq(r),
         CacheReq(u, r, finished)
  PROVE  Becomes(u, r)
<1> DEFINE ids == Take(r.ids, r.cached)
           q == IF finished THEN r ELSE [r EXCEPT !.handle = ids]
<1>1. req' = [req EXCEPT ![u] = q]
  BY DEF CacheReq
<1> HIDE DEF ids
<1>2. /\ q.slot = r.slot /\ q.ids = r.ids /\ q.cached = r.cached
      /\ q.device = r.device /\ q.max = r.max /\ q.chunked = r.chunked
  BY DEF IsReq, NoReq
<1> HIDE DEF q
<1> QED BY <1>1, <1>2 DEF Becomes

LEMMA FreeBecomes ==
  ASSUME DOMAIN req = Uids, NEW u \in Uids, NEW r, IsReq(r), FreeReqResources(u, r)
  PROVE  Becomes(u, r) /\ freed' = freed \cup {u}
<1>1. CASE u \in freed
  BY <1>1, UpdateBecomes DEF FreeReqResources
<1>2. CASE u \notin freed
  BY <1>2, CacheReqBecomes DEF FreeReqResources
<1> QED BY <1>1, <1>2

LEMMA DeferredAppend ==
  ASSUME deferredActions \in Seq([uid : Uids, finished : BOOLEAN]),
         NEW u \in Uids, NEW finished \in BOOLEAN,
         deferredActions' = Append(deferredActions, [uid |-> u, finished |-> finished])
  PROVE  Freeing' = IF finished THEN Freeing \cup {u} ELSE Freeing
<1> DEFINE a == [uid |-> u, finished |-> finished]
           A == [uid : Uids, finished : BOOLEAN]
<1>1. a \in A /\ deferredActions \in Seq(A) /\ a.uid = u /\ a.finished = finished
      /\ deferredActions' = Append(deferredActions, a)
  OBVIOUS
<1> HIDE DEF a, A
<1>2. Range(deferredActions') = Range(deferredActions) \cup {a}
  BY <1>1, RangeAppend
<1> QED BY <1>1, <1>2 DEF Freeing

\* what process_forward_output does to the request it frees, now or later
LEMMA FreeOrDeferBecomes ==
  ASSUME ControlTypeOK, NEW u \in Uids, NEW r, IsReq(r), FreeReqResourcesOrDefer(u, r)
  PROVE  /\ Becomes(u, r)
         /\ \/ /\ freed' = freed \cup {u} /\ UNCHANGED deferredActions
               /\ ~MustDefer
            \/ UNCHANGED freed /\ Freeing' = Freeing \cup {u} /\ MustDefer
<1>1. CASE MustDefer
  <2>1. Defer(u, r, TRUE)
    BY <1>1 DEF FreeReqResourcesOrDefer
  <2>2. Becomes(u, r) /\ UNCHANGED freed
    BY <2>1, UpdateBecomes DEF Defer, ControlTypeOK
  <2>3. Freeing' = Freeing \cup {u}
    BY <2>1, DeferredAppend DEF Defer, ControlTypeOK
  <2> QED BY <1>1, <2>2, <2>3
<1>2. CASE ~MustDefer
  <2>1. FreeReqResources(u, r) /\ UNCHANGED deferredActions
    BY <1>2 DEF FreeReqResourcesOrDefer
  <2> QED BY <1>2, <2>1, FreeBecomes DEF ControlTypeOK
<1> QED BY <1>1, <1>2

LEMMA CacheOrDeferBecomes ==
  ASSUME ControlTypeOK, NEW u \in Uids, NEW r, IsReq(r), CacheReqOrDefer(u, r)
  PROVE  Becomes(u, r) /\ UNCHANGED <<freed, Freeing>>
<1>1. CASE MustDefer
  <2>1. Defer(u, r, FALSE)
    BY <1>1 DEF CacheReqOrDefer
  <2>2. Becomes(u, r) /\ UNCHANGED freed
    BY <2>1, UpdateBecomes DEF Defer, ControlTypeOK
  <2>3. Freeing' = Freeing
    BY <2>1, DeferredAppend DEF Defer, ControlTypeOK
  <2> QED BY <2>2, <2>3
<1>2. CASE ~MustDefer
  BY <1>2, CacheReqBecomes DEF CacheReqOrDefer, ControlTypeOK, Freeing
<1> QED BY <1>1, <1>2

LEMMA AppendedBecomes ==
  ASSUME SlotInv, Current.uid \in Uids
  PROVE  /\ Appended.slot = req[Current.uid].slot
         /\ Appended.cached = req[Current.uid].cached
         /\ Appended.device = req[Current.uid].device
         /\ Appended.max = req[Current.uid].max
         /\ Appended.chunked = req[Current.uid].chunked
         /\ Appended.ids = Append(req[Current.uid].ids, Current.token)
BY DEF SlotInv, ReqFields, IsReq, Appended, NoReq

\* a step that keeps slots and chunks of the requests
LEMMA SameChunks ==
  ASSUME NEW u \in Uids, NEW r, Becomes(u, r), r.slot = req[u].slot,
         r.chunked = req[u].chunked
  PROVE  \A v \in Uids : (Holds(v)' <=> Holds(v)) /\ req'[v].chunked = req[v].chunked
BY DEF Becomes, Holds

-----------------------------------------------------------------------------
(* The steps that do not handle a result.                                  *)

\* the variables of LifeInv but pc
lifeVars == <<pending, running, batch, chunks, launched, flight, prev, suppressed,
              freed, deferredActions, req, submitted, aborted, reply>>

LEMMA SameLife ==
  ASSUME LifeInv, UNCHANGED lifeVars, Phases',
         pc' # "filter" => pc # "filter" \/ batch = <<>>,
         pc' = "admit" => pc = "admit" \/ batch = <<>>,
         pc' = "launch" => pc = "launch" \/ launched = <<>>
  PROVE  LifeInv'
<1>1. Once'
  BY RangeEmpty, EntriesEmpty DEF LifeInv, Once, lifeVars
<1>2. Apart'
  BY DEF LifeInv, Apart, Waiting, Holds, lifeVars
<1>3. Farewell'
  BY DEF LifeInv, Farewell, Waiting, Freeing, Gone, Finished, lifeVars
<1> QED BY <1>1, <1>2, <1>3 DEF LifeInv

LEMMA QuietLife ==
  ASSUME LifeInv, BeginAdmission \/ Reclaim \/ EndStep \/ UNCHANGED vars
  PROVE  LifeInv'
<1> USE DEF queueVars, batchVars, deferVars, tableVars, clientVars, lifeVars
<1>1. CASE BeginAdmission
  <2>1. UNCHANGED lifeVars /\ pc' = "admit" /\ pc = "schedule" /\ deferredActions = <<>>
    BY <1>1 DEF BeginAdmission
  <2>2. Phases'
    BY <2>1 DEF LifeInv, Phases
  <2> QED BY <2>1, <2>2, SameLife DEF LifeInv, Phases
<1>2. CASE Reclaim
  <2>1. UNCHANGED lifeVars /\ pc' = "launch" /\ pc = "reclaim"
    BY <1>2 DEF Reclaim
  <2>2. Phases'
    BY <2>1 DEF LifeInv, Phases
  <2> QED BY <2>1, <2>2, SameLife DEF LifeInv, Phases
<1>3. CASE EndStep
  <2>1. UNCHANGED lifeVars /\ pc' = "idle" /\ pc = "process" /\ prev = <<>>
    BY <1>3 DEF EndStep
  <2>2. Phases'
    BY <2>1 DEF LifeInv, Phases
  <2> QED BY <2>1, <2>2, SameLife DEF LifeInv, Phases
<1>4. CASE UNCHANGED vars
  <2>1. UNCHANGED lifeVars /\ UNCHANGED pc
    BY <1>4 DEF vars
  <2>2. Phases'
    BY <2>1 DEF LifeInv, Phases
  <2> QED BY <2>1, <2>2, SameLife
<1> QED BY <1>1, <1>2, <1>3, <1>4

LEMMA BeginStepLife ==
  ASSUME LifeInv, BeginStep  PROVE LifeInv'
<1> USE DEF queueVars, batchVars, deferVars, tableVars, clientVars
<1>1. /\ pc = "idle" /\ pc' = "schedule" /\ prev' = flight /\ flight' = <<>>
      /\ UNCHANGED <<pending, running, batch, chunks, launched, suppressed, freed,
                     deferredActions, req, submitted, aborted, reply>>
  BY DEF BeginStep
<1>2. batch = <<>> /\ launched = <<>> /\ chunks = <<>> /\ (~Overlap => flight = <<>>)
  BY <1>1 DEF LifeInv, Phases
<1>3. Waiting' = Waiting /\ Gone' = Gone /\ Freeing' = Freeing
  BY <1>1 DEF Waiting, Gone, Freeing, Finished
<1>4. Phases'
  BY <1>1, <1>2 DEF LifeInv, Phases
<1>5. Once'
  BY <1>1, <1>2, EntriesEmpty DEF LifeInv, Once
<1>6. Apart'
  BY <1>1, <1>3, EntriesEmpty DEF LifeInv, Apart, Holds
<1>7. Farewell'
  BY <1>1, <1>3, EntriesEmpty DEF LifeInv, Farewell
<1> QED BY <1>4, <1>5, <1>6, <1>7 DEF LifeInv

LEMMA DecodeLife ==
  ASSUME ControlTypeOK, LifeInv, ScheduleBurst \/ ScheduleDecode
  PROVE  LifeInv'
<1> USE DEF queueVars, batchVars, deferVars, tableVars, clientVars
<1>1. /\ pc \in {"schedule", "admit"} /\ batch = <<>> /\ launched = <<>> /\ flight = <<>>
      /\ deferredActions = <<>>
      /\ UNCHANGED <<pending, running, chunks, launched, flight, prev, suppressed,
                     freed, deferredActions, req, submitted, aborted, reply>>
      /\ \/ batch' = running /\ pc' = "reclaim"
         \/ pc' = AfterLaunch /\ UNCHANGED batch
  BY DEF ScheduleBurst, ScheduleDecode, DecodeBatch, LifeInv, Phases
<1>2. Waiting' = Waiting /\ Gone' = Gone /\ Freeing' = Freeing
  BY <1>1 DEF Waiting, Gone, Freeing, Finished
<1>3. chunks = <<>>
  <2>1. Range(chunks) = {} \/ pc # "admit"
    BY <1>1, RangeEmpty DEF LifeInv, Phases
  <2>2. CASE pc # "admit"
    BY <2>2 DEF LifeInv, Phases
  <2>3. CASE Range(chunks) = {}
    BY <2>3, EmptyRange DEF ControlTypeOK
  <2> QED BY <2>1, <2>2, <2>3
<1>4. Phases'
  BY <1>1, <1>3, RangeEmpty DEF LifeInv, Phases, AfterLaunch
<1>5. Once'
  BY <1>1, <1>3, RangeEmpty, EntriesEmpty DEF LifeInv, Once, AfterLaunch
<1>6. Apart'
  BY <1>1, <1>2 DEF LifeInv, Apart, Holds
<1>7. Farewell'
  BY <1>1, <1>2 DEF LifeInv, Farewell
<1> QED BY <1>4, <1>5, <1>6, <1>7 DEF LifeInv

LEMMA SchedulePrefillLife ==
  ASSUME ControlTypeOK, LifeInv, SchedulePrefill  PROVE LifeInv'
<1> USE DEF queueVars, batchVars, deferVars, tableVars, clientVars
<1>1. /\ pc = "admit" /\ pc' = "reclaim" /\ pending' = chunks \o pending
      /\ chunks' = <<>>
      /\ UNCHANGED <<running, batch, launched, flight, prev, suppressed, freed,
                     deferredActions, req, submitted, aborted, reply>>
  BY DEF SchedulePrefill
<1>2. /\ Range(pending') = Range(chunks) \cup Range(pending)
      /\ IsInjective(pending')
  BY <1>1, ConcatRange DEF ControlTypeOK, LifeInv, Once
<1>3. Waiting' = Waiting /\ Gone' = Gone /\ Freeing' = Freeing
  BY <1>1, <1>2, RangeEmpty DEF Waiting, Gone, Freeing, Finished
<1>4. Phases'
  BY <1>1, RangeEmpty DEF LifeInv, Phases
<1>5. Once'
  BY <1>1, <1>2, RangeEmpty DEF LifeInv, Once
<1>6. Apart'
  BY <1>1, <1>3 DEF LifeInv, Apart, Holds
<1>7. Farewell'
  BY <1>1, <1>3 DEF LifeInv, Farewell
<1> QED BY <1>4, <1>5, <1>6, <1>7 DEF LifeInv

LEMMA ListsHold ==
  ASSUME SlotInv
  PROVE  /\ Range(batch) \cup Range(running) \subseteq Holders
         /\ UidsIn(launched) \cup UidsIn(flight) \cup UidsIn(prev) \subseteq Holders
         /\ Answering(launched) \cup Answering(flight) \cup Answering(prev)
              \subseteq Holders
         /\ Waiting \subseteq submitted
<1>1. /\ Range(batch) \cup Range(running) \subseteq Holders
      /\ Waiting \subseteq submitted
  BY DEF SlotInv, AllHold, AllSubmitted, Waiting, Range
<1>2. UidsIn(launched) \cup UidsIn(flight) \cup UidsIn(prev) \subseteq Holders
  BY DEF SlotInv, AllHold, UidsIn, Range
<1> QED BY <1>1, <1>2, AnsweringIn

\* a request that waits is neither running nor being answered
LEMMA WaitingApart ==
  ASSUME SlotInv, LifeInv, NEW u \in Waiting
  PROVE  /\ u \notin Range(running)
         /\ u \notin Answering(launched) \cup Answering(flight) \cup Answering(prev)
<1>1. /\ Holds(u) => req[u].chunked
      /\ u \in Range(running) => ~req[u].chunked
      /\ u \in Answering(launched) \cup Answering(flight) \cup Answering(prev)
           => ~req[u].chunked
  BY DEF LifeInv, Apart
<1>2. /\ u \in Range(running) => Holds(u)
      /\ u \in Answering(launched) \cup Answering(flight) \cup Answering(prev)
           => Holds(u)
  BY ListsHold DEF Holders
<1> QED BY <1>1, <1>2

\* the first request of pending_list_ goes from there to the batch, and to the
\* chunked ones
LEMMA AddMoves ==
  ASSUME SlotInv, LifeInv, pc = "admit", pending # <<>>, NEW r,
         Add(Head(pending), r)
  PROVE  LET u == Head(pending) IN
         /\ u \in Uids /\ u \in Waiting /\ u \notin Range(pending')
         /\ Range(pending) = {u} \cup Range(pending')
         /\ Range(batch') = Range(batch) \cup {u}
         /\ Range(chunks') = IF r.chunked THEN Range(chunks) \cup {u} ELSE Range(chunks)
         /\ IsInjective(pending') /\ IsInjective(batch') /\ IsInjective(chunks')
         /\ UNCHANGED <<pc, running, launched, flight, prev, suppressed, freed,
                        deferredActions, submitted, aborted, reply>>
         /\ req' = [req EXCEPT ![u] = r]
<1> DEFINE u == Head(pending)
<1>1. /\ pending' = Tail(pending)
      /\ batch' = Append(batch, u)
      /\ chunks' = IF r.chunked THEN Append(chunks, u) ELSE chunks
      /\ UNCHANGED <<pc, running, launched, flight, prev, suppressed, freed,
                     deferredActions, submitted, aborted, reply>>
      /\ req' = [req EXCEPT ![u] = r]
  BY DEF Add, deferVars, clientVars
<1>2. /\ pending \in Seq(Uids) /\ batch \in Seq(Uids) /\ chunks \in Seq(Uids)
      /\ IsInjective(pending) /\ IsInjective(batch) /\ IsInjective(chunks)
      /\ Range(pending) \cap Range(chunks) = {} /\ Range(batch) \cap Range(pending) = {}
  BY DEF SlotInv, ControlTypeOK, LifeInv, Once
<1>3. /\ Range(pending) = {u} \cup Range(pending') /\ u \in Uids
      /\ u \notin Range(pending') /\ IsInjective(pending')
  BY <1>1, <1>2, HeadTail
<1>4. u \notin Range(batch) /\ u \notin Range(chunks) /\ u \in Waiting
  BY <1>2, <1>3 DEF Waiting
<1> HIDE DEF u
<1>5. Range(batch') = Range(batch) \cup {u} /\ IsInjective(batch')
  BY <1>1, <1>2, <1>3, <1>4, RangeAppend, AppendKeepsInjective
<1>6. /\ Range(chunks') = IF r.chunked THEN Range(chunks) \cup {u} ELSE Range(chunks)
      /\ IsInjective(chunks')
  <2>1. CASE r.chunked
    BY <2>1, <1>1, <1>2, <1>3, <1>4, RangeAppend, AppendKeepsInjective
  <2>2. CASE ~r.chunked
    BY <2>2, <1>1, <1>2
  <2> QED BY <2>1, <2>2
<1> QED BY <1>1, <1>3, <1>4, <1>5, <1>6 DEF u

LEMMA AddLife ==
  ASSUME SlotInv, LifeInv, pc = "admit", pending # <<>>, NEW r, r.chunked \in BOOLEAN,
         Add(Head(pending), r)
  PROVE  LifeInv'
<1> DEFINE u == Head(pending)
<1>1. /\ u \in Uids /\ u \in Waiting /\ u \notin Range(pending')
      /\ Range(pending) = {u} \cup Range(pending')
      /\ Range(batch') = Range(batch) \cup {u}
      /\ Range(chunks') = IF r.chunked THEN Range(chunks) \cup {u} ELSE Range(chunks)
      /\ IsInjective(pending') /\ IsInjective(batch') /\ IsInjective(chunks')
      /\ UNCHANGED <<pc, running, launched, flight, prev, suppressed, freed,
                     deferredActions, submitted, aborted, reply>>
      /\ req' = [req EXCEPT ![u] = r]
  BY AddMoves
<1> HIDE DEF u
<1>2. Gone' = Gone /\ Freeing' = Freeing
  BY <1>1 DEF Gone, Freeing, Finished
<1>3. /\ Waiting' = IF r.chunked THEN Waiting ELSE Waiting \ {u}
  <2>1. u \notin Range(chunks)
    BY <1>1 DEF LifeInv, Once
  <2> QED BY <1>1, <2>1 DEF Waiting
<1>4. /\ u \notin Range(running)
      /\ u \notin Answering(launched) \cup Answering(flight) \cup Answering(prev)
  BY <1>1, WaitingApart
<1>5. /\ \A v \in Uids \ {u} : req'[v] = req[v]
      /\ req'[u] = r
  BY <1>1 DEF SlotInv, ControlTypeOK
<1>6. Phases'
  BY <1>1 DEF LifeInv, Phases
<1>7. Once'
  BY <1>1 DEF LifeInv, Once
<1>8. Apart'
  <2>1. \A v \in Waiting' : Holds(v)' => req'[v].chunked
    <3> SUFFICES ASSUME NEW v \in Waiting', Holds(v)'  PROVE req'[v].chunked
      OBVIOUS
    <3>1. CASE v = u
      BY <3>1, <1>3, <1>5
    <3>2. CASE v # u
      <4>1. v \in Waiting /\ v \in Uids
        BY <1>3, <3>2, ListsHold DEF SlotInv, ControlTypeOK
      <4> QED BY <4>1, <3>2, <1>5 DEF Holds, LifeInv, Apart
    <3> QED BY <3>1, <3>2
  <2>2. /\ Range(running) \subseteq Uids
        /\ Answering(launched) \cup Answering(flight) \cup Answering(prev)
             \subseteq Uids
    BY ListsHold DEF Holders
  <2> QED BY <2>1, <2>2, <1>1, <1>4, <1>5 DEF LifeInv, Apart
<1>9. Farewell'
  BY <1>1, <1>2, <1>3 DEF LifeInv, Farewell
<1> QED BY <1>6, <1>7, <1>8, <1>9 DEF LifeInv

LEMMA AdmitLife ==
  ASSUME SlotInv, LifeInv, AdmitChunk \/ AdmitNew  PROVE LifeInv'
<1>1. /\ pc = "admit" /\ pending # <<>>
      /\ \E r : IsReq(r) /\ Add(Head(pending), r)
  BY NextReqIsReq DEF AdmitChunk, AdmitNew
<1> QED BY <1>1, AddLife DEF IsReq

-----------------------------------------------------------------------------
(* A batch is launched.                                                    *)

\* what the launch of the first request of the batch does to the lists
LEMMA LaunchMoves ==
  ASSUME SlotInv, LifeInv, LaunchOne
  PROVE  LET u == Head(batch)
             r == req[u] IN
         /\ u \in Holders /\ u \in Uids
         /\ Range(batch) = {u} \cup Range(batch') /\ u \notin Range(batch')
         /\ IsInjective(batch')
         /\ req' = [req EXCEPT ![u] = CompleteOne(r)]
         /\ \E e \in Entry :
              /\ e.uid = u /\ e.chunked = r.chunked
              /\ e.canDecode = CanDecode(CompleteOne(r))
              /\ (~CanDecode(r) => UNCHANGED tokenRow)
              /\ (CanDecode(r) => tokenRow' = [tokenRow EXCEPT ![r.slot] =
                                     Append(SubSeq(@, 1, r.device), e.token)])
              /\ launched' = Append(launched, e)
         /\ pc = "launch"
         /\ UNCHANGED <<pc, pending, running, chunks, flight, prev, suppressed,
                        freed, deferredActions, submitted, aborted, reply>>
<1> DEFINE u == Head(batch)
           r == req[u]
<1>1. /\ pc = "launch" /\ batch # <<>> /\ batch' = Tail(batch)
      /\ req' = [req EXCEPT ![u] = CompleteOne(r)]
      /\ UNCHANGED <<pc, pending, running, chunks, flight, prev, suppressed,
                     freed, deferredActions, submitted, aborted, reply>>
  BY DEF LaunchOne, queueVars, deferVars, clientVars
<1>2. batch \in Seq(Uids) /\ IsInjective(batch)
  BY <1>1 DEF SlotInv, ControlTypeOK, LifeInv, Once
<1>3. /\ Range(batch) = {u} \cup Range(batch') /\ u \notin Range(batch')
      /\ IsInjective(batch') /\ u \in Uids
  BY <1>1, <1>2, HeadTail
<1>4. u \in Holders
  BY <1>3, ListsHold
<1>5. PICK t \in IF r.chunked THEN {EOS} ELSE Sampled :
        /\ tokenRow' = IF CanDecode(r)
                       THEN [tokenRow EXCEPT ![r.slot] =
                               Append(SubSeq(@, 1, r.device), t)]
                       ELSE tokenRow
        /\ launched' = Append(launched,
             [uid |-> u, prefill |-> prefill, chunked |-> r.chunked,
              canDecode |-> CanDecode(CompleteOne(r)), token |-> t])
  BY DEF LaunchOne
<1> DEFINE e == [uid |-> u, prefill |-> prefill, chunked |-> r.chunked,
                 canDecode |-> CanDecode(CompleteOne(r)), token |-> t]
<1>6. e \in Entry
  <2>1. r.chunked \in BOOLEAN /\ prefill \in BOOLEAN /\ t \in Tokens
    BY <1>3, SchedulerAssumption DEF SlotInv, ReqFields, IsReq, ControlTypeOK
  <2>2. CanDecode(CompleteOne(r)) \in BOOLEAN
    BY DEF CanDecode
  <2> QED BY <1>3, <2>1, <2>2 DEF Entry
<1>7. /\ e.uid = u /\ e.chunked = r.chunked
      /\ e.canDecode = CanDecode(CompleteOne(r)) /\ e.token = t
      /\ launched' = Append(launched, e)
  BY <1>5
<1> HIDE DEF e, u, r
<1>8. \E f \in Entry :
        /\ f.uid = u /\ f.chunked = r.chunked
        /\ f.canDecode = CanDecode(CompleteOne(r))
        /\ (~CanDecode(r) => UNCHANGED tokenRow)
        /\ (CanDecode(r) => tokenRow' = [tokenRow EXCEPT ![r.slot] =
                               Append(SubSeq(@, 1, r.device), f.token)])
        /\ launched' = Append(launched, f)
  BY <1>5, <1>6, <1>7
<1> QED BY <1>1, <1>3, <1>4, <1>8 DEF u, r

LEMMA CompleteOneKeeps ==
  ASSUME NEW r, IsReq(r)
  PROVE  /\ CompleteOne(r).slot = r.slot /\ CompleteOne(r).chunked = r.chunked
         /\ CompleteOne(r).cached = r.device /\ CompleteOne(r).max = r.max
         /\ CompleteOne(r).ids = r.ids
         /\ CompleteOne(r).device = IF r.device < r.max THEN r.device + 1 ELSE r.device
BY DEF CompleteOne, IsReq, NoReq

LEMMA LaunchLife ==
  ASSUME SlotInv, LifeInv, LaunchOne  PROVE LifeInv'
<1> DEFINE u == Head(batch)
           r == CompleteOne(req[u])
<1>1. /\ u \in Holders /\ u \in Uids
      /\ Range(batch) = {u} \cup Range(batch') /\ u \notin Range(batch')
      /\ IsInjective(batch')
      /\ req' = [req EXCEPT ![u] = r]
      /\ pc = "launch"
      /\ UNCHANGED <<pc, pending, running, chunks, flight, prev, suppressed,
                     freed, deferredActions, submitted, aborted, reply>>
      /\ \E e \in Entry : /\ e.uid = u /\ e.chunked = req[u].chunked
                          /\ launched' = Append(launched, e)
  BY LaunchMoves
<1>2. IsReq(req[u])
  BY <1>1 DEF SlotInv, ReqFields
<1>3. r.slot = req[u].slot /\ r.chunked = req[u].chunked
  BY <1>2, CompleteOneKeeps
<1> HIDE DEF u, r
<1>4. PICK e \in Entry : e.uid = u /\ e.chunked = req[u].chunked
                         /\ launched' = Append(launched, e)
  BY <1>1
<1>5. \A v \in Uids : (Holds(v)' <=> Holds(v)) /\ req'[v].chunked = req[v].chunked
  <2>1. Becomes(u, r)
    BY <1>1, UpdateBecomes DEF SlotInv, ControlTypeOK
  <2> QED BY <1>1, <1>3, <2>1, SameChunks
<1>6. Waiting' = Waiting /\ Gone' = Gone /\ Freeing' = Freeing
  BY <1>1 DEF Waiting, Gone, Freeing, Finished
<1>7. u \notin UidsIn(launched)
  BY <1>1 DEF LifeInv, Once
<1>8. /\ UidsIn(launched') = UidsIn(launched) \cup {u}
      /\ Answering(launched') = IF req[u].chunked THEN Answering(launched)
                                ELSE Answering(launched) \cup {u}
      /\ OncePerUid(launched')
  <2>1. launched \in Seq(Entry) /\ OncePerUid(launched)
    BY DEF SlotInv, ControlTypeOK, LifeInv, Once
  <2>2. /\ UidsIn(launched') = UidsIn(launched) \cup {u}
        /\ Answering(launched') =
             Answering(launched) \cup {f.uid : f \in {f \in {e} : ~f.chunked}}
        /\ OncePerUid(launched')
    BY <1>4, <1>7, <2>1, EntriesAppend
  <2> QED BY <1>4, <2>2
<1>9. chunks = <<>>
  BY <1>1 DEF LifeInv, Phases
<1>10. Phases'
  BY <1>1, <1>9, RangeEmpty DEF LifeInv, Phases
<1>11. Once'
  BY <1>1, <1>7, <1>8 DEF LifeInv, Once
<1>12. Apart'
  <2>1. Waiting \subseteq Uids /\ Range(running) \subseteq Uids
        /\ Answering(launched') \cup Answering(flight) \cup Answering(prev) \subseteq Uids
    BY <1>1, <1>8, ListsHold DEF Holders, SlotInv, ControlTypeOK
  <2> QED BY <1>1, <1>5, <1>6, <1>8, <2>1 DEF LifeInv, Apart
<1>13. Farewell'
  BY <1>1, <1>6, <1>8 DEF LifeInv, Farewell
<1> QED BY <1>10, <1>11, <1>12, <1>13 DEF LifeInv

LEMMA BeginFilterLife ==
  ASSUME SlotInv, LifeInv, BeginFilter  PROVE LifeInv'
<1> DEFINE uids == [i \in DOMAIN launched |-> launched[i].uid]
<1>1. /\ pc = "launch" /\ pc' = "filter" /\ batch = <<>>
      /\ batch' = running \o uids /\ running' = <<>>
      /\ UNCHANGED <<pending, chunks, launched, flight, prev, suppressed, freed,
                     deferredActions, req, submitted, aborted, reply>>
  BY DEF BeginFilter, deferVars, clientVars
<1>2. launched \in Seq(Entry) /\ running \in Seq(Uids)
  BY DEF SlotInv, ControlTypeOK
<1>3. uids \in Seq(Uids) /\ Range(uids) = UidsIn(launched)
  <2>1. \A i \in DOMAIN launched : launched[i].uid \in Uids
    BY ListsHold DEF UidsIn, Range, Holders
  <2>2. uids \in Seq(Uids)
    BY <1>2, <2>1
  <2> QED BY <2>2 DEF Range, UidsIn
<1> HIDE DEF uids
<1>4. Range(batch') = Range(running) \cup UidsIn(launched)
  BY <1>1, <1>2, <1>3, ConcatRange
<1>5. Waiting' = Waiting /\ Gone' = Gone /\ Freeing' = Freeing
  BY <1>1 DEF Waiting, Gone, Freeing, Finished
<1>6. chunks = <<>>
  BY <1>1 DEF LifeInv, Phases
<1>7. Phases'
  BY <1>1, <1>6, RangeEmpty DEF LifeInv, Phases
<1>8. Once'
  BY <1>1, RangeEmpty DEF LifeInv, Once
<1>9. Apart'
  BY <1>1, <1>5, RangeEmpty DEF LifeInv, Apart, Holds
<1>10. Farewell'
  BY <1>1, <1>4, <1>5, RangeEmpty DEF LifeInv, Farewell
<1> QED BY <1>7, <1>8, <1>9, <1>10 DEF LifeInv

LEMMA FilterMoves ==
  ASSUME SlotInv, LifeInv, FilterOne
  PROVE  LET u == Head(batch) IN
         /\ u \in Uids /\ Range(batch) = {u} \cup Range(batch')
         /\ Range(running') = IF CanDecode(req[u]) THEN Range(running) \cup {u}
                              ELSE Range(running)
         /\ IsInjective(running')
         /\ pc = "filter"
         /\ UNCHANGED <<pc, pending, chunks, launched, flight, prev, suppressed,
                        freed, deferredActions, req, submitted, aborted, reply>>
<1> DEFINE u == Head(batch)
<1>1. /\ pc = "filter" /\ batch # <<>> /\ batch' = Tail(batch)
      /\ running' = IF CanDecode(req[u]) /\ ~Contains(running, u)
                    THEN Append(running, u) ELSE running
      /\ UNCHANGED <<pc, pending, chunks, launched, flight, prev, suppressed,
                     freed, deferredActions, req, submitted, aborted, reply>>
  BY DEF FilterOne, deferVars, clientVars
<1>2. batch \in Seq(Uids) /\ running \in Seq(Uids) /\ IsInjective(running)
  BY DEF SlotInv, ControlTypeOK, LifeInv, Once
<1>3. u \in Uids /\ Range(batch) = {u} \cup Range(batch')
  BY <1>1, <1>2, HeadTail
<1>4. Contains(running, u) <=> u \in Range(running)
  BY DEF Contains, Range
<1> HIDE DEF u
<1>5. /\ Range(running') = IF CanDecode(req[u]) THEN Range(running) \cup {u}
                           ELSE Range(running)
      /\ IsInjective(running')
  <2>1. CASE CanDecode(req[u]) /\ ~Contains(running, u)
    BY <2>1, <1>1, <1>2, <1>3, <1>4, RangeAppend, AppendKeepsInjective
  <2>2. CASE ~(CanDecode(req[u]) /\ ~Contains(running, u))
    BY <2>2, <1>1, <1>2, <1>4
  <2> QED BY <2>1, <2>2
<1> QED BY <1>1, <1>3, <1>5 DEF u

LEMMA FilterLife ==
  ASSUME SlotInv, LifeInv, FilterOne  PROVE LifeInv'
<1> DEFINE u == Head(batch)
<1>1. /\ u \in Uids /\ Range(batch) = {u} \cup Range(batch')
      /\ Range(running') = IF CanDecode(req[u]) THEN Range(running) \cup {u}
                           ELSE Range(running)
      /\ IsInjective(running') /\ pc = "filter"
      /\ UNCHANGED <<pc, pending, chunks, launched, flight, prev, suppressed,
                     freed, deferredActions, req, submitted, aborted, reply>>
  BY FilterMoves
<1> HIDE DEF u
<1>2. Waiting' = Waiting /\ Gone' = Gone /\ Freeing' = Freeing
  BY <1>1 DEF Waiting, Gone, Freeing, Finished
<1>3. chunks = <<>>
  BY <1>1 DEF LifeInv, Phases
<1>4. Phases'
  BY <1>1, <1>3, RangeEmpty DEF LifeInv, Phases
<1>5. Once'
  BY <1>1 DEF LifeInv, Once
<1>6. Apart'
  BY <1>1, <1>2 DEF LifeInv, Apart, Holds, CanDecode
<1>7. Farewell'
  BY <1>1, <1>2 DEF LifeInv, Farewell
<1> QED BY <1>4, <1>5, <1>6, <1>7 DEF LifeInv

LEMMA EndLaunchLife ==
  ASSUME SlotInv, LifeInv, EndLaunch  PROVE LifeInv'
<1>1. /\ pc = "filter" /\ batch = <<>> /\ launched' = <<>> /\ flight = <<>>
      /\ \/ /\ Overlap /\ flight' = launched /\ pc' = AfterLaunch /\ UNCHANGED prev
         \/ /\ ~Overlap /\ prev' = launched /\ pc' = "process" /\ UNCHANGED flight
            /\ prev = <<>>
      /\ UNCHANGED <<pending, running, batch, chunks, suppressed, freed,
                     deferredActions, req, submitted, aborted, reply>>
  BY DEF EndLaunch, LifeInv, Phases, queueVars, deferVars, clientVars
<1>2. Waiting' = Waiting /\ Gone' = Gone /\ Freeing' = Freeing
  BY <1>1 DEF Waiting, Gone, Freeing, Finished
<1>3. chunks = <<>>
  BY <1>1 DEF LifeInv, Phases
<1>4. Phases'
  BY <1>1, <1>3, RangeEmpty DEF LifeInv, Phases, AfterLaunch
<1>5. Once'
  BY <1>1, <1>3, RangeEmpty, EntriesEmpty DEF LifeInv, Once, AfterLaunch
<1>6. Answering(launched) \subseteq UidsIn(launched)
  BY AnsweringIn
<1>7. Apart'
  BY <1>1, <1>2, EntriesEmpty DEF LifeInv, Apart, Holds
<1>8. Farewell'
  BY <1>1, <1>2, <1>6, EntriesEmpty DEF LifeInv, Farewell
<1> QED BY <1>4, <1>5, <1>7, <1>8 DEF LifeInv

-----------------------------------------------------------------------------
(* A result is processed.                                                  *)

\* the entry whose turn it is leaves the batch being processed
LEMMA ProcessMoves ==
  ASSUME SlotInv, LifeInv, Process
  PROVE  /\ Current \in Entry /\ Current.uid \in Uids /\ Current.uid \in Holders
         /\ Range(prev) = {Current} \cup Range(prev')
         /\ UidsIn(prev) = {Current.uid} \cup UidsIn(prev')
         /\ Answering(prev) = IF Current.chunked THEN Answering(prev')
                              ELSE {Current.uid} \cup Answering(prev')
         /\ OncePerUid(prev') /\ Current.uid \notin UidsIn(prev')
         /\ pc = "process" /\ batch = <<>> /\ launched = <<>> /\ chunks = <<>>
<1>1. /\ pc = "process" /\ prev # <<>> /\ prev' = Tail(prev)
  BY DEF Process
<1>2. prev \in Seq(Entry) /\ OncePerUid(prev)
  BY DEF SlotInv, ControlTypeOK, LifeInv, Once
<1>3. /\ Current \in Entry
      /\ Range(prev) = {Current} \cup Range(prev')
      /\ UidsIn(prev) = {Current.uid} \cup UidsIn(prev')
      /\ Answering(prev) = Answering(prev') \cup {f.uid : f \in {f \in {Current} : ~f.chunked}}
      /\ OncePerUid(prev') /\ Current.uid \notin UidsIn(prev')
  BY <1>1, <1>2, EntriesTail DEF Current
<1>4. Current.uid \in Holders
  BY <1>3, ListsHold
<1>5. Answering(prev) = IF Current.chunked THEN Answering(prev')
                        ELSE {Current.uid} \cup Answering(prev')
  BY <1>3
<1>6. batch = <<>> /\ launched = <<>> /\ chunks = <<>>
  BY <1>1 DEF LifeInv, Phases
<1>7. Current.uid \in Uids
  BY <1>4 DEF Holders
<1> QED BY <1>1, <1>3, <1>4, <1>5, <1>6, <1>7

LEMMA SkipChunkLife ==
  ASSUME SlotInv, LifeInv, SkipChunk  PROVE LifeInv'
<1>1. /\ Process /\ Current.chunked
      /\ UNCHANGED <<pc, pending, running, batch, chunks, launched, flight,
                     suppressed, freed, deferredActions, req, submitted, aborted, reply>>
  BY DEF SkipChunk, queueVars, batchVars, deferVars, clientVars
<1>2. /\ Answering(prev') = Answering(prev) /\ OncePerUid(prev') /\ pc = "process"
  BY <1>1, ProcessMoves
<1>3. Waiting' = Waiting /\ Gone' = Gone /\ Freeing' = Freeing
  BY <1>1 DEF Waiting, Gone, Freeing, Finished
<1>4. Phases'
  BY <1>1, <1>2 DEF LifeInv, Phases
<1>5. Once'
  BY <1>1, <1>2 DEF LifeInv, Once
<1>6. Apart'
  BY <1>1, <1>2, <1>3 DEF LifeInv, Apart, Holds
<1>7. Farewell'
  BY <1>1, <1>2, <1>3 DEF LifeInv, Farewell
<1> QED BY <1>4, <1>5, <1>6, <1>7 DEF LifeInv

\* what handling an answer for u may do: u leaves prev for good, and if it is
\* gone then, the running requests
LEMMA AnswerLife ==
  ASSUME SlotInv, LifeInv, Process, ~Current.chunked,
         NEW r, Becomes(Current.uid, r), r.slot = req[Current.uid].slot,
         r.chunked = req[Current.uid].chunked,
         Gone \subseteq Gone', Gone' \subseteq Gone \cup {Current.uid},
         freed' \subseteq freed \cup {Current.uid},
         Freeing' \subseteq Freeing \cup {Current.uid},
         suppressed' \ {Current.uid} = suppressed \ {Current.uid},
         \/ freed' = freed /\ Freeing' = Freeing /\ suppressed' \subseteq suppressed
         \/ Current.uid \in Gone',
         Current.uid \in freed' => Current.uid \notin UidsIn(flight),
         Current.uid \in Gone' =>
           /\ Current.uid \notin Range(running')
           /\ Current.uid \in Answering(flight) => Current.uid \in suppressed',
         IsInjective(running'), Range(running') \subseteq Range(running),
         UNCHANGED <<pc, pending, batch, chunks, launched, flight, submitted>>
  PROVE  LifeInv'
<1> DEFINE u == Current.uid
<1>1. /\ u \in Uids /\ u \in Holders
      /\ Answering(prev) = {u} \cup Answering(prev')
      /\ OncePerUid(prev') /\ u \notin UidsIn(prev')
      /\ pc = "process" /\ batch = <<>> /\ launched = <<>> /\ chunks = <<>>
  BY ProcessMoves
<1>2. u \notin Answering(prev')
  BY <1>1, AnsweringIn
<1>3. ~req[u].chunked
  BY <1>1 DEF LifeInv, Apart
<1>4. u \notin Waiting
  BY <1>1, <1>3 DEF LifeInv, Apart, Holders
<1>5. u \in submitted
  BY <1>1 DEF SlotInv, AllSubmitted
<1>6. \A v \in Uids : (Holds(v)' <=> Holds(v)) /\ req'[v].chunked = req[v].chunked
  BY <1>1, SameChunks
<1> HIDE DEF u
<1>7. Waiting' = Waiting
  BY DEF Waiting
<1>8. Phases'
  <2>1. deferredActions' # <<>> => pc \in {"idle", "schedule", "process"}
    BY <1>1
  <2> QED BY <1>1, <2>1 DEF LifeInv, Phases
<1>9. Once'
  BY <1>1 DEF LifeInv, Once
<1>10. Apart'
  <2>1. Waiting \subseteq Uids /\ Range(running') \subseteq Uids
        /\ Answering(launched) \cup Answering(flight) \cup Answering(prev') \subseteq Uids
    BY <1>1, ListsHold DEF Holders, SlotInv, ControlTypeOK
  <2> QED BY <1>1, <1>6, <1>7, <2>1 DEF LifeInv, Apart
<1>11. Farewell'
  <2>1. freed' \cup suppressed' \cup Freeing' \subseteq Gone'
    <3>1. freed \cup suppressed \cup Freeing \subseteq Gone
      BY DEF LifeInv, Farewell
    <3> QED BY <3>1 DEF u
  <2>2. Gone' \subseteq submitted
    BY <1>5 DEF LifeInv, Farewell, u
  <2>3. Gone' \cap (Waiting' \cup Range(running') \cup Range(batch) \cup UidsIn(launched)) = {}
    BY <1>1, <1>4, <1>7, RangeEmpty, EntriesEmpty DEF LifeInv, Farewell, u
  <2>4. Gone' \cap (Answering(flight) \cup Answering(prev')) \subseteq suppressed'
    BY <1>1, <1>2 DEF LifeInv, Farewell, u
  <2>5. suppressed' \cap Answering(flight) \cap Answering(prev') = {}
    BY <1>1, <1>2 DEF LifeInv, Farewell, u
  <2>6. freed' \cap UidsIn(flight) = {}
    BY DEF LifeInv, Farewell, u
  <2> QED BY <2>1, <2>2, <2>3, <2>4, <2>5, <2>6 DEF Farewell
<1> QED BY <1>8, <1>9, <1>10, <1>11 DEF LifeInv

\* nothing is put off when no forward is in flight
LEMMA NoDefer ==
  ASSUME LifeInv, ~MustDefer  PROVE flight = <<>> /\ UidsIn(flight) = {}
BY EntriesEmpty DEF LifeInv, Phases, MustDefer

LEMMA UsesFlight == \A u : PendingUses(u) <=> u \in UidsIn(flight)
BY DEF PendingUses, UidsIn, Range

LEMMA ReleaseLife ==
  ASSUME SlotInv, LifeInv, ReleaseSuppressed  PROVE LifeInv'
<1> DEFINE u == Current.uid
<1>1. /\ Process /\ ~Current.chunked /\ u \in suppressed
      /\ suppressed' = suppressed \ {u}
      /\ IF u \in deferredFree THEN FreeReqResourcesOrDefer(u, req[u])
         ELSE UNCHANGED <<freed, deferredActions, req, freeSlots, cacheVars>>
      /\ UNCHANGED <<pc, pending, running, batch, chunks, launched, flight,
                     submitted, aborted, reply>>
  BY DEF ReleaseSuppressed, queueVars, batchVars, clientVars
<1>2. u \in Uids /\ u \in Answering(prev)
  BY <1>1, ProcessMoves
<1>3. u \in Gone /\ u \notin Answering(flight) /\ u \notin Range(running)
  BY <1>1, <1>2 DEF LifeInv, Farewell
<1>4. IsReq(req[u])
  BY <1>2 DEF SlotInv, ReqFields
<1>5. /\ Becomes(u, req[u])
      /\ freed' \subseteq freed \cup {u} /\ Freeing' \subseteq Freeing \cup {u}
      /\ u \in freed' => u \notin UidsIn(flight)
  <2>1. CASE u \in deferredFree
    <3>1. FreeReqResourcesOrDefer(u, req[u])
      BY <1>1, <2>1
    <3>2. Becomes(u, req[u])
          /\ \/ freed' = freed \cup {u} /\ UNCHANGED deferredActions /\ ~MustDefer
             \/ UNCHANGED freed /\ Freeing' = Freeing \cup {u} /\ MustDefer
      BY <1>2, <1>4, <3>1, FreeOrDeferBecomes DEF SlotInv
    <3>3. CASE freed' = freed \cup {u} /\ UNCHANGED deferredActions /\ ~MustDefer
      BY <3>2, <3>3, NoDefer DEF Freeing
    <3>4. CASE UNCHANGED freed /\ Freeing' = Freeing \cup {u}
      BY <3>2, <3>4 DEF LifeInv, Farewell
    <3> QED BY <3>2, <3>3, <3>4
  <2>2. CASE u \notin deferredFree
    <3>1. UNCHANGED <<freed, deferredActions, req>>
      BY <1>1, <2>2
    <3> QED BY <3>1 DEF Becomes, Freeing, LifeInv, Farewell
  <2> QED BY <2>1, <2>2
<1>6. Gone' = Gone
  BY <1>1 DEF Gone, Finished
<1>7. IsInjective(running)
  BY DEF LifeInv, Once
<1> QED BY <1>1, <1>2, <1>3, <1>4, <1>5, <1>6, <1>7, AnswerLife DEF IsReq

\* what the clients were sent is a list of tokens and a mark for each request
Replies == reply \in [Uids -> [tokens : Seq(Tokens), finished : BOOLEAN]]

\* what the delivery of a token does to the replies
LEMMA DeliverMoves ==
  ASSUME SlotInv, Replies, LifeInv, NEW finished \in BOOLEAN, Deliver(finished)
  PROVE  LET u == Current.uid IN
         /\ Process /\ ~Current.chunked /\ u \notin suppressed /\ u \in Uids
         /\ u \notin Gone
         /\ finished = (\/ ~Current.canDecode
                        \/ ~IgnoreEos[u] /\ Current.token = EOS)
         /\ reply'[u].tokens = Append(reply[u].tokens, Current.token)
         /\ reply'[u].finished = finished
         /\ \A v \in Uids \ {u} : reply'[v] = reply[v]
         /\ Gone' = IF finished THEN Gone \cup {u} ELSE Gone
         /\ Replies'
         /\ UNCHANGED <<pc, pending, batch, chunks, launched, flight, submitted, aborted>>
<1> DEFINE u == Current.uid
           x == [tokens |-> Append(reply[u].tokens, Current.token),
                 finished |-> finished]
<1>1. /\ Process /\ ~Current.chunked /\ u \notin suppressed
      /\ finished = (\/ ~Current.canDecode
                     \/ ~IgnoreEos[u] /\ Current.token = EOS)
      /\ reply' = [reply EXCEPT ![u] = x]
      /\ UNCHANGED <<pc, pending, batch, chunks, launched, flight, submitted, aborted>>
  BY DEF Deliver, batchVars
<1>2. u \in Uids /\ Current \in Entry /\ u \in Answering(prev)
  BY <1>1, ProcessMoves
<1>3. u \notin Gone
  BY <1>1, <1>2 DEF LifeInv, Farewell
<1>4. x \in [tokens : Seq(Tokens), finished : BOOLEAN]
  <2>1. Current.token \in Tokens
    BY <1>2 DEF Entry
  <2> QED BY <1>2, <2>1 DEF Replies
<1>5. x.tokens = Append(reply[u].tokens, Current.token) /\ x.finished = finished
  OBVIOUS
<1> HIDE DEF u, x
<1>6. reply'[u] = x /\ \A v \in Uids \ {u} : reply'[v] = reply[v]
  BY <1>1, <1>2 DEF Replies
<1>7. Replies'
  BY <1>1, <1>2, <1>4 DEF Replies
<1>8. Gone' = IF finished THEN Gone \cup {u} ELSE Gone
  <2>1. ~Finished(u) /\ u \notin aborted
    BY <1>2, <1>3 DEF Gone
  <2>2. \A v \in Uids \ {u} : Finished(v)' <=> Finished(v)
    BY <1>6 DEF Finished
  <2>3. \A v \in {u} : Finished(v)' = finished
    <3>1. reply'[u].finished = finished
      BY <1>5, <1>6
    <3> QED BY <3>1 DEF Finished
  <2>4. CASE finished
    BY <1>1, <1>2, <2>1, <2>2, <2>3, <2>4 DEF Gone
  <2>5. CASE ~finished
    BY <1>1, <1>2, <2>1, <2>2, <2>3, <2>5 DEF Gone
  <2> QED BY <2>4, <2>5
<1>9. reply'[u].tokens = Append(reply[u].tokens, Current.token)
      /\ reply'[u].finished = finished
  BY <1>5, <1>6
<1> QED BY <1>1, <1>2, <1>3, <1>6, <1>7, <1>8, <1>9 DEF u

LEMMA DeliverLastLife ==
  ASSUME SlotInv, Replies, LifeInv, DeliverLast  PROVE LifeInv'
<1> DEFINE u == Current.uid
           r == Appended
<1>1. /\ Deliver(TRUE) /\ running' = Erase(running, u)
      /\ \/ /\ PendingUses(u) /\ suppressed' = suppressed \cup {u}
            /\ req' = [req EXCEPT ![u] = r] /\ UNCHANGED <<freed, deferredActions>>
         \/ /\ ~PendingUses(u) /\ FreeReqResourcesOrDefer(u, r)
            /\ UNCHANGED suppressed
  BY DEF DeliverLast
<1>2. /\ Process /\ ~Current.chunked /\ u \notin suppressed /\ u \in Uids
      /\ Gone' = Gone \cup {u}
      /\ UNCHANGED <<pc, pending, batch, chunks, launched, flight, submitted>>
  BY <1>1, DeliverMoves
<1>3. r.slot = req[u].slot /\ r.chunked = req[u].chunked
  BY <1>2, AppendedBecomes
<1>4. IsReq(r)
  BY <1>2, AppendedIsReq DEF SlotInv, ReqFields
<1>5. /\ IsInjective(running') /\ Range(running') = Range(running) \ {u}
  BY <1>1, EraseRange DEF SlotInv, ControlTypeOK, LifeInv, Once
<1> HIDE DEF u, r
<1>6. /\ Becomes(u, r)
      /\ freed' \subseteq freed \cup {u} /\ Freeing' \subseteq Freeing \cup {u}
      /\ u \in freed' => u \notin UidsIn(flight)
      /\ u \in UidsIn(flight) => u \in suppressed'
      /\ suppressed' \ {u} = suppressed \ {u}
  <2>1. CASE PendingUses(u)
    <3>1. u \in UidsIn(flight) /\ suppressed' = suppressed \cup {u}
          /\ req' = [req EXCEPT ![u] = r] /\ UNCHANGED <<freed, deferredActions>>
      BY <1>1, <2>1, UsesFlight
    <3>2. Becomes(u, r)
      BY <1>2, <3>1, UpdateBecomes DEF SlotInv, ControlTypeOK
    <3>3. u \notin freed
      BY <3>1 DEF LifeInv, Farewell
    <3> QED BY <3>1, <3>2, <3>3 DEF Freeing
  <2>2. CASE ~PendingUses(u)
    <3>1. u \notin UidsIn(flight) /\ UNCHANGED suppressed /\ FreeReqResourcesOrDefer(u, r)
      BY <1>1, <2>2, UsesFlight
    <3>2. Becomes(u, r)
          /\ \/ freed' = freed \cup {u} /\ UNCHANGED deferredActions
             \/ UNCHANGED freed /\ Freeing' = Freeing \cup {u}
      BY <1>2, <1>4, <3>1, FreeOrDeferBecomes DEF SlotInv
    <3> QED BY <3>1, <3>2 DEF Freeing
  <2> QED BY <2>1, <2>2
<1>7. Answering(flight) \subseteq UidsIn(flight)
  BY AnsweringIn
<1> QED BY <1>2, <1>3, <1>5, <1>6, <1>7, AnswerLife DEF u

LEMMA DeliverNextLife ==
  ASSUME SlotInv, Replies, LifeInv, DeliverNext  PROVE LifeInv'
<1> DEFINE u == Current.uid
           r == Appended
<1>1. /\ Deliver(FALSE) /\ UNCHANGED <<running, suppressed>>
      /\ \/ CacheReqOrDefer(u, r)
         \/ req' = [req EXCEPT ![u] = r] /\ UNCHANGED <<freed, deferredActions>>
  BY DEF DeliverNext
<1>2. /\ Process /\ ~Current.chunked /\ u \notin suppressed /\ u \in Uids
      /\ Gone' = Gone /\ u \notin Gone
      /\ UNCHANGED <<pc, pending, batch, chunks, launched, flight, submitted>>
  BY <1>1, DeliverMoves
<1>3. r.slot = req[u].slot /\ r.chunked = req[u].chunked
  BY <1>2, AppendedBecomes
<1>4. IsReq(r)
  BY <1>2, AppendedIsReq DEF SlotInv, ReqFields
<1> HIDE DEF u, r
<1>5. Becomes(u, r) /\ freed' = freed /\ Freeing' = Freeing
  <2>1. CASE CacheReqOrDefer(u, r)
    BY <1>2, <1>4, <2>1, CacheOrDeferBecomes DEF SlotInv
  <2>2. CASE req' = [req EXCEPT ![u] = r] /\ UNCHANGED <<freed, deferredActions>>
    BY <1>2, <2>2, UpdateBecomes DEF SlotInv, ControlTypeOK, Freeing
  <2> QED BY <1>1, <2>1, <2>2
<1>6. u \notin freed
  BY <1>2 DEF LifeInv, Farewell
<1>7. IsInjective(running)
  BY DEF LifeInv, Once
<1> QED BY <1>1, <1>2, <1>3, <1>5, <1>6, <1>7, AnswerLife DEF u

-----------------------------------------------------------------------------
(* The commands, and the deferred actions.                                 *)

LEMMA SubmitLife ==
  ASSUME SlotInv, LifeInv, NEW u \in Uids, Submit(u)  PROVE LifeInv'
<1>1. /\ pc = "idle" /\ u \notin submitted /\ submitted' = submitted \cup {u}
      /\ suppressed' = suppressed \ {u} /\ freed' = freed \ {u}
      /\ pending' = Append(pending, u)
      /\ UNCHANGED <<pc, running, batch, chunks, launched, flight, prev,
                     deferredActions, req, aborted, reply>>
  BY DEF Submit, batchVars
<1>2. pending \in Seq(Uids) /\ IsInjective(pending) /\ chunks = <<>>
      /\ batch = <<>> /\ launched = <<>>
  BY <1>1 DEF SlotInv, ControlTypeOK, LifeInv, Phases, Once
<1>3. u \notin Waiting /\ ~Holds(u) /\ u \notin Gone
  <2>1. u \notin Waiting
    BY <1>1, ListsHold
  <2>2. ~Holds(u)
    BY <1>1 DEF SlotInv, AllSubmitted, Holders
  <2> QED BY <1>1, <2>1, <2>2 DEF LifeInv, Farewell
<1>4. Range(pending') = Range(pending) \cup {u} /\ IsInjective(pending')
  BY <1>1, <1>2, <1>3, RangeAppend, AppendKeepsInjective DEF Waiting
<1>5. Waiting' = Waiting \cup {u} /\ Gone' = Gone /\ Freeing' = Freeing
  BY <1>1, <1>4 DEF Waiting, Gone, Freeing, Finished
<1>6. u \notin UidsIn(flight)
  BY <1>3, ListsHold DEF Holders
<1>7. suppressed' = suppressed /\ freed' = freed
  BY <1>1, <1>3 DEF LifeInv, Farewell
<1>8. Phases'
  BY <1>1 DEF LifeInv, Phases
<1>9. Once'
  BY <1>1, <1>2, <1>4, RangeEmpty DEF LifeInv, Once
<1>10. Apart'
  BY <1>1, <1>3, <1>5 DEF LifeInv, Apart, Holds
<1>11. Farewell'
  BY <1>1, <1>3, <1>5, <1>7 DEF LifeInv, Farewell
<1> QED BY <1>8, <1>9, <1>10, <1>11 DEF LifeInv

LEMMA AbortLife ==
  ASSUME SlotInv, LifeInv, NEW u \in Uids, Abort(u)  PROVE LifeInv'
<1>1. /\ pc = "idle" /\ aborted' = aborted \cup {u}
      /\ Contains(pending, u) \/ Contains(running, u)
      /\ pending' = Erase(pending, u) /\ running' = Erase(running, u)
      /\ \/ ~Holds(u) /\ UNCHANGED <<suppressed, freed, req>>
         \/ PendingUses(u) /\ suppressed' = suppressed \cup {u} /\ UNCHANGED <<freed, req>>
         \/ /\ ~PendingUses(u) /\ FreeReqResources(u, req[u])
            /\ suppressed' = suppressed \ {u}
      /\ UNCHANGED <<pc, batch, chunks, launched, flight, prev, deferredActions,
                     submitted, reply>>
  BY DEF Abort, batchVars
<1>2. /\ chunks = <<>> /\ batch = <<>> /\ launched = <<>> /\ prev = <<>>
      /\ pending \in Seq(Uids) /\ IsInjective(pending)
      /\ running \in Seq(Uids) /\ IsInjective(running)
  BY <1>1 DEF SlotInv, ControlTypeOK, LifeInv, Phases, Once
<1>3. /\ IsInjective(pending') /\ Range(pending') = Range(pending) \ {u}
      /\ IsInjective(running') /\ Range(running') = Range(running) \ {u}
  BY <1>1, <1>2, EraseRange
<1>4. u \in submitted
  <2>1. CASE Contains(pending, u)
    BY <2>1 DEF Contains, SlotInv, AllSubmitted
  <2>2. CASE Contains(running, u)
    BY <2>2 DEF Contains, SlotInv, AllHold, AllSubmitted
  <2> QED BY <1>1, <2>1, <2>2
<1>5. IsReq(req[u])
  BY DEF SlotInv, ReqFields
<1>6. /\ \A v \in Uids : (Holds(v)' <=> Holds(v)) /\ req'[v].chunked = req[v].chunked
      /\ freed' \subseteq freed \cup {u}
      /\ u \in freed' => u \notin UidsIn(flight)
      /\ suppressed' \subseteq suppressed \cup {u} /\ suppressed \ {u} \subseteq suppressed'
      /\ u \in UidsIn(flight) => u \in suppressed'
  <2>1. CASE ~Holds(u) /\ UNCHANGED <<suppressed, freed, req>>
    <3>1. u \notin UidsIn(flight)
      BY <2>1, ListsHold DEF Holders
    <3> QED BY <2>1, <3>1 DEF Holds
  <2>2. CASE PendingUses(u) /\ suppressed' = suppressed \cup {u} /\ UNCHANGED <<freed, req>>
    BY <2>2, UsesFlight DEF Holds, LifeInv, Farewell
  <2>3. CASE ~PendingUses(u) /\ FreeReqResources(u, req[u]) /\ suppressed' = suppressed \ {u}
    <3>1. Becomes(u, req[u]) /\ freed' = freed \cup {u}
      BY <1>5, <2>3, FreeBecomes DEF SlotInv, ControlTypeOK
    <3>2. \A v \in Uids : (Holds(v)' <=> Holds(v)) /\ req'[v].chunked = req[v].chunked
      BY <3>1, SameChunks
    <3> QED BY <2>3, <3>1, <3>2, UsesFlight
  <2> QED BY <1>1, <2>1, <2>2, <2>3
<1>7. /\ Waiting' = Waiting \ {u} /\ Gone' = Gone \cup {u} /\ Freeing' = Freeing
  BY <1>1, <1>2, <1>3, RangeEmpty DEF Waiting, Gone, Freeing, Finished
<1>8. Phases'
  BY <1>1 DEF LifeInv, Phases
<1>9. Once'
  BY <1>1, <1>2, <1>3, RangeEmpty DEF LifeInv, Once
<1>10. Apart'
  <2>1. Waiting \subseteq Uids /\ Range(running) \subseteq Uids
        /\ Answering(launched) \cup Answering(flight) \cup Answering(prev) \subseteq Uids
    BY ListsHold DEF Holders, SlotInv, ControlTypeOK
  <2> QED BY <1>1, <1>3, <1>6, <1>7, <2>1 DEF LifeInv, Apart
<1>11. Farewell'
  <2>1. Answering(flight) \subseteq UidsIn(flight)
    BY AnsweringIn
  <2>2. freed' \cup suppressed' \cup Freeing' \subseteq Gone'
    BY <1>6, <1>7 DEF LifeInv, Farewell
  <2>3. Gone' \cap (Waiting' \cup Range(running') \cup Range(batch) \cup UidsIn(launched)) = {}
    BY <1>2, <1>3, <1>7, RangeEmpty, EntriesEmpty DEF LifeInv, Farewell
  <2>4. Gone' \cap (Answering(flight) \cup Answering(prev)) \subseteq suppressed'
    BY <1>2, <1>6, <1>7, <2>1, EntriesEmpty DEF LifeInv, Farewell
  <2>5. freed' \cap UidsIn(flight) = {}
    BY <1>6 DEF LifeInv, Farewell
  <2> QED BY <1>1, <1>2, <1>4, <1>7, <2>2, <2>3, <2>4, <2>5, EntriesEmpty
          DEF LifeInv, Farewell
<1> QED BY <1>8, <1>9, <1>10, <1>11 DEF LifeInv

LEMMA FlushLife ==
  ASSUME SlotInv, LifeInv, FlushAction  PROVE LifeInv'
<1> DEFINE act == Head(deferredActions)
           A == [uid : Uids, finished : BOOLEAN]
<1>1. /\ pc = "schedule" /\ deferredActions # <<>>
      /\ \/ act.finished /\ FreeReqResources(act.uid, req[act.uid])
         \/ CacheReq(act.uid, req[act.uid], FALSE) /\ UNCHANGED freed
      /\ deferredActions' = Tail(deferredActions)
      /\ UNCHANGED <<pc, pending, running, batch, chunks, launched, flight, prev,
                     suppressed, submitted, aborted, reply>>
  BY DEF FlushAction, queueVars, batchVars, clientVars
<1>2. deferredActions \in Seq(A) /\ flight = <<>>
  BY <1>1 DEF SlotInv, ControlTypeOK, LifeInv, Phases
<1>3. act \in A /\ Range(deferredActions) = {act} \cup Range(deferredActions')
  BY <1>1, <1>2, HeadTail
<1>4. act.uid \in Uids
  BY <1>3
<1>5. act.finished => act.uid \in Freeing
  BY <1>3 DEF Freeing
<1>6. Freeing' \subseteq Freeing
  BY <1>3 DEF Freeing
<1> HIDE DEF act, A
<1>7. IsReq(req[act.uid])
  BY <1>4 DEF SlotInv, ReqFields
<1>8. Becomes(act.uid, req[act.uid])
      /\ (freed' = freed \/ (act.uid \in Freeing /\ freed' = freed \cup {act.uid}))
  BY <1>1, <1>4, <1>5, <1>7, FreeBecomes, CacheReqBecomes DEF SlotInv, ControlTypeOK
<1>9. \A v \in Uids : (Holds(v)' <=> Holds(v)) /\ req'[v].chunked = req[v].chunked
  BY <1>4, <1>8, SameChunks
<1>10. Waiting' = Waiting /\ Gone' = Gone
  BY <1>1 DEF Waiting, Gone, Finished
<1>11. Phases'
  BY <1>1 DEF LifeInv, Phases
<1>12. Once'
  BY <1>1 DEF LifeInv, Once
<1>13. Apart'
  <2>1. Waiting \subseteq Uids /\ Range(running) \subseteq Uids
        /\ Answering(launched) \cup Answering(flight) \cup Answering(prev) \subseteq Uids
    BY ListsHold DEF Holders, SlotInv, ControlTypeOK
  <2> QED BY <1>1, <1>9, <1>10, <2>1 DEF LifeInv, Apart
<1>14. Farewell'
  BY <1>1, <1>2, <1>6, <1>8, <1>10, EntriesEmpty DEF LifeInv, Farewell
<1> QED BY <1>11, <1>12, <1>13, <1>14 DEF LifeInv

-----------------------------------------------------------------------------
(* The invariant.                                                          *)

\* what the clients can tell apart
LEMMA ClientSteps ==
  [Next]_vars => \/ \E u \in Uids : Submit(u) \/ Abort(u)
                 \/ \E finished \in BOOLEAN : Deliver(finished)
                 \/ UNCHANGED clientVars
<1> SUFFICES ASSUME [Next]_vars
             PROVE  \/ \E u \in Uids : Submit(u) \/ Abort(u)
                    \/ \E finished \in BOOLEAN : Deliver(finished)
                    \/ UNCHANGED clientVars
  OBVIOUS
<1>1. CASE Step
  <2> USE DEF clientVars
  <2>1. CASE BeginStep \/ FlushAction \/ ScheduleBurst \/ BeginAdmission
    BY <2>1 DEF BeginStep, FlushAction, ScheduleBurst, BeginAdmission
  <2>2. CASE AdmitChunk \/ AdmitNew \/ SchedulePrefill \/ ScheduleDecode
    BY <2>2 DEF AdmitChunk, AdmitNew, SchedulePrefill, ScheduleDecode, Add
  <2>3. CASE Reclaim \/ LaunchOne \/ BeginFilter \/ FilterOne \/ EndLaunch
    BY <2>3 DEF Reclaim, LaunchOne, BeginFilter, FilterOne, EndLaunch
  <2>4. CASE SkipChunk \/ ReleaseSuppressed \/ EndStep
    BY <2>4 DEF SkipChunk, ReleaseSuppressed, EndStep
  <2>5. CASE DeliverLast \/ DeliverNext
    BY <2>5 DEF DeliverLast, DeliverNext
  <2> QED BY <1>1, <2>1, <2>2, <2>3, <2>4, <2>5 DEF Step
<1>2. CASE UNCHANGED vars
  BY <1>2 DEF vars
<1> QED BY <1>1, <1>2 DEF Next, Wait

LEMMA RepliesStep == SlotInv /\ Replies /\ LifeInv /\ [Next]_vars => Replies'
<1> SUFFICES ASSUME SlotInv, Replies, LifeInv, [Next]_vars  PROVE Replies'
  OBVIOUS
<1>1. ASSUME NEW finished \in BOOLEAN, Deliver(finished)  PROVE Replies'
  BY <1>1, DeliverMoves
<1>2. ASSUME UNCHANGED reply  PROVE Replies'
  BY <1>2 DEF Replies
<1>3. ASSUME NEW u \in Uids, Submit(u) \/ Abort(u)  PROVE UNCHANGED reply
  BY <1>3 DEF Submit, Abort
<1> QED BY <1>1, <1>2, <1>3, ClientSteps DEF clientVars

LEMMA LifeStep == SlotInv /\ Replies /\ LifeInv /\ [Next]_vars => LifeInv'
<1> SUFFICES ASSUME SlotInv, Replies, LifeInv, [Next]_vars  PROVE LifeInv'
  OBVIOUS
<1>1. ASSUME NEW u \in Uids, Submit(u) \/ Abort(u)  PROVE LifeInv'
  BY <1>1, SubmitLife, AbortLife
<1>2. CASE Step
  BY <1>2, QuietLife, BeginStepLife, DecodeLife, SchedulePrefillLife, AdmitLife,
     LaunchLife, BeginFilterLife, FilterLife, EndLaunchLife, SkipChunkLife,
     ReleaseLife, DeliverLastLife, DeliverNextLife, FlushLife DEF Step, SlotInv
<1>3. CASE UNCHANGED vars
  BY <1>3, QuietLife
<1> QED BY <1>1, <1>2, <1>3 DEF Next, Wait

LEMMA RepliesInit == Init => Replies
<1> SUFFICES ASSUME Init  PROVE Replies
  OBVIOUS
<1>1. [tokens |-> <<>>, finished |-> FALSE] \in [tokens : Seq(Tokens), finished : BOOLEAN]
  OBVIOUS
<1> QED BY <1>1 DEF Init, Replies

LifeBase == SlotInv /\ Replies /\ LifeInv

LEMMA LifeBaseInit == Init => LifeBase
BY SlotInvInit, RepliesInit, LifeInit DEF LifeBase

LEMMA LifeBaseStep == LifeBase /\ [Next]_vars => LifeBase'
BY SlotInvStep, RepliesStep, LifeStep DEF LifeBase

(* A forward in flight owns the table slots its kernels read and write:    *)
(* whoever ends or aborts a request of that forward puts the free off      *)
(* until the forward's results are handled (pending_uses_req,              *)
(* free_req_resources_or_defer, deferred_resource_actions_), for every     *)
(* workload and every interleaving of submits, aborts and steps.           *)
THEOREM FlightOwns == Spec => []FlightOwnsSlots
<1>1. LifeBase => FlightOwnsSlots
  <2> SUFFICES ASSUME LifeBase, NEW i \in DOMAIN flight
               PROVE  flight[i].uid \in Owned
    BY DEF FlightOwnsSlots
  <2>1. flight[i].uid \in UidsIn(flight)
    BY DEF UidsIn, Range
  <2>2. flight[i].uid \in Holders
    BY DEF LifeBase, SlotInv, AllHold
  <2> QED BY <2>1, <2>2 DEF LifeBase, LifeInv, Farewell, Owned, Holders
<1> QED BY <1>1, LifeBaseInit, LifeBaseStep, PTL DEF Spec
=============================================================================
