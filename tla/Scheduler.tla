----------------------------- MODULE Scheduler -----------------------------
(***************************************************************************)
(* The scheduler thread: Scheduler (scheduler/scheduler.cc) with the four  *)
(* managers it owns, TableManager, CacheManager, PrefillManager (with its  *)
(* PrefillAdder) and DecodeManager, over the prefix cache of PrefixTree.   *)
(*                                                                         *)
(* One thread runs everything, so a step of the code is cut here into one  *)
(* action per iteration of its loops; pc says which loop it is in. Submit  *)
(* and Abort happen between two steps, where SchedulerRunner::run_loop     *)
(* executes the commands. With overlap scheduling a step launches a        *)
(* forward before it processes the results of the previous one.            *)
(*                                                                         *)
(* A forward is executed when it is launched: the GPU runs forwards in     *)
(* the order of the launches and the host reads results only after the     *)
(* event of the forward. A page's contents (kv) is the token prefix whose  *)
(* last token's key and value it holds.                                    *)
(***************************************************************************)
EXTENDS PrefixTree

CONSTANTS
  Uids,              \* the requests of a behaviour, each submitted once
  Prompt,            \* Prompt[u]: the tokens of GenerateRequest.input_ids
  MaxNewTokens,      \* MaxNewTokens[u]: sampling_params.max_new_tokens
  IgnoreEos,         \* IgnoreEos[u]: sampling_params.ignore_eos
  Tokens,            \* the vocabulary
  Sampled,           \* the tokens the sampler may return
  EOS,               \* engine_.eos_token_id()
  NumPages,          \* engine_.num_pages()
  MaxSeqLen,         \* engine_.max_seq_len()
  MaxRunningReq,     \* config.max_running_req
  MaxExtendTokens,   \* config.max_extend_tokens, the prefill budget
  DecodeBurst,       \* SGLANG_CPP_DECODE_BURST
  BurstPendingLimit, \* SGLANG_CPP_DECODE_BURST_PENDING_LIMIT
  Overlap,           \* config.enable_overlap_scheduling
  MaxOutstanding,    \* how many requests the clients have open at a time
  AbortAnyTime       \* FALSE: no abort in the two states of AbortHazard

Pages == 1 .. NumPages
Slots == 0 .. MaxRunningReq - 1
NoSlot == -1

ASSUME SchedulerAssumption ==
  /\ NumPages \in Nat \ {0}
  /\ MaxRunningReq \in Nat \ {0}
  /\ MaxExtendTokens \in Nat \ {0}
  /\ MaxSeqLen \in 1 .. NumPages          \* engine.cc:438
  /\ DecodeBurst \in Nat
  /\ BurstPendingLimit \in Nat
  /\ MaxOutstanding \in Nat \ {0}
  /\ Overlap \in BOOLEAN
  /\ AbortAnyTime \in BOOLEAN
  /\ EOS \in Tokens
  /\ Sampled \subseteq Tokens
  /\ Prompt \in [Uids -> Seq(Tokens) \ {<<>>}]
  /\ MaxNewTokens \in [Uids -> Int]
  /\ IgnoreEos \in [Uids -> BOOLEAN]

VARIABLES
  pc,              \* where the thread is: between steps ("idle") or in one
  \* PrefillManager and DecodeManager
  pending,         \* pending_list_
  running,         \* running_reqs_
  burst,           \* decode_burst_remaining_
  \* the batch of the step
  budget,          \* token_budget_ of the PrefillAdder
  batch,           \* its requests; later those a loop has not come to yet
  chunks,          \* chunked_list of the admission
  prefill,         \* it is a prefill batch
  launched,        \* those launched, with what process_forward_output uses
  \* Scheduler
  flight,          \* pending_forward_, <<>> for none
  prev,            \* the batch being processed, what is left of it
  suppressed,      \* suppressed_reqs_
  freed,           \* freed_reqs_
  deferredFree,    \* deferred_free_reqs_
  deferredActions, \* deferred_resource_actions_
  req,             \* the Req of each admitted request
  \* TableManager
  freeSlots,       \* free_slots_, a stack
  pageRow,         \* page_table: for each slot the pages of its positions
  tokenRow,        \* token_pool: for each slot its tokens
  \* CacheManager
  tree,            \* prefix_cache_
  freePages,       \* free_slots_, first in first out
  lazyFree,        \* lazy_free_list_
  \* the GPU, the clients
  kv,              \* what each page holds, <<>> for nothing
  submitted,       \* requests submitted
  aborted,         \* requests whose abort took effect
  reply            \* what each request was sent: tokens and "finished"

cacheVars  == <<tree, freePages, lazyFree>>
tableVars  == <<freeSlots, pageRow, tokenRow>>
queueVars  == <<pending, running, burst>>
batchVars  == <<budget, batch, chunks, prefill, launched>>
deferVars  == <<suppressed, freed, deferredFree, deferredActions>>
clientVars == <<submitted, aborted, reply>>
vars == <<pc, queueVars, batchVars, flight, prev, deferVars, req, tableVars,
          cacheVars, kv, clientVars>>

-----------------------------------------------------------------------------
(* Req and PendingReq. *)

NoReq == [slot |-> NoSlot, ids |-> <<>>, cached |-> 0, device |-> 0,
          max |-> 0, chunked |-> FALSE, handle |-> <<>>]

\* max_new_tokens as submit() clamps it
OutputLen(u) ==
  LET room == MaxSeqLen - Len(Prompt[u])
  IN  IF MaxNewTokens[u] > room THEN room ELSE MaxNewTokens[u]

RemainLen(r) == r.max - r.device
ExtendLen(r) == r.device - r.cached
\* mutant: one token too many
CanDecodeOnceMore(r) == ~r.chunked /\ RemainLen(r) >= 0
CanDecode(r) == ~r.chunked /\ RemainLen(r) > 0
CompleteOne(r) ==
  [r EXCEPT !.cached = r.device,
            !.device = IF r.device < r.max THEN r.device + 1 ELSE r.device]

Entry == [uid : Uids, prefill : BOOLEAN, chunked : BOOLEAN,
          canDecode : BOOLEAN, token : Tokens]

\* mutant: the batch in flight is forgotten
PendingUsesNever(u) == FALSE
PendingUses(u) == \E i \in DOMAIN flight : flight[i].uid = u

\* mutant: results and deferrals still to be handled are no work
HasWorkQueued == pending # <<>> \/ running # <<>>
HasWork == \/ flight # <<>>
           \/ deferredActions # <<>>
           \/ pending # <<>>
           \/ running # <<>>

\* find_if and erase: a request is in a list at most once
Erase(s, u) ==
  IF Contains(s, u) THEN RemoveAt(s, CHOOSE i \in DOMAIN s : s[i] = u) ELSE s

-----------------------------------------------------------------------------
(* CacheManager and the freeing of a request's resources. *)

AvailableSize(t) == Cardinality(Evictable(t)) + Len(freePages)

\* free_indices: within process_forward_output frees are lazy
FreeIndices(pages) ==
  IF pc = "process" THEN /\ lazyFree' = lazyFree \o pages
                         /\ UNCHANGED freePages
                    ELSE /\ freePages' = freePages \o pages
                         /\ UNCHANGED lazyFree

\* the pages of row that insert_prefix did not take, m being its cached_len
\* mutant: those of the old handle, which the cache owns, included
DuplicatesFromStart(r, row, m) == SubSeq(row, 1, m)
Duplicates(r, row, m) == SubSeq(row, Len(r.handle) + 1, m)

\* cache_req: insert what is computed of r, drop the old lock and the pages
\* that duplicate cached ones; a running request locks the result
CacheReq(u, r, finished) ==
  LET ids == Take(r.ids, r.cached)
      row == SubSeq(pageRow[r.slot], 1, r.cached)
      m   == MatchLen(tree, ids)
      t   == Unlock(Insert(tree, ids, row), r.handle)
  IN  /\ tree' = IF finished THEN t ELSE Lock(t, ids)
      /\ req' = [req EXCEPT ![u] = IF finished THEN r
                                   ELSE [r EXCEPT !.handle = ids]]
      /\ FreeIndices(Duplicates(r, row, m)
                     \o (IF finished THEN SubSeq(row, Len(ids) + 1, Len(row))
                                     ELSE <<>>))

\* free_req_resources: once per request
FreeReqResources(u, r) ==
  IF u \in freed
  THEN /\ req' = [req EXCEPT ![u] = r]
       /\ UNCHANGED <<freed, freeSlots, cacheVars>>
  ELSE /\ freed' = freed \cup {u}
       /\ freeSlots' = Append(freeSlots, r.slot)
       /\ CacheReq(u, r, TRUE)

MustDefer == Overlap /\ flight # <<>>

Defer(u, r, finished) ==
  /\ deferredActions' = Append(deferredActions, [uid |-> u, finished |-> finished])
  /\ req' = [req EXCEPT ![u] = r]
  /\ UNCHANGED <<freed, freeSlots, cacheVars>>

FreeReqResourcesOrDefer(u, r) ==
  IF MustDefer THEN Defer(u, r, TRUE)
  ELSE FreeReqResources(u, r) /\ UNCHANGED deferredActions

CacheReqOrDefer(u, r) ==
  IF MustDefer THEN Defer(u, r, FALSE)
  ELSE /\ CacheReq(u, r, FALSE)
       /\ UNCHANGED <<freed, freeSlots, deferredActions>>

-----------------------------------------------------------------------------
(* Between two steps: the commands of SchedulerRunner. *)

Finished(u) == reply[u].finished

Init ==
  /\ pc = "idle"
  /\ pending = <<>> /\ running = <<>> /\ burst = 0
  /\ budget = 0 /\ batch = <<>> /\ chunks = <<>> /\ prefill = FALSE /\ launched = <<>>
  /\ flight = <<>> /\ prev = <<>>
  /\ suppressed = {} /\ freed = {} /\ deferredFree = {}
  /\ deferredActions = <<>>
  /\ req = [u \in Uids |-> NoReq]
  /\ freeSlots = [i \in 1 .. MaxRunningReq |-> i - 1]
  /\ pageRow = [s \in Slots |-> <<>>]
  /\ tokenRow = [s \in Slots |-> <<>>]
  /\ tree = EmptyTree
  /\ freePages = [i \in 1 .. NumPages |-> i]
  /\ lazyFree = <<>>
  /\ kv = [p \in Pages |-> <<>>]
  /\ submitted = {} /\ aborted = {}
  /\ reply = [u \in Uids |-> [tokens |-> <<>>, finished |-> FALSE]]

\* a request that submit() does not drop for its lengths
Submit(u) ==
  /\ pc = "idle"
  /\ u \notin submitted
  /\ Cardinality({v \in submitted \ aborted : ~Finished(v)}) < MaxOutstanding
  /\ MaxSeqLen - Len(Prompt[u]) > 0
  /\ MaxNewTokens[u] > 0
  /\ submitted' = submitted \cup {u}
  /\ suppressed' = suppressed \ {u}
  /\ freed' = freed \ {u}
  /\ deferredFree' = deferredFree \ {u}
  /\ pending' = Append(pending, u)
  /\ UNCHANGED <<pc, running, burst, batchVars, flight, prev, deferredActions,
                 req, tableVars, cacheVars, kv, aborted, reply>>

\* the two states in which an abort leaks or frees twice (see the README)
AbortHazard(u) ==
  \/ req[u].chunked /\ PendingUses(u)
  \/ \E i \in DOMAIN deferredActions :
       deferredActions[i] = [uid |-> u, finished |-> FALSE]

Holds(u) == req[u].slot # NoSlot

\* abort() of a request that is neither pending nor running does nothing
Abort(u) ==
  /\ pc = "idle"
  /\ Contains(pending, u) \/ Contains(running, u)
  /\ AbortAnyTime \/ ~AbortHazard(u)
  /\ aborted' = aborted \cup {u}
  /\ pending' = Erase(pending, u)
  /\ running' = Erase(running, u)
  /\ IF ~Holds(u)
     THEN UNCHANGED <<suppressed, freed, deferredFree, req, freeSlots, cacheVars>>
     ELSE IF PendingUses(u)
     THEN /\ suppressed' = suppressed \cup {u}
          /\ deferredFree' = deferredFree \cup {u}
          /\ UNCHANGED <<freed, req, freeSlots, cacheVars>>
     ELSE /\ FreeReqResources(u, req[u])
          /\ suppressed' = suppressed \ {u}
          /\ UNCHANGED deferredFree
  /\ UNCHANGED <<pc, burst, batchVars, flight, prev, deferredActions, pageRow,
                 tokenRow, kv, submitted, reply>>

\* run_loop calls step() when there is work and otherwise waits
BeginStep ==
  /\ pc = "idle"
  /\ HasWork
  /\ pc' = "schedule"
  /\ prev' = flight
  /\ flight' = <<>>
  /\ UNCHANGED <<queueVars, batchVars, deferVars, req, tableVars, cacheVars, kv,
                 clientVars>>

Wait == pc = "idle" /\ ~HasWork /\ UNCHANGED vars

-----------------------------------------------------------------------------
(* launch_next_forward: flush, schedule, prepare, forward. *)

FlushAction ==
  /\ pc = "schedule"
  /\ deferredActions # <<>>
  /\ LET act == Head(deferredActions)
     IN  IF act.finished THEN FreeReqResources(act.uid, req[act.uid])
         ELSE /\ CacheReq(act.uid, req[act.uid], FALSE)
              /\ UNCHANGED <<freed, freeSlots>>
  /\ deferredActions' = Tail(deferredActions)
  /\ UNCHANGED <<pc, queueVars, batchVars, flight, prev, suppressed, deferredFree,
                 pageRow, tokenRow, kv, clientVars>>

\* a decode batch: all of running_reqs_
DecodeBatch == /\ batch' = running
               /\ prefill' = FALSE
               /\ pc' = "reclaim"

\* mutant: the remaining burst is not looked at
BurstingUnlimited == running # <<>>
Bursting == burst > 0 /\ running # <<>>

ScheduleBurst ==
  /\ pc = "schedule"
  /\ deferredActions = <<>>
  /\ Bursting
  /\ burst' = burst - 1
  /\ DecodeBatch
  /\ UNCHANGED <<pending, running, budget, chunks, launched, flight, prev,
                 deferVars, req, tableVars, cacheVars, kv, clientVars>>

BeginAdmission ==
  /\ pc = "schedule"
  /\ deferredActions = <<>>
  /\ ~Bursting
  /\ pc' = "admit"
  /\ budget' = MaxExtendTokens
  /\ UNCHANGED <<queueVars, batch, chunks, prefill, launched, flight, prev,
                 deferVars, req, tableVars, cacheVars, kv, clientVars>>

\* reserved_size_: what the running requests and those admitted so far may
\* still need. Mutant: only those admitted so far
ReservedAdmitted ==
  SumFunction([i \in DOMAIN batch |-> Len(Prompt[batch[i]])
                 - req[batch[i]].cached + OutputLen(batch[i])])
Reserved ==
  LET Rest(u) == Len(Prompt[u]) - req[u].cached + OutputLen(u)
  IN  SumFunction([i \in DOMAIN running |-> RemainLen(req[running[i]])])
      + SumFunction([i \in DOMAIN batch |-> Rest(batch[i])])

\* match_req: at least one token is left to compute
Matched(u) ==
  LET ids == SubSeq(Prompt[u], 1, Len(Prompt[u]) - 1)
  IN  SubSeq(ids, 1, MatchLen(tree, ids))

\* try_allocate_one, its second test made after the lock; the first one is
\* weaker, since a lock can only shrink what is available
Admissible(u) ==
  /\ freeSlots # <<>>
  /\ Len(Prompt[u]) - Len(Matched(u)) + OutputLen(u) + Reserved
       <= AvailableSize(Lock(tree, Matched(u)))

\* add_one_req of PrefillAdder: the next chunk, a new Req
NextReq(u, slot, cached, handle) ==
  LET left == Len(Prompt[u]) - cached
      chunk == IF budget < left THEN budget ELSE left
  IN  [slot |-> slot, ids |-> SubSeq(Prompt[u], 1, cached + chunk),
       cached |-> cached, device |-> cached + chunk,
       max |-> cached + chunk + OutputLen(u), chunked |-> chunk < left,
       handle |-> handle]

Add(u, r) ==
  /\ req' = [req EXCEPT ![u] = r]
  /\ budget' = budget - ExtendLen(r)
  /\ batch' = Append(batch, u)
  /\ chunks' = IF r.chunked THEN Append(chunks, u) ELSE chunks
  /\ pending' = Tail(pending)
  /\ tokenRow' = [tokenRow EXCEPT ![r.slot] = r.ids]
  /\ UNCHANGED <<pc, running, burst, prefill, launched, flight, prev, deferVars,
                 freePages, lazyFree, kv, clientVars>>

AdmitChunk ==
  /\ pc = "admit" /\ pending # <<>> /\ budget > 0
  /\ LET u == Head(pending)
     IN  /\ Holds(u)
         /\ Add(u, NextReq(u, req[u].slot, req[u].cached, req[u].handle))
  /\ UNCHANGED <<freeSlots, pageRow, tree>>

\* allocate() of TableManager: back(), then pop_back(). Mutant: front()
FrontSlot == freeSlots[1]
BackSlot == freeSlots[Len(freeSlots)]

AdmitNew ==
  /\ pc = "admit" /\ pending # <<>> /\ budget > 0
  /\ LET u == Head(pending)
         h == Matched(u)
         slot == BackSlot
     IN  /\ ~Holds(u)
         /\ Admissible(u)
         /\ Add(u, NextReq(u, slot, Len(h), h))
         /\ tree' = Lock(tree, h)
         /\ freeSlots' = Front(freeSlots)
         /\ pageRow' = [pageRow EXCEPT ![slot] = PagesOf(tree, h)]

\* the loop over pending_list_ ends at the first request not added
AdmissionOver ==
  pending # <<>> /\ budget > 0 =>
    LET u == Head(pending) IN ~Holds(u) /\ ~Admissible(u)

\* chunked requests go back to the front of pending_list_
SchedulePrefill ==
  /\ pc = "admit" /\ AdmissionOver /\ batch # <<>>
  /\ pending' = chunks \o pending
  /\ burst' = IF chunks # <<>> \/ Len(pending') > BurstPendingLimit
              THEN 0 ELSE DecodeBurst
  /\ chunks' = <<>>
  /\ prefill' = TRUE
  /\ pc' = "reclaim"
  /\ UNCHANGED <<running, budget, batch, launched, flight, prev, deferVars, req,
                 tableVars, cacheVars, kv, clientVars>>

AfterLaunch == IF prev = <<>> THEN "idle" ELSE "process"

ScheduleDecode ==
  /\ pc = "admit" /\ AdmissionOver /\ batch = <<>>
  /\ IF running # <<>> THEN DecodeBatch
     ELSE pc' = AfterLaunch /\ UNCHANGED <<batch, prefill>>
  /\ UNCHANGED <<queueVars, budget, chunks, launched, flight, prev, deferVars,
                 req, tableVars, cacheVars, kv, clientVars>>

\* allocate_pages: evict what the batch needs beyond the free pages
Needed == SumFunction([i \in DOMAIN batch |-> ExtendLen(req[batch[i]])])

Reclaim ==
  /\ pc = "reclaim"
  /\ IF Needed <= Len(freePages) THEN UNCHANGED <<tree, freePages>>
     ELSE \E E \in EvictionSets(tree, Needed - Len(freePages)) :
            /\ tree' = Evict(tree, E)
            /\ freePages' = freePages \o SetToSeq({tree.page[q] : q \in E})
  /\ pc' = "launch"
  /\ UNCHANGED <<queueVars, batchVars, flight, prev, deferVars, req, tableVars,
                 lazyFree, kv, clientVars>>

\* prepare_batch and forward for the next request of the batch: its pages,
\* its keys and values, its token, complete_one
LaunchOne ==
  /\ pc = "launch" /\ batch # <<>>
  /\ LET u == Head(batch)
         r == req[u]
         ext == ExtendLen(r)
         row == SubSeq(pageRow[r.slot], 1, r.cached) \o SubSeq(freePages, 1, ext)
         New == r.cached + 1 .. r.device
     IN  /\ ext <= Len(freePages)
         /\ freePages' = SubSeq(freePages, ext + 1, Len(freePages))
         /\ pageRow' = [pageRow EXCEPT ![r.slot] = row]
         /\ kv' = [p \in Pages |->
                     IF \E i \in New : row[i] = p
                     THEN LET i == CHOOSE j \in New : row[j] = p
                          IN  SubSeq(tokenRow[r.slot], 1, i)
                     ELSE kv[p]]
         /\ req' = [req EXCEPT ![u] = CompleteOne(r)]
         /\ \E t \in IF r.chunked THEN {EOS} ELSE Sampled :
              /\ tokenRow' = IF CanDecode(r)
                             THEN [tokenRow EXCEPT ![r.slot] =
                                     Append(SubSeq(@, 1, r.device), t)]
                             ELSE tokenRow
              /\ launched' = Append(launched,
                   [uid |-> u, prefill |-> prefill, chunked |-> r.chunked,
                    canDecode |-> CanDecode(CompleteOne(r)), token |-> t])
  /\ batch' = Tail(batch)
  /\ UNCHANGED <<pc, queueVars, budget, chunks, prefill, flight, prev, deferVars,
                 freeSlots, tree, lazyFree, clientVars>>

\* filter_reqs: running_reqs_ becomes those of running_reqs_, then of the
\* batch, that can decode, each once
BeginFilter ==
  /\ pc = "launch" /\ batch = <<>>
  /\ batch' = running \o [i \in DOMAIN launched |-> launched[i].uid]
  /\ running' = <<>>
  /\ pc' = "filter"
  /\ UNCHANGED <<pending, burst, budget, chunks, prefill, launched, flight, prev,
                 deferVars, req, tableVars, cacheVars, kv, clientVars>>

FilterOne ==
  /\ pc = "filter" /\ batch # <<>>
  /\ LET u == Head(batch)
     IN  running' = IF CanDecode(req[u]) /\ ~Contains(running, u)
                    THEN Append(running, u) ELSE running
  /\ batch' = Tail(batch)
  /\ UNCHANGED <<pc, pending, burst, budget, chunks, prefill, launched, flight,
                 prev, deferVars, req, tableVars, cacheVars, kv, clientVars>>

\* the batch becomes pending_forward_, or without overlap is processed at once
EndLaunch ==
  /\ pc = "filter" /\ batch = <<>>
  /\ launched' = <<>>
  /\ IF Overlap THEN /\ flight' = launched
                     /\ pc' = AfterLaunch
                     /\ UNCHANGED prev
                ELSE /\ prev' = launched
                     /\ pc' = "process"
                     /\ UNCHANGED flight
  /\ UNCHANGED <<queueVars, budget, batch, chunks, prefill, deferVars, req,
                 tableVars, cacheVars, kv, clientVars>>

-----------------------------------------------------------------------------
(* process_forward_output, one request of the batch at a time. *)

Current == Head(prev)

\* each of the actions below handles the current request
Process == pc = "process" /\ prev # <<>> /\ prev' = Tail(prev)

SkipChunk ==
  /\ Process
  /\ Current.chunked
  /\ UNCHANGED <<pc, queueVars, batchVars, flight, deferVars, req, tableVars,
                 cacheVars, kv, clientVars>>

\* release_deferred_req: the token of an aborted or ended request is dropped
ReleaseSuppressed ==
  LET u == Current.uid
  IN  /\ Process
      /\ ~Current.chunked /\ u \in suppressed
      /\ suppressed' = suppressed \ {u}
      /\ deferredFree' = deferredFree \ {u}
      /\ IF u \in deferredFree THEN FreeReqResourcesOrDefer(u, req[u])
         ELSE UNCHANGED <<freed, deferredActions, req, freeSlots, cacheVars>>
      /\ UNCHANGED <<pc, queueVars, batchVars, flight, pageRow, tokenRow, kv,
                     clientVars>>

\* append_host_token and the message for the client
\* mutant: the host's copy is not extended
AppendedNothing == req[Current.uid]
Appended == [req[Current.uid] EXCEPT !.ids = Append(@, Current.token)]

Deliver(finished) ==
  /\ Process
  /\ ~Current.chunked /\ Current.uid \notin suppressed
  /\ finished = (\/ ~Current.canDecode
                 \/ ~IgnoreEos[Current.uid] /\ Current.token = EOS)
  /\ reply' = [reply EXCEPT ![Current.uid] =
                 [tokens |-> Append(@.tokens, Current.token),
                  finished |-> finished]]
  /\ UNCHANGED <<pc, pending, burst, batchVars, flight, pageRow, tokenRow, kv,
                 submitted, aborted>>

DeliverLast ==
  LET u == Current.uid
  IN  /\ Deliver(TRUE)
      /\ running' = Erase(running, u)
      /\ IF PendingUses(u)
         THEN /\ suppressed' = suppressed \cup {u}
              /\ deferredFree' = deferredFree \cup {u}
              /\ req' = [req EXCEPT ![u] = Appended]
              /\ UNCHANGED <<freed, deferredActions, freeSlots, cacheVars>>
         ELSE /\ FreeReqResourcesOrDefer(u, Appended)
              /\ UNCHANGED <<suppressed, deferredFree>>

DeliverNext ==
  LET u == Current.uid
  IN  /\ Deliver(FALSE)
      /\ IF Current.prefill /\ ~PendingUses(u)
         THEN CacheReqOrDefer(u, Appended)
         ELSE /\ req' = [req EXCEPT ![u] = Appended]
              /\ UNCHANGED <<freed, deferredActions, freeSlots, cacheVars>>
      /\ UNCHANGED <<running, suppressed, deferredFree>>

\* the end of the LazyFreeRegion
EndStep ==
  /\ pc = "process" /\ prev = <<>>
  /\ freePages' = freePages \o lazyFree
  /\ lazyFree' = <<>>
  /\ pc' = "idle"
  /\ UNCHANGED <<queueVars, batchVars, flight, prev, deferVars, req, tableVars,
                 tree, kv, clientVars>>

-----------------------------------------------------------------------------
Step == \/ BeginStep \/ FlushAction \/ ScheduleBurst \/ BeginAdmission
        \/ AdmitChunk \/ AdmitNew \/ SchedulePrefill \/ ScheduleDecode
        \/ Reclaim \/ LaunchOne \/ BeginFilter \/ FilterOne \/ EndLaunch
        \/ SkipChunk \/ ReleaseSuppressed \/ DeliverLast \/ DeliverNext
        \/ EndStep

Next == \/ \E u \in Uids : Submit(u) \/ Abort(u)
        \/ Step
        \/ Wait

Spec == Init /\ [][Next]_vars

\* the thread keeps running; clients need not submit or abort anything
FairSpec == Spec /\ WF_vars(Step)
-----------------------------------------------------------------------------
(* The types: the queues and the slots, then the data of the requests.     *)
ControlTypeOK ==
  /\ pc \in {"idle", "schedule", "admit", "reclaim", "launch", "filter", "process"}
  /\ pending \in Seq(Uids) /\ running \in Seq(Uids) /\ batch \in Seq(Uids)
  /\ chunks \in Seq(Uids)
  /\ burst \in Nat
  /\ prefill \in BOOLEAN
  /\ launched \in Seq(Entry) /\ flight \in Seq(Entry) /\ prev \in Seq(Entry)
  /\ suppressed \subseteq Uids /\ freed \subseteq Uids
  /\ deferredFree \subseteq Uids
  /\ deferredActions \in Seq([uid : Uids, finished : BOOLEAN])
  /\ DOMAIN req = Uids
  /\ \A u \in Uids : req[u].slot \in Slots \cup {NoSlot}
  /\ freeSlots \in Seq(Slots)
  /\ submitted \subseteq Uids /\ aborted \subseteq Uids

DataTypeOK ==
  /\ budget \in Int
  /\ req \in [Uids -> [slot : Slots \cup {NoSlot}, ids : Seq(Tokens),
                       cached : Nat, device : Nat, max : Int,
                       chunked : BOOLEAN, handle : Seq(Tokens)]]
  /\ pageRow \in [Slots -> Seq(Pages)]
  /\ tokenRow \in [Slots -> Seq(Tokens)]
  /\ freePages \in Seq(Pages) /\ lazyFree \in Seq(Pages)
  /\ Cached(tree) \subseteq Seq(Tokens) /\ IsFiniteSet(Cached(tree))
  /\ tree.page \in [Cached(tree) -> Pages]
  /\ tree.ref \in [Cached(tree) -> Int]
  /\ kv \in [Pages -> Seq(Tokens)]
  /\ reply \in [Uids -> [tokens : Seq(Tokens), finished : BOOLEAN]]

TypeOK == ControlTypeOK /\ DataTypeOK

\* the requests whose slot, pages and lock are not given back yet
Owned == {u \in Uids : Holds(u) /\ u \notin freed}

(* Table slots: no slot is free twice, or free and in use, or in use twice *)
(* (TableManager::allocate and free, through admission, abort, the end of  *)
(* a request, and the frees deferred while a forward uses the slot).       *)
SlotsExclusive ==
  /\ \A i, j \in DOMAIN freeSlots : i # j => freeSlots[i] # freeSlots[j]
  /\ \A u \in Owned : req[u].slot \notin Range(freeSlots)
  /\ \A u, v \in Owned : u # v => req[u].slot # req[v].slot

\* the places page p is in: the free lists, the cache, and the part of a
\* request's row that is not shared with the cache
PlacesOf(p) ==
  LET InList(name, s) == {<<name, i>> : i \in {j \in DOMAIN s : s[j] = p}}
      InCache == {<<"cached", q>> : q \in {x \in Cached(tree) : tree.page[x] = p}}
      InRow(u) == {<<"row", u, i>> :
                     i \in {j \in Len(req[u].handle) + 1 .. req[u].cached :
                              pageRow[req[u].slot][j] = p}}
  IN  InList("free", freePages) \cup InList("lazy", lazyFree) \cup InCache
      \cup UNION {InRow(u) : u \in Owned}

(* KV pages: each page is in exactly one place, free, about to be freed,   *)
(* in the prefix cache or private to one request. It is what               *)
(* CacheManager::check_integrity says for an idle cache, at every step:    *)
(* no page leaks and none is given to two requests.                        *)
PageOwnedOnce == \A p \in Pages : Cardinality(PlacesOf(p)) = 1

(* Locks: a cached prefix is locked once for each request that still holds *)
(* a handle to it or to what lies below (lock in try_allocate_one and      *)
(* cache_req, unlock in cache_req), so it can be evicted exactly when no   *)
(* request reads it.                                                       *)
RefCountsExact ==
  \A q \in Cached(tree) :
    tree.ref[q] = Cardinality({u \in Owned : q \in Path(req[u].handle)})

(* KV contents: attention reads, for every position that a request has     *)
(* computed, the key and value of its own token after its own prefix, and  *)
(* a page in the prefix cache holds what it is filed under. Pages are      *)
(* shared, freed, evicted and overwritten by other requests meanwhile      *)
(* (cache_req, allocate_paged, the copy of the matched indices).           *)
KVCoherent ==
  /\ \A q \in Cached(tree) : kv[tree.page[q]] = q
  /\ \A u \in Owned : \A i \in 1 .. req[u].cached :
       kv[pageRow[req[u].slot][i]] = SubSeq(tokenRow[req[u].slot], 1, i)

(* Host and device agree: what the host knows of a request is its prompt   *)
(* and the tokens its client was sent, in order, and is a prefix of the    *)
(* row the GPU continues, which runs ahead of the host; and there is room  *)
(* for the token about to be appended (TORCH_CHECK of append_host_token).  *)
HostMirrorsDevice ==
  /\ \A u \in Owned :
       /\ IsPrefix(req[u].ids, tokenRow[req[u].slot])
       /\ req[u].ids = SubSeq(Prompt[u] \o reply[u].tokens, 1, Len(req[u].ids))
       /\ ~req[u].chunked => Len(req[u].ids) = Len(Prompt[u] \o reply[u].tokens)
  /\ \A i \in DOMAIN prev :
       pc = "process" /\ ~prev[i].chunked /\ prev[i].uid \notin suppressed
         => Len(req[prev[i].uid].ids) < req[prev[i].uid].device

(* The reservation of PrefillAdder is enough: whatever batch is scheduled, *)
(* free and evictable pages suffice for it, so none of the TORCH_CHECKs in *)
(* allocate_pages and evict fails.                                         *)
AllocationPossible ==
  /\ pc = "reclaim" => Needed <= AvailableSize(tree)
  /\ pc = "launch" => Needed <= Len(freePages)

(* A forward in flight, or being processed, still owns the table slots its *)
(* kernels read and write: frees are put off until it is done              *)
(* (pending_uses_req, free_req_resources_or_defer).                        *)
FlightOwnsSlots == \A i \in DOMAIN flight : flight[i].uid \in Owned

(* What a client gets: never more tokens than it asked for or the sequence *)
(* length allows, nothing after the end, an end exactly when the limit or  *)
(* an end-of-sequence token is reached, also when a forward for a further  *)
(* token was already launched.                                             *)
ReplyShape ==
  \A u \in Uids :
    LET r == reply[u].tokens
        Ends(i) == i = OutputLen(u) \/ (~IgnoreEos[u] /\ r[i] = EOS)
    IN  /\ \A i \in 1 .. Len(r) - 1 : ~Ends(i)
        /\ r # <<>> => reply[u].finished = Ends(Len(r))

(* CacheManager::check_integrity ("CacheManager integrity check failed"),  *)
(* which demands that every page is free or cached, when no request is     *)
(* left.                                                                   *)
CacheIntegrity ==
  pc = "idle" /\ ~HasWork => Len(freePages) + Cardinality(Cached(tree)) = NumPages

(* When the scheduler has no work everything is back: slots, locks, pages, *)
(* deferrals.                                                              *)
IdleClean ==
  /\ CacheIntegrity
  /\ pc = "idle" /\ ~HasWork =>
       /\ Owned = {}
       /\ Len(freeSlots) = MaxRunningReq
       /\ \A q \in Cached(tree) : tree.ref[q] = 0
       /\ suppressed = {} /\ deferredFree = {}

(* An aborted request leaves nothing behind: once the scheduler has no     *)
(* work, its slot and pages are free again (the abort tests of             *)
(* test_scheduler_e2e.cpp, "AbortInFlight...RecyclesSlot").                *)
AbortedRecycled == pc = "idle" /\ ~HasWork => Owned \cap aborted = {}

\* where a request is for whoever submitted it
Phase(u) == IF u \in aborted THEN "aborted"
            ELSE IF Finished(u) THEN "ended"
            ELSE IF u \in submitted THEN "live"
            ELSE "unknown"

Service == INSTANCE Generation WITH
             Limit <- [u \in Uids |-> OutputLen(u)],
             phase <- [u \in Uids |-> Phase(u)],
             sent  <- [u \in Uids |-> Len(reply[u].tokens)]

(* The scheduler keeps the promise of Generation, on which Frontend is     *)
(* built: tokens one by one, the limit marked as the end, nothing after    *)
(* the end, and nothing after an abort, also when the token of a forward   *)
(* in flight arrives later (suppressed_reqs_).                             *)
ImplementsGeneration == Service!Spec

(* No starvation: every submitted request ends or is aborted, however the  *)
(* others share slots, pages and the prefill budget with it.               *)
Served == \A u \in Uids :
            u \in submitted ~> (u \in aborted \/ reply[u].finished)
=============================================================================
