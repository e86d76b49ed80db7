# sglang.cpp in TLA+

sglang.cpp serves large language models: it batches the requests of many
clients, runs prefill and decode forwards on a GPU, keeps keys and values in
pages that requests share through a radix tree, and streams tokens back. This
directory holds its specification: TLA+ modules translated from the C++ sources,
TLC configurations that check them on small instances, and proofs checked by
TLAPS.

Everything that follows cites files of the repository without the leading
`src/`, so `src/scheduler/scheduler.cc` is the scheduler of the library and
`tests/` and `docs/` are beside it.

## 1. The system

| Component | State | Operations |
|---|---|---|
| Clients' handlers: `ApiServer` (`server/http_server.cc`), `LLM` (`llm/llm.cc`) | none of their own but the request each serves | `handle_*`, `stream_*_http`, `collect_*_sse`, `generate`, `stop`, `shutdown` |
| `FrontendManager` (`server/frontend.cc`) | `contexts_`: per request tokens, text, pending chunks, two promises, `finished`, `aborted` | `new_request`, `submit_*`, `abort`, `wait_result(_async)`, `wait_next_chunk(_async)`, `handle_detokenize` |
| `TokenizerWorkerPool` (`server/frontend.cc`) | encode and decode queue | `tokenize_dispatch`, `detokenize_dispatch`, the encode threads, the decode thread |
| `SchedulerRunner` (`server/frontend.cc`) | command queue, `stop_requested_` | `submit`, `abort`, `run_loop`, `stop` |
| `Scheduler` (`scheduler/scheduler.cc`) | `pending_forward_`, `suppressed_reqs_`, `freed_reqs_`, `deferred_free_reqs_`, `deferred_resource_actions_`, burst | `submit`, `abort`, `step`, `has_work` |
| `PrefillManager`, `PrefillAdder` (`scheduler/prefill.cc`) | `pending_list_`; token budget and reserved size of one admission | `add_one_req`, `schedule_next_batch`, `try_add_one`, `abort_req` |
| `DecodeManager` (`scheduler/decode.cc`) | `running_reqs_` | `filter_reqs`, `remove_req`, `abort_req`, `schedule_next_batch` |
| `TableManager`, `CacheManager` (`scheduler/prefill.cc`) | table slots, page table, token pool; free pages, lazy frees | `allocate`, `free`, `allocate_paged`, `cache_req`, `match_req`, `lock`, `unlock` |
| `RadixPrefixCache`, `RadixTreeNode` (`kvcache/`) | the tree, reference counts, timestamps, `evictable_size_`, `protected_size_` | `match_prefix`, `lock_handle`, `insert_prefix`, `evict` |
| `Engine`, `Sampler`, `GraphRunner` (`engine/engine.cc`) | the engine's stream, sampling workspaces, captured graphs | `forward_batch`, `prepare`, `sample`, `pad_batch`, `can_use_cuda_graph`, `replay` |
| `FlashInferBackend` (`attention/flashinfer_backend.cu`) | decode workspaces, the ring of pinned slots with its events, captured plans | `prepare_metadata`, `forward`, `prepare_for_capture`, `prepare_for_replay` |
| `HFDetokenizeManager` (`tokenizer/hf_tokenizer.cc`) | `decode_map_`: per request tokens, decoded text, three offsets | `detokenize` |
| `WeightLoader` (`models/weight_loader.cc`) | files in flight and their futures, the parameters | `load_weights` |
| Communicators (`distributed/distributed.cc`), models, layers, tokenizer | a communicator; weights | collectives, forward, encode |

How they interact:

    handler --submit--> FrontendManager --task--> encode threads --command--> SchedulerRunner
    handler --abort---> FrontendManager -----------------------command--> SchedulerRunner
    SchedulerRunner: between two steps executes the commands, then Scheduler::step
    step: [flush deferred] schedule, allocate pages, launch forward N, process results of N-1
    forward N: scheduler stream prepares it, an event, engine stream runs it, an event
    replies --handle_detokenize--> decode thread --detokenize, promise, pending chunk--> handler

Where it is hard:

* **Overlap.** A step launches a forward before it looks at the results of the
  one before. A request can end, or be aborted, while a forward for its next token
  is in flight; its resources are then freed later (`deferred_free_reqs_`), its
  extra token is dropped (`suppressed_reqs_`), and calls that would disturb the
  forward are queued (`deferred_resource_actions_`).
* **Shared pages.** Several requests read the same pages, eviction may take
  whatever is not locked, and a page that is computed twice is freed once.
* **Admission.** A request is admitted on a reservation for requests that grow
  later; when the reservation is wrong an assertion fails steps later.
* **Threads and promises.** Handlers, encode threads, decode thread and runner
  meet in a context: whoever finishes it has to wake whoever waits for it.
* **Two CUDA streams.** The host runs ahead of both. What one stream writes and
  the other reads, and what the host refills while a copy may still read it, is
  ordered by events only, or by copies that happen to wait.
* **Texts cut anywhere.** A token may end inside a character; what was sent to a
  client cannot be taken back.
* **Weights in parts.** Projections are fused, stacked and cut; a wrong part of
  the right size is not noticed by anything.
* **Partial failure.** Tokenizing, writing to a client, detokenizing, reading a
  file may fail in the middle.

What makes each component correct is stated as properties in section 3; every
place in the code that is hard to test is listed with its line under "hazards"
in PROJECT.json.

## 2. The modules

| Module | Models | Kind |
|---|---|---|
| `PrefixTree` | operators on a set of cached prefixes: match, lock, insert, evict | operators |
| `PrefixCache` | what `BasePrefixCache` (`kvcache/base.h`) promises | abstract specification |
| `RadixCache` | `RadixPrefixCache` with nodes, splits, timestamps and counters | implements `PrefixCache` |
| `Scheduler` | the scheduler thread and its four managers, over `PrefixTree` | specification |
| `SchedulerProofs` | theorems about `Scheduler`: slots, and the life of a request | proofs |
| `ReplyProofs` | on top of it: counts, replies, host and device, the refinement of `Generation` | proofs |
| `PageProofs` | on top of both: pages, locks, what the pages hold, the reservation of pages, types | proofs |
| `Generation` | what a scheduler promises to whoever submits | abstract specification |
| `Frontend` | handlers, contexts, tokenizer pool, runner, over `Generation` | specification |
| `FrontendProofs` | theorems about `Frontend`: wakeups, contexts, the way of a token | proofs |
| `Detokenizer` | `HFDetokenizeManager`: offsets and entries | specification |
| `DetokenizerProofs` | theorems about `Detokenizer`: offsets and entries | proofs |
| `WeightLoader` | `load_weights` of one rank | specification |
| `WeightLoaderProofs` | theorems about `WeightLoader`: the readers and the order of files | proofs |
| `GraphRunner` | which graph serves which batch, and its capacity | operators |
| `Pipeline` | the host and the two streams over a sequence of forwards, over `GraphRunner` | specification |
| `PipelineProofs` | theorems about `Pipeline` and `GraphRunner`: the ring, the capacity of graphs, the order of the two streams | proofs |
| `NatLemmas` | least and greatest elements, induction over a set of numbers, sums over finite sets | lemmas |
| `MCRadixCache`, `MCScheduler`, `MCFrontend`, `MCDetokenizer`, `MCWeightLoader`, `MCPipeline` | workloads for TLC | model checking |

The modules meet at two interfaces. `Scheduler` uses the prefix cache through the
operators of `PrefixTree`, on which `PrefixCache` is built, and `RadixCache` is
shown to implement `PrefixCache`. `Frontend` uses the scheduler through the
actions of `Generation`, and `Scheduler` is shown to implement `Generation`. So the
whole chain, from the handler to the node of the radix tree, is covered, and no
run has to carry all of it. `Pipeline` refines what `Scheduler` takes for granted,
that a forward reads what was prepared for it and its tokens are read when they
are there; `Detokenizer` is the library call of the decode thread in `Frontend`.

### PrefixTree, PrefixCache, RadixCache

`PrefixTree` sees the cache as a function on cached token prefixes: its page and
how many locks cover it. A radix node is one abstract prefix per token it holds;
where nodes begin and end is forgotten. Eviction is any choice of unlocked
leaves of the tree (`EvictionSets`): the radix tree chooses the oldest nodes, and
nothing above depends on which.

`RadixCache` has the tree itself. A node is named by the token path to its end,
which `split_at` never changes, so a name is a pointer and a handle is a name.
`MatchAndLock`, `InsertOnly`, `InsertAndLock`, `Release`, `Evict` are the calls
that `CacheManager` makes, in its order (insert, unlock the old handle, lock the
new one). `tree_walk` stamps the nodes it passes and splits the one it ends in.
`evict` pops the oldest unlocked leaf until enough is gone; all ways of breaking
a tie are outcomes. The clock counts walks (`MaxClock` bounds it). The page size
is 1: `Engine` refuses any other (engine.cc:421).

### Scheduler

The scheduler runs in one thread. A step of the code is cut at the iterations of
its loops, and `pc` says in which loop it is:

    idle --BeginStep--> schedule --FlushAction*--> ScheduleBurst | BeginAdmission
      BeginAdmission --> admit: AdmitChunk, AdmitNew, AdmissionOver
        --> SchedulePrefill | ScheduleDecode --> reclaim --Reclaim--> launch
      LaunchOne* --> filter: FilterOne* --> EndLaunch --> process
      process: SkipChunk | ReleaseSuppressed | DeliverLast | DeliverNext  --EndStep--> idle

`Submit` and `Abort` are enabled at `idle`, where `run_loop` executes commands.
`req[u]` is the `Req`: slot, host tokens, `cached_len`, `device_len`,
`max_device_len`, chunked flag, cache handle. `pageRow` and `tokenRow` are the rows
of the page table and token pool. `flight` is `pending_forward_`, `prev` the
batch whose results are processed. Without overlap `EndLaunch` hands the batch
just launched to `process` in the same step.

A forward is executed when it is launched: the GPU runs forwards in the order of
their launches, and the host waits for a forward's event before it reads its
tokens. What a page holds (`kv`) is the token prefix whose last token's key and
value it is, so "attention reads the right keys" can be stated. The sampled
token is any of `Sampled`, chosen at the launch and seen by the host when the
result is processed. TORCH_CHECKs of `allocate_pages` and `append_host_token` are
properties (`AllocationPossible`, `HostMirrorsDevice`), not guards.

Each request is submitted once; the identifiers come from a counter and are
never used twice (frontend.cc:282). Lengths that `submit()` drops are left to
`Frontend`.

`AbortHazard` names the two states in which an abort breaks the scheduler: the
request's prefill chunk is in flight, or its `cache_req` waits in
`deferred_resource_actions_`. The code does not guard against them. With
`AbortAnyTime = TRUE` the model aborts there too, and section 5 shows what happens;
with `AbortAnyTime = FALSE` the runs show that every *other* abort is harmless.
The theorems about slots, replies and tokens hold for both values, those about pages,
with overlap, for `FALSE` (section 4).

### Generation and Frontend

`Generation` is a scheduler as its users see it: a request is unknown, live, ended
or aborted, and gets at most `Limit[u]` tokens one by one, the last one marked.

`Frontend` has one handler per request, of one of five kinds: `tokens` and `text`
block in `wait_result`, `sse` blocks in `wait_next_chunk`, `async` and `stream` are
the coroutines of `stream_generate_http` (`stream_chat_http` has the same control).
`handler[u].pc` is where it is, `suspended` while a promise holds its continuation.
`ctx[u]` is its `RequestContext`. An action is one critical section of a mutex.
A promise that gets its value resumes the handler, and only then erases the
context (`Fulfil`, then `Erase`), so both orders are explored: whether the
continuation runs at once or is handed to an executor depends on the coroutine
library. `GatherCommands`, `Execute`, `BeginStep`, `Generate`, `EndStep` are
`run_loop`; `Execute` of an abort may find nothing to do, because the request is
not known yet, has ended, or has its last forward in flight. `TakeReplies` and
`HandleReply` are the decode thread. The tokenizer itself is external: it
returns or it throws. `detokenize` returns here; `NoBatchLost` of `Detokenizer`
says for which texts it does.

### Detokenizer

One action, `Detokenize(batch)`, is one task of the decode thread: the first loop of
`detokenize` adds the tokens to their entries (`WithTokens`), the second computes
the increments in order (`AfterBatch`, `Handled`) and may throw out of the middle,
with the entries before it finished and those after it half done (`FirstThrow`).
A batch is any non-empty set of requests in any order. An entry has the tokens,
`decoded_str`, `surr_offset`, `read_offset` and `sent_offset` of a `DecodeStatus`.
Offsets count bytes in the code, so a text is a sequence of bytes, of five classes:
a letter, a space, a newline, characters of two bytes and Chinese ones of three,
with U+FFFD for what the library cannot decode. `find_printable_text` tells
just these apart. `out` is a history variable: all that was handed out.

### WeightLoader

The state is that of `load_weights`: `nextFile`, `inFlight` (the futures, in order),
what each reader has come to, and the parameters. `Read(f)` is a reader thread,
`TakeFront` an iteration of the loop (`get`, copy, start the next readers),
`TakeThrows` and `Unwind` the exception and the destructors of the futures, which
wait. Everything between a file and a parameter is in operators:
`MergeWeights` fuses groups, dequantizes and stacks experts, `ShardForParameter`
chooses the rule and cuts. A tensor is the labels on each of its axes, so that
"rows of the right number" and "the right rows" differ. `head_dim` is 1. Embeddings
and `lm_head` are replicated by every model here, so the rule for vocabularies
that are cut is never met.

### GraphRunner and Pipeline

`GraphRunner` has the choice of graph for a batch given by its size and its longest
request, and what capture reserved for it.

In `Pipeline` the host runs the program of a step (`StepProgram`), a sequence of
operations written from `step_overlap`, `prepare_batch`, `prepare_metadata`,
`forward_batch`, `replay` and `process_forward_output`: it enqueues commands on the
scheduler's stream `S` or the engine's stream `E`, refills pinned buffers, waits
for an event or a stream, reads tokens. `StreamRun(s)` runs the next command of a
stream, whenever it likes. A buffer holds the tag of the step and layer that wrote
it. A command names the tags it was enqueued to read; it runs whatever it finds,
and `misread` keeps the buffers where it found something else. The host takes one operation at a
time (`HostEnqueue`, `HostFill`, `HostSynchronize`, `HostRead`, `HostStage`), so a stream may run
between any two of them. The events of the ring slots are recorded
in `UseSlot` and waited for in `HostStage`. Whether a deferred action waits at the start of
a step, the batch and its sampling are chosen freely; preparation of a
batch depends on nothing else.

`Unordered` are the buffers that the code does not order: the pinned staging
buffers and the page table as read on `E`. `ReadsAsMeant` is about all others;
`AllReadsOrdered` (section 5) is about these as well.

## 3. Runs

Passing runs:

| Run | Question | Instance | Distinct states |
|---|---|---|---|
| `radix_cache` | does the radix tree keep the promise of `BasePrefixCache`; do its counters drift | 2 clients, 5 pages, 4 inputs up to 4 tokens, 5 walks | 38,000 |
| `scheduler_sync` | shared prefixes, chunked prefill, eviction, aborts anywhere, no overlap | 4 requests, 2 slots, 6 pages, budget 1 | 226,000 |
| `scheduler_overlap` | all interleavings with overlap and a decode burst of 1; is everybody served | 3 requests, 2 slots, 7 pages, budget 2, tokens `d` and eos sampled | 260,000 |
| `frontend` | do tokens, wakeups and contexts survive every interleaving and failure | 3 requests of different kinds, 2 encode threads | 1,540,000 |
| `frontend_fair` | is everybody answered; does stop return | a coroutine's and a blocked thread's stream, 2 tokens each | 77,000 |
| `detokenizer` | do the increments add up to the text, in every order of batches | 2 requests, 36 texts of up to 8 tokens | 52,000 |
| `weights` | does every rank get its part of every projection, whatever reader ends first | 3 models, 3 files, 54 layouts | 4,500 |
| `pipeline` | does every command read what was meant for it; does anything wait for ever | 3 forwards with and without overlap, 2 shapes of decode batch, 3 layers, ring of 2 | 251,000 |

Failing runs (section 5): `scheduler_duplicate`, `scheduler_abort_deferred`,
`weights_bias`, `pipeline_unordered`.

Configurations to run by hand, `tlc -config <cfg> <module>`:

| Configuration | Module | What happens |
|---|---|---|
| `SchedulerSerial.cfg` | `MCScheduler` | passes: overlap with prefix reuse, one request open at a time |
| `SchedulerAbortChunk.cfg` | `MCScheduler` | `AbortedRecycled` fails, section 5 |
| `FrontendDropped.cfg` | `MCFrontend` | `Answered` fails, section 5 |
| `DetokenizerSplit.cfg` | `MCDetokenizer` | `IncrementsAddUp` fails, section 5 |

What the properties say:

* `HeldStays`, `RefsCountHolders`, `ImplementsPrefixCache`: a locked prefix stays,
  in its pages, whatever is split, inserted and evicted meanwhile.
* `CountersExact`, `EvictDelivers`: the two size counters, adjusted in four places,
  are exact, and an eviction within `evictable_size_` never fails.
* `PageOwnedOnce`: every page is in exactly one of the free list, the lazy frees,
  the cache and one request's private part, at every step: the set of its places
  (`PlacesOf`) has one element. It is what `CacheManager::check_integrity`, which
  nothing calls, says of an idle cache.
* `RefCountsExact`, `IdleClean`: every lock is given back; when there is no work
  everything is.
* `KVCoherent`: what attention reads at each position is the key of that token
  after that prefix.
* `HostMirrorsDevice`: the host, which lags a step behind, knows exactly what its
  client was sent, and the device row continues it.
* `AllocationPossible`: the reservation made at admission suffices until the end.
* `SlotsExclusive`, `FlightOwnsSlots`: no table slot serves two requests or is
  reused under a forward in flight.
* `ReplyShape`, `ImplementsGeneration`: what is sent ends where it must, and
  nothing follows an end or an abort.
* `Served`: no request starves behind others' budget, slots, pages and bursts.
* `NoTokenLost`, `AnswersWhole`: between the scheduler and the client no token is
  lost, doubled or reordered, and an answer is complete.
* `NoLostWakeup`, `Answered`: whoever waits is woken, whoever finishes first.
* `NoContextLeft`: a request leaves no context behind, late replies included.
* `Stops`: `stop()` returns.
* `IncrementsAddUp`: what a client was sent is the beginning of the text of its
  tokens, and all of it whenever the text ends complete.
* `NoBatchLost`: `detokenize` throws for no request of a batch, so the others'
  replies are not lost with it.
* `EntriesLive`: `decode_map_` has an entry for exactly the requests between their
  first and last message.
* `RankHoldsItsShare`: after a load that returned, every parameter holds the labels its
  layer expects, dequantized, from the last file that has them.
* `ReadersJoined`: no reader thread outlives `load_weights`.
* `ReadsAsMeant`: inputs, positions, sampling arguments, plans and answers are those
  of the forward that reads them, and a gather of the token pool finds the tokens of
  the forward before.
* `RingIntact`: a pinned slot is not refilled before it was copied.
* `ReplaysFit`: the checks of `prepare_for_replay` never fail for a batch that
  `can_use_cuda_graph` lets through, dummy requests included.
* `EveryStepAnswered`: host and streams never wait for each other for ever.

Why the bounds are enough. Slots: with three requests for two slots somebody
waits, and freed slots are reused. Pages: too few for all requests at their
longest, so that admission has to wait and eviction happens. Lengths: prompts of one to three
tokens with budgets of 1 and 2 give prefills of one, two and three chunks, and
outputs of one to three tokens give requests that end with the prefill, with the
first decode, and later; one ignores eos. Prompts: `SharedPrompt` shares prefixes
of every length; `DistinctPrompt` none, so that its run is free of the page
duplication of section 5. Frontend: each request meets only its own handler and
context, so two or three at a time show what there is; two tokens are a chunk
that is the last and one that is not. Detokenizer: an entry depends on another only
through an exception in its batch, so two requests show it; the texts have every
class of character after a space or a Chinese character, in whole and in parts, and
some end in the middle of one.
Weights: three files are one more than may be in flight with two ranks, so readers
end ahead of their turn, and a group may be whole, repeated or split over files; heads
2 per rank and key heads 1 per rank tell the cuts apart. Pipeline: with two slots
and three plans in a prefill the ring wraps within a step and between steps, as it does with 32
slots over more layers; three forwards have each buffer that alternates (sampling
arguments) used twice; of the two shapes of decode batches one is padded to the smallest graph and
one is too long for it, and the prefill runs without. Greedy sampling is left out: it is sampling with a temperature but for the
arguments, which it does not read. The first batch is a prefill. Symmetry is not used: requests differ in prompt and kind, and
tokens in role.

`CHECK_DEADLOCK FALSE` is set where the system really may stop: a stopped server
(`Frontend*`), the exhausted clock bound of `RadixCache`, and the ends of a load, of the
last reply (`Detokenizer`) and of the last of the `MaxSteps` forwards (`Pipeline`). `Scheduler` has the
explicit action `Wait` for `run_loop` waiting for work.

Fairness. `FairSpec` of `Scheduler` is weak fairness of `Step`, the disjunction of
all actions of a step: `run_loop` calls `step()` as long as `has_work()`. Nothing is
assumed of clients: they need not submit or abort. `FairSpec` of `Frontend` is weak
fairness of every thread (each handler, the encode threads, runner, decode
thread, the thread in `stop()`), and strong fairness of `Generate(u)`: a live
request gets its next token though any single step may give it none, which is
what `Served` of `Scheduler` says. A client that stops reading is not modelled as
blocking: a write returns or fails. `FairSpec` of `Pipeline` is weak fairness of the host
and of each stream: the thread goes on, and the device runs what is first in a stream once
its event is done.

## 4. Proofs

Everything in this section is proved for every value of the constants: any
set of requests, workload, number of pages and slots, budget, burst, layers, with and
without overlap. The assumptions are those on the constants
(`SchedulerAssumption`, `RepliesAssumption`, ...), which TLC evaluates in every run,
and where it says so `Safe` and `Alone`.

| Theorem | Says |
|---|---|
| `SchedulerProofs!SlotsAlwaysExclusive` | `Spec => []SlotsExclusive` |
| `SchedulerProofs!ControlTypes`, `WorkHasSlots` | types of all the state that control depends on; whatever is still to be launched, decoded, processed, cached or freed is a request with a slot |
| `SchedulerProofs!FlightOwns` | `Spec => []FlightOwnsSlots` |
| `ReplyProofs!RepliesRight` | `Spec => []ReplyShape` |
| `ReplyProofs!PromiseKept` | `Spec => ImplementsGeneration`, the refinement |
| `ReplyProofs!HostAgreesWithDevice` | `Spec => []HostMirrorsDevice` |
| `PageProofs!PagesOwnedOnce`, `LocksExact` | `Safe => (Spec => []PageOwnedOnce)`, the same for `RefCountsExact` |
| `PageProofs!KVRight` | `Safe => (Spec /\ []Alone => []KVCoherent)` |
| `PageProofs!AllComesBack` | `Safe => (Spec => []IdleClean)` |
| `PageProofs!ReservationEnough` | `Safe => (Spec => []AllocationPossible)` |
| `PageProofs!TypeCorrect` | `Safe => (Spec => []TypeOK)` |
| `FrontendProofs!TypeCorrect`, `NobodySleepsOn`, `ContextsAreErased` | `TypeOK`, `NoLostWakeup`, `NoContextLeft` of `Frontend` |
| `FrontendProofs!NoTokenIsLost`, `AnswersAreWhole` | `NoTokenLost`, `AnswersWhole` |
| `PipelineProofs!TypeCorrect`, `PlansAreCopied`, `ReplaysAlwaysFit` | `TypeOK`, `RingIntact`, `ReplaysFit` of `Pipeline` |
| `PipelineProofs!ReadsAreOrdered` | `Spec => []ReadsAsMeant` of `Pipeline` |
| `WeightLoaderProofs!TypeCorrect`, `NoReaderLeft`, `ResultIsSequential` | `TypeOK`, `ReadersJoined`; the parameters are those of a sequential load |
| `DetokenizerProofs!TypeCorrect`, `EntriesLiveAndDie` | `TypeOK`, `EntriesLive` of `Detokenizer` |

Each proof has one step per action and one inductive invariant, or a tower of
them. TLC checked those of `Scheduler` and `Pipeline` on the instances of section 3 before
they were proved.

### Scheduler

The invariants stand on each other; the step lemma of each uses those before it.

1. `SlotInv`. `SlotsExclusive` is not inductive: nothing in it says that a request to be freed
   holds the slot that will be pushed on the free stack. Added are the types
   (`ControlTypeOK`, `ReqFields`), that every request in `running`, `batch`, `launched`, `flight`,
   `prev` and `deferredActions` holds a slot (`AllHold`), and that only submitted requests
   wait or hold slots (`AllSubmitted`), so that `Submit`, which clears `freed_reqs_`,
   never revives the slot of an old request.
2. `LifeInv`, the life of a request. `Phases` says which lists are empty at which `pc`, `Once` that
   a request is in a list once and passes from one to the next, `Apart` that one with a
   slot either waits for its next chunk or runs, and `Farewell` what may still happen to a request
   whose client had its end or that was aborted: nothing but a batch in flight whose
   answer is suppressed, once, and no freeing under it. `FlightOwnsSlots` follows from
   `Farewell`.
3. `CountInv`. `Counted` is the equation behind every length check: the device length is
   the prompt, plus what was sent, plus one for each of `prev`, `flight` and `launched` that will
   answer. With `Room` (what is launched has room for a token) and `Marks` (an answer's
   `canDecode` tells whether it is the last) it gives `ReplyShape`, and the
   refinement of `Generation` (`PromiseKept`), action by action: every action is a
   stutter of `Generation` but `Submit`, `Abort` and the two that deliver.
4. `MirrorInv`. The host's tokens begin both the device's row and the text the client
   has (`Mirrors`); the row is as long as the device length, and the tokens on their way
   are its last ones (`Ahead`).
5. `PageInv`. `Places` says that no page is listed twice, is in two places, or is lost (`Singly`,
   `Disjoint`, `Complete`); `Holding` that the tree is one, with a page for each prefix, that a row is as long as
   what is computed, and that a request holds a cached prefix of its own tokens;
   `RefCountsExact` keeps that prefix from being evicted. `Chunks` and
   `Put` say what `cache_req` relies on: a chunk ends inside the prompt, and who waits
   in `deferred_resource_actions_` to be cached still owns its pages and is nowhere else.
6. `KVInv`. The cache files every page under the prefix it holds (`Filed`), and a
   request reads its own tokens in its own part and the pages of the cache in the
   rest (`ReadsRight`), whatever is evicted, reused and launched meanwhile.
7. `AccountInv`, on `LifeInv` and `PageInv`, is why nothing is left when there is no work.
   `Remembered`: who holds a slot still waits, runs, is launched, is put off to be freed, or has the
   token that will free it on its way. For a request dropped by `filter_reqs` that
   needs `Dropped`, that its last token is launched, and for one in the middle of its prompt `AsAsked`,
   that a result is skipped only while it is. `Released` says that an abort that left
   the freeing to a result in flight (`suppressed_reqs_`, `deferred_free_reqs_`) has such
   a result to come, and `SlotsKnown` that no slot is lost. With no lists left all of
   these have nobody in them, and the rest is counting slots and pages.
8. `ReserveInv`, on `CountInv` and `PageInv`, is why no allocation fails. What a request may
   still take is `Need`: its prompt and its limit, less one token that no forward computes,
   less what is computed. `Solvent` says that the needs of all who wait, run or are in the
   batch (`Debt`) are no more than the free and evictable pages (`Credit`). `AvailableSize` as
   `try_allocate_one` looks at it bounds the debt after an admission, for two reasons
   that are invariants themselves: at most one request is in the middle of its prompt, the first
   that waits (`OneChunk`), so the sum over `running_reqs_` and the batch forgets nobody,
   and a running request is one token ahead of its pages (`OneAhead`), so its
   `remain_len` is its need. Caching, freeing and aborting never make the credit smaller
   (`CacheCredit`), evicting leaves it as it is, and launching takes from both sides alike.
9. `DataInv`, on `PageInv`: the records and pages have their types, and `Loaded` is why a
   page is never filled from beyond a row: a chunk in the batch is no longer than what
   the request knows of its prompt (`LaunchCovers`); for the last chunk that is `Ahead`.

Two hypotheses leave behaviours of the system out, and each is a finding of section 5.
`Safe` is `~Overlap \/ ~AbortAnyTime`: with overlap, no abort in the two states of
`AbortHazard`, where pages do leak or are freed twice. The theorems about slots,
replies and tokens do without it: `freed_reqs_` makes double frees harmless to slots.
`Alone` says that no request computes a prefix that the cache has got from another
one since its admission; `cache_req` would then free pages that the request goes on
reading (`scheduler_duplicate`). It is a hypothesis about the behaviour, not an
invariant of the program; TLC finds it to hold throughout the two instances that check
`KVCoherent`, and violated in `scheduler_duplicate`. `PagesOwnedOnce` and `LocksExact` do
without it.

### Frontend

`WakeInv` is, for each request, what its handler, its two promises and its context
have to do with one another (`PromisesKept`, `ContextsGo`); every critical section touches one
request, so `OneClient` reduces each action to the one handler and context it
changes. `QueueInv` says that a request is at one place on its way to the scheduler and that only a
handler that gave up has it aborted. `FlowInv` follows the numbered
tokens: the context has the first ones, the queues hold the rest in order, the
mark is on the last and on no other, and a stream has written, holds and has pending
what its context got. `NoTokenLost` and `AnswersWhole` are read off it.

### Pipeline

`RingReady` is the reason why the ring is safe: for every copy still in the engine's queue
the slot holds what it was enqueued for and *behind it in the queue* is the record of the
slot's event, so that `HostStage`, which waits for that event, cannot pass. It
holds for every size of the ring, down to one slot, and number of layers.
`ReplaysFit` is arithmetic over the capacity that capture reserved (`PartsFit`, the tiles of
KV chunks).

`OrderInv` is why two events for each step are enough to order all that the two streams share.
It is about *items*: the commands that a stream has still to do, in its queue or
in the host's program, each with its step and its place within the step. The waits
are at place 2, plans and layers alternate after it, the event that ends a step is at its last
place. The conjuncts need one another, and `RingInv`:

* `Lined`: a stream has its items in order of step and place, each reads and
  writes what its place allows, and the program in the host's hands is that of the step begun;
* `Ends` and `Handshake`: who has something of a step to do has its end to do as well, and
  as long as it has, the other stream still waits for that end: the scheduler's stream in
  the next step, the engine's in the same one;
* `Fed`: what an item will read is there, or is written by an earlier item of the same
  stream, or by an item of the other stream, and then the reader is behind its wait;
* `Behind`: no buffer is ahead of an item that has still to write it, or of the step
  begun, so that what an item reads cannot come from a later step. That nothing is overwritten
  while it is still to be read follows from the waits: the writer of the next step has
  not passed its own (`NotOverwritten`);
* `Coming` and `Announced`: the answers and the token pool are there or on their way; the
  host reads an answer directly after it waited for its forward, and has nothing for the
  scheduler's stream after what the engine's stream waits for.

The greater part of the proof is about one step of the host (`StepComplete`): that the
sequence of commands that `PrepareBatch`, `Forward` and `ProcessOutput` put together is
such a sequence of items, piece by piece (`Piece`), for any batch, replayed
or eager, and any number of layers. `StreamRunOrder` then takes one item away.

### WeightLoader, Detokenizer

`Window` says that the files in flight are a window of the files in order. Then a
history of copies exists that is the sequential one (`InOrder`,
`AsIfOneByOne`): whatever reader ends first, the parameters are those of
reading the files one by one.

`Entries` gives each entry of `decode_map_` the first `next[u]` tokens of its reply, with its
offsets in order within them, in a batch that throws as well.

### Not proved, only model-checked

* Liveness (`Served`, `Answered`, `Stops`, `EveryStepAnswered`): out of the prover's reach.
* `RadixCache` and its refinement of `PrefixCache`: its eviction is recursive, and the
  prover has no induction over data. What `Scheduler` uses of the cache, the
  operators of `PrefixTree`, is covered by `PageProofs`.
* `RankHoldsItsShare`, `IncrementsAddUp`, `NoBatchLost`: they are about what recursive
  operators compute.

`NatLemmas` has the only induction used, over a set of numbers, since the
library's rules take an operator as a parameter. On it stand the lemmas about sums over
finite sets (`SumOne`, `SumLess`, `SumUnion`, `SumList`) that `ReserveInv` needs.

## 5. Where the code disagrees with its documents

Each has a run that fails with a counterexample.

* `scheduler_duplicate` (`KVCoherent`). `cache_req` of a running request frees the
  pages that duplicate cached ones but leaves them in the request's page table
  row (prefill.cc:237-242). The request decodes on with pages that another one
  is given. It needs a prompt that is a prefix of a cached sequence, or two
  prompts with a common prefix prefilled in one batch.
* `scheduler_abort_deferred` (`CacheIntegrity`). A request whose `cache_req` waits in
  `deferred_resource_actions_` is freed by `abort`, and then the flush calls
  `cache_req` on it again (scheduler.cc:549).
* `weights_bias` (`BiasGoesWithWeight`). With more than one rank the fused bias of
  q, k and v meets no rule of its own (`is_qkv_weight`, weight_loader.cc:259, wants
  `.weight`) and is cut contiguously, while the weight is cut per projection.
  `shard_qkv_weight` is written for a bias too (:290). Qwen2 has such biases.
* `pipeline_unordered` (`AllReadsOrdered`). `prepare_attention_metadata` reads the page
  table on the engine's stream before the event that orders it after the
  scheduler's stream (scheduler.cc:338, :392), and pinned staging buffers are
  refilled without waiting for the copies from them. `recordStream`, which the
  code relies on, keeps memory from being reused but orders nothing.

Each of these has a configuration to run by hand.

* `SchedulerAbortChunk.cfg` (`AbortedRecycled`). `process_forward_output` skips
  chunked requests before it looks at `suppressed_reqs_` (scheduler.cc:437), so a
  chunked prefill aborted with its chunk in flight never gives back slot, pages
  and lock.
* `FrontendDropped.cfg` (`Answered`). `submit()` drops a request with invalid lengths
  and tells nobody (scheduler.cc:215); its handler waits for ever.
* `DetokenizerSplit.cfg` (`IncrementsAddUp`). When a token ends inside a character that
  comes after a letter, `find_printable_text` falls through to the whole text, and
  the U+FFFD at its end is sent. When the character has three bytes its own never
  are; when it has two, or there is a space earlier in the text, the printable
  text is shorter than what was sent already, and `substr` throws (hf_tokenizer.cc:228).

Seen while modelling, without a run of their own:

* An exception after `wait_result_async` has returned the answer goes to the catch
  block of `stream_generate_http`; `abort` finds no context and `wait_result` creates
  a new one that nobody finishes (http_server.cc:272). With `LateThrow = {1}`,
  `FairSpec` of `Frontend` violates `Answered`. The runs keep `Answered` and
  `LateThrow` apart; `frontend` has `LateThrow`, and its invariants hold.
* An abort between the tokenizer's look at `aborted` and its `submit`
  (frontend.cc:318) is executed first and does nothing; the request then runs to
  its end for nobody. `NoContextLeft` shows that its replies are dropped.
* `abort` of a request whose last forward is in flight does nothing, since it is
  in neither list any more; its last reply is delivered.
* When `detokenize` throws, `handle_detokenize` has passed no error callback, so
  the replies of the whole batch are lost, ends included, and the handlers wait.
* The entry of `decode_map_` of a request whose replies end with an abort is never
  erased.
* A weight whose `scale_inv` lies in another file is copied unscaled, without a word
  (weight_loader.cc:431).

## 6. Not modelled

* Executing a forward: models, layers, kernels, sampling. A forward is the
  `LaunchOne` step of `Scheduler`, a sample any token of `Sampled`; in `Pipeline` it is
  one command per layer.
* Creating the engine, sizing the cache from free memory, capturing graphs: they
  run once, before the first request, and in one thread. Each rank sizes its cache
  by itself.
* The communicators: collectives are single NCCL calls, and nothing sends requests
  from rank to rank. The ranks meet in a file that rank 0 writes beside and renames
  and the others poll (distributed.cc:94). The file is never removed and its default
  path is the same for all, so a rank that polls before rank 0 has published takes the
  id of an earlier run; one whose poll times out leaves the others in
  `ncclCommInitRank`. The code has no protocol against either, and what happens next is
  inside NCCL.
* Encoding and chat templates: an external library, and string formatting.
* Routing, JSON, argument parsing, logging, profiling: they keep no state that
  the rest depends on.
* In `GraphRunner`, the default list of sizes (`determine_batch_sizes` without a
  configured list) is defined but not in the instance of the run.

## 7. Plan

Done: every component listed as modelled, its runs, and the theorems of section 4.

To come: `HeldStays` of `PrefixCache`, and the tree operators of `RadixCache` with eviction
stated without recursion, so that its counters can be reasoned about.
