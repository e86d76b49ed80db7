------------------------------ MODULE Frontend ------------------------------
(***************************************************************************)
(* From a client's request to its answer: the handlers of ApiServer        *)
(* (server/http_server.cc) and LLM (llm/llm.cc), FrontendManager with its  *)
(* request contexts, TokenizerWorkerPool and SchedulerRunner (all three in *)
(* server/frontend.cc), around the scheduler of Generation.                *)
(*                                                                         *)
(* The threads are the clients' handlers, one for each request, the        *)
(* encode threads, the decode thread and the runner. They share contexts_, *)
(* each context under its own mutex, and three queues. An action is one    *)
(* critical section, or one callback up to where it lets others in.        *)
(***************************************************************************)
EXTENDS Naturals, FiniteSets, SequencesExt

CONSTANTS
  Uids,           \* the requests, numbered by new_request
  Kind,           \* Kind[u]: which handler u has, see Arrive
  Limit,          \* Limit[u]: how many tokens the scheduler makes at most
  Valid,          \* Valid[u]: submit() does not drop u for its lengths
  EncodeThreads,  \* num_encode_threads_
  LateThrow       \* requests whose answer may throw when it is put together

ASSUME FrontendAssumption ==
  /\ Kind \in [Uids -> {"tokens", "text", "sse", "async", "stream"}]
  /\ Limit \in [Uids -> Nat \ {0}]
  /\ Valid \in [Uids -> BOOLEAN]
  /\ EncodeThreads \in Nat \ {0}
  /\ LateThrow \subseteq Uids

VARIABLES
  \* the handler of each request: where it is, the chunk in its hands, the
  \* tokens it has written, the result it has got
  handler,
  ctx,         \* contexts_: the context of a request, NoContext if none
  erasing,     \* <<thread, u>>: it has given u its result, next it erases u
  encodeTasks, \* encode_tasks_
  encoding,    \* requests in the hands of an encode thread
  checked,     \* those found not aborted, whose submit is the next thing
  commands,    \* commands_ of SchedulerRunner
  local,       \* local_commands of run_loop
  runner,      \* where run_loop is
  replies,     \* the replies of the current step()
  decodeTasks, \* decode_tasks_, batches of replies
  decoding,    \* what is left of the batch of the decode thread
  stop,        \* how far stop() of ApiServer, shutdown() of LLM, has come
  phase, sent  \* the scheduler

Service == INSTANCE Generation

clientVars  == <<handler, ctx, erasing>>
encodeVars  == <<encodeTasks, encoding, checked>>
runnerVars  == <<local, runner, replies>>
decodeVars  == <<decodeTasks, decoding>>
serviceVars == <<phase, sent>>
vars == <<clientVars, encodeVars, commands, runnerVars, decodeVars, stop,
          serviceVars>>

-----------------------------------------------------------------------------
(* Contexts and promises. *)

NoContext == [tokens |-> <<>>, chunks |-> <<>>, chunkPromise |-> FALSE,
              resultPromise |-> FALSE, finished |-> FALSE, aborted |-> FALSE,
              exists |-> FALSE]
NewContext == [NoContext EXCEPT !.exists = TRUE]

\* a reply: the n-th token of a request
Reply == [uid : Uids, n : Nat \ {0}, finished : BOOLEAN]

GoTo(u, pc) == handler' = [handler EXCEPT ![u].pc = pc]

\* mutant: the chunk promise is given its value and kept
FulfilKeepsPromise(thread, u, c, chunk) ==
  LET resultNow == c.resultPromise /\ c.finished
  IN  /\ handler' = [handler EXCEPT ![u] =
           IF c.chunkPromise /\ chunk # <<>>
           THEN [@ EXCEPT !.pc = "write", !.chunk = chunk]
           ELSE IF c.chunkPromise THEN [@ EXCEPT !.pc = "result"]
           ELSE IF resultNow THEN [@ EXCEPT !.pc = "respond", !.result = c.tokens]
           ELSE @]
      /\ ctx' = [ctx EXCEPT ![u] =
           [c EXCEPT !.resultPromise = @ /\ ~resultNow]]
      /\ erasing' = IF resultNow THEN erasing \cup {<<thread, u>>} ELSE erasing

\* A thread gives the promises of u their values after its context became c:
\* the chunk, or the end of the chunks, and the result once c is finished. It
\* erases the context after that, when the handler may be on its way already.
Fulfil(thread, u, c, chunk) ==
  LET resultNow == c.resultPromise /\ c.finished
  IN  /\ handler' = [handler EXCEPT ![u] =
           IF c.chunkPromise /\ chunk # <<>>
           THEN [@ EXCEPT !.pc = "write", !.chunk = chunk]
           ELSE IF c.chunkPromise THEN [@ EXCEPT !.pc = "result"]
           ELSE IF resultNow THEN [@ EXCEPT !.pc = "respond", !.result = c.tokens]
           ELSE @]
      /\ ctx' = [ctx EXCEPT ![u] =
           [c EXCEPT !.chunkPromise = FALSE, !.resultPromise = @ /\ ~resultNow]]
      /\ erasing' = IF resultNow THEN erasing \cup {<<thread, u>>} ELSE erasing

Erase(thread, u) ==
  /\ <<thread, u>> \in erasing
  /\ erasing' = erasing \ {<<thread, u>>}
  /\ ctx' = [ctx EXCEPT ![u] = NoContext]
  /\ UNCHANGED <<handler, encodeVars, commands, runnerVars, decodeVars, stop,
                 serviceVars>>

Busy(thread) == \E u \in Uids : <<thread, u>> \in erasing

\* mutant: finished, but no promise is given its value
CompleteSilently(u) ==
  IF ctx[u].exists
  THEN /\ ctx' = [ctx EXCEPT ![u].finished = TRUE]
       /\ UNCHANGED <<handler, erasing>>
  ELSE UNCHANGED clientVars

\* complete_request
Complete(u) ==
  IF ctx[u].exists
  THEN Fulfil("encode", u, [ctx[u] EXCEPT !.finished = TRUE], <<>>)
  ELSE UNCHANGED clientVars

Init ==
  /\ handler = [u \in Uids |-> [pc |-> "new", chunk |-> <<>>, got |-> <<>>,
                                result |-> <<>>, gaveUp |-> FALSE]]
  /\ ctx = [u \in Uids |-> NoContext] /\ erasing = {}
  /\ encodeTasks = <<>> /\ encoding = {} /\ checked = {}
  /\ commands = <<>> /\ local = <<>> /\ runner = "waits" /\ replies = <<>>
  /\ decodeTasks = <<>> /\ decoding = <<>>
  /\ stop = "no"
  /\ Service!Init

-----------------------------------------------------------------------------
(* The handlers. *)

Command(op, u) == [op |-> op, uid |-> u]

\* "tokens", "text": generate of LLM with token ids and with a text,
\* handle_generate; "sse": handle_generate_stream, both wait with a condition
\* variable; "async", "stream": the two ways of stream_generate_http.
\* Token ids that are no vector of integers complete the request at once.
Arrive(u) ==
  /\ handler[u].pc = "new"
  /\ stop = "no"
  /\ GoTo(u, CASE Kind[u] \in {"text", "tokens"} -> "wait"
               [] Kind[u] = "sse"    -> "next"
               [] Kind[u] = "async"  -> "result"
               [] Kind[u] = "stream" -> "begin")
  /\ \/ /\ Kind[u] = "tokens"
        /\ ctx' = [ctx EXCEPT ![u] = NewContext]
        /\ commands' = Append(commands, Command("submit", u))
        /\ UNCHANGED encodeTasks
     \/ /\ Kind[u] = "tokens"
        /\ ctx' = [ctx EXCEPT ![u] = [NewContext EXCEPT !.finished = TRUE]]
        /\ UNCHANGED <<commands, encodeTasks>>
     \/ /\ Kind[u] # "tokens"
        /\ ctx' = [ctx EXCEPT ![u] = NewContext]
        /\ encodeTasks' = Append(encodeTasks, u)
        /\ UNCHANGED commands
  /\ UNCHANGED <<erasing, encoding, checked, runnerVars, decodeVars, stop,
                 serviceVars>>

\* abort() by the handler, which then goes on at pc; it left no promise that
\* abort() would have to give a value
GiveUp(u, pc) ==
  /\ handler' = [handler EXCEPT ![u].pc = pc, ![u].gaveUp = TRUE]
  /\ IF ctx[u].exists
     THEN /\ ctx' = [ctx EXCEPT ![u].aborted = TRUE, ![u].finished = TRUE]
          /\ commands' = Append(commands, Command("abort", u))
     ELSE UNCHANGED <<ctx, commands>>
  /\ UNCHANGED <<erasing, encodeVars, runnerVars, decodeVars, stop, serviceVars>>

\* what only the handler and its context take part in
HandlerOnly == UNCHANGED <<erasing, encodeVars, commands, runnerVars, decodeVars, stop,
                           serviceVars>>

\* begin_chunked
Begin(u) == /\ handler[u].pc = "begin"
            /\ GoTo(u, "next")
            /\ UNCHANGED ctx
            /\ HandlerOnly
BeginFails(u) == handler[u].pc = "begin" /\ GiveUp(u, "result")

AfterChunks(u) == IF Kind[u] = "sse" THEN "wait" ELSE "result"

\* mutant: finished is looked at before pending_chunks
NextChunkFinishedFirst(u) ==
  /\ handler[u].pc = "next" /\ ctx[u].exists
  /\ Kind[u] = "sse" => ctx[u].chunks # <<>> \/ ctx[u].finished
  /\ IF ctx[u].finished
     THEN GoTo(u, AfterChunks(u)) /\ UNCHANGED ctx
     ELSE IF ctx[u].chunks # <<>>
     THEN /\ handler' = [handler EXCEPT ![u].pc = "write",
                                        ![u].chunk = <<Head(ctx[u].chunks)>>]
          /\ ctx' = [ctx EXCEPT ![u].chunks = Tail(@)]
     ELSE /\ GoTo(u, "suspended")
          /\ ctx' = [ctx EXCEPT ![u].chunkPromise = TRUE]
  /\ HandlerOnly

\* wait_next_chunk, once woken, and wait_next_chunk_async
NextChunk(u) ==
  /\ handler[u].pc = "next" /\ ctx[u].exists
  /\ Kind[u] = "sse" => ctx[u].chunks # <<>> \/ ctx[u].finished
  /\ IF ctx[u].chunks # <<>>
     THEN /\ handler' = [handler EXCEPT ![u].pc = "write",
                                        ![u].chunk = <<Head(ctx[u].chunks)>>]
          /\ ctx' = [ctx EXCEPT ![u].chunks = Tail(@)]
     ELSE IF ctx[u].finished
     THEN GoTo(u, AfterChunks(u)) /\ UNCHANGED ctx
     ELSE /\ GoTo(u, "suspended")
          /\ ctx' = [ctx EXCEPT ![u].chunkPromise = TRUE]
  /\ HandlerOnly

\* write_chunked, or a line of the stream's text; after the last chunk the loop ends
Write(u) ==
  /\ handler[u].pc = "write"
  /\ handler' = [handler EXCEPT
       ![u].pc = IF handler[u].chunk[1].finished THEN AfterChunks(u) ELSE "next",
       ![u].got = Append(@, handler[u].chunk[1].n),
       ![u].chunk = <<>>]
  /\ UNCHANGED ctx
  /\ HandlerOnly
WriteFails(u) ==
  handler[u].pc = "write" /\ Kind[u] = "stream" /\ GiveUp(u, "result")

\* the catch block: abort, wait_result
WriteThrows(u) ==
  handler[u].pc = "write" /\ Kind[u] = "stream" /\ GiveUp(u, "wait")

\* get_or_create_context of a request that has none (any more)
CreateContext(u) ==
  /\ handler[u].pc \in {"wait", "next", "result"} /\ ~ctx[u].exists
  /\ ctx' = [ctx EXCEPT ![u] = NewContext]
  /\ UNCHANGED handler
  /\ HandlerOnly

TakeResult(u) ==
  /\ handler' = [handler EXCEPT ![u].pc = "respond", ![u].result = ctx[u].tokens]
  /\ ctx' = [ctx EXCEPT ![u] = NoContext]

\* wait_result, once woken
WaitResult(u) ==
  /\ handler[u].pc = "wait"
  /\ ctx[u].finished
  /\ TakeResult(u)
  /\ HandlerOnly

\* mutant: a promise even for a finished context
WaitResultAlwaysSuspends(u) ==
  /\ handler[u].pc = "result"
  /\ ctx[u].exists
  /\ GoTo(u, "suspended")
  /\ ctx' = [ctx EXCEPT ![u].resultPromise = TRUE]
  /\ HandlerOnly

\* wait_result_async
WaitResultAsync(u) ==
  /\ handler[u].pc = "result"
  /\ ctx[u].exists
  /\ IF ctx[u].finished THEN TakeResult(u)
     ELSE /\ GoTo(u, "suspended")
          /\ ctx' = [ctx EXCEPT ![u].resultPromise = TRUE]
  /\ HandlerOnly

Respond(u) == /\ handler[u].pc = "respond"
              /\ GoTo(u, "done")
              /\ UNCHANGED ctx
              /\ HandlerOnly

\* dump() of a text that is not UTF-8, for one: into the catch block
RespondThrows(u) == /\ u \in LateThrow
                    /\ handler[u].pc = "respond"
                    /\ Kind[u] \in {"async", "stream"} /\ ~handler[u].gaveUp
                    /\ GiveUp(u, "wait")

HandlerGoesOn(u) ==
  \/ Begin(u) \/ BeginFails(u) \/ NextChunk(u) \/ Write(u) \/ WriteFails(u)
  \/ WriteThrows(u) \/ CreateContext(u) \/ WaitResult(u) \/ WaitResultAsync(u)
  \/ Respond(u) \/ RespondThrows(u)

-----------------------------------------------------------------------------
(* The encode threads: encode_loop and the callbacks of                    *)
(* submit_text_request.                                                    *)

TakeText ==
  /\ encodeTasks # <<>>
  /\ Cardinality(encoding) + Cardinality(checked) < EncodeThreads
  /\ encoding' = encoding \cup {Head(encodeTasks)}
  /\ encodeTasks' = Tail(encodeTasks)
  /\ UNCHANGED <<clientVars, checked, commands, runnerVars, decodeVars, stop,
                 serviceVars>>

\* tokenize, or normalize_input_ids in the callback, throws
TokenizeFails(u) ==
  /\ u \in encoding \cup checked
  /\ encoding' = encoding \ {u}
  /\ checked' = checked \ {u}
  /\ Complete(u)
  /\ UNCHANGED <<encodeTasks, commands, runnerVars, decodeVars, stop,
                 serviceVars>>

\* tokenized; is the request still wanted?
CheckAborted(u) ==
  /\ u \in encoding
  /\ encoding' = encoding \ {u}
  /\ checked' = IF ctx[u].exists /\ ~ctx[u].aborted THEN checked \cup {u}
                                                   ELSE checked
  /\ UNCHANGED <<clientVars, encodeTasks, commands, runnerVars, decodeVars, stop,
                 serviceVars>>

SubmitTokens(u) ==
  /\ u \in checked
  /\ checked' = checked \ {u}
  /\ commands' = Append(commands, Command("submit", u))
  /\ UNCHANGED <<clientVars, encodeTasks, encoding, runnerVars, decodeVars, stop,
                 serviceVars>>

Encode == \/ TakeText
          \/ \E u \in Uids : \/ TokenizeFails(u) \/ CheckAborted(u)
                             \/ SubmitTokens(u) \/ Erase("encode", u)

-----------------------------------------------------------------------------
(* run_loop. *)

HasWork == \E u \in Uids : phase[u] = "live"
StopRequested == stop # "no"

\* mutant: stop_requested_ wakes nobody
GatherCommandsOnly ==
  /\ runner = "waits"
  /\ commands # <<>> \/ HasWork
  /\ runner' = "executes" /\ local' = commands /\ commands' = <<>>
  /\ UNCHANGED <<clientVars, encodeVars, replies, decodeVars, stop, serviceVars>>

GatherCommands ==
  /\ runner = "waits"
  /\ StopRequested \/ commands # <<>> \/ HasWork
  /\ IF StopRequested /\ commands = <<>> /\ ~HasWork
     THEN runner' = "returned" /\ UNCHANGED <<local, commands>>
     ELSE runner' = "executes" /\ local' = commands /\ commands' = <<>>
  /\ UNCHANGED <<clientVars, encodeVars, replies, decodeVars, stop, serviceVars>>

\* Scheduler::submit, which drops what is not Valid, and Scheduler::abort,
\* which does nothing for a request it does not know, has ended, or whose
\* last forward is in flight
Execute ==
  /\ runner = "executes" /\ local # <<>>
  /\ LET u == Head(local).uid
     IN  IF Head(local).op = "submit"
         THEN IF Valid[u] THEN Service!Submit(u) ELSE UNCHANGED serviceVars
         ELSE \/ Service!Abort(u)
              \/ UNCHANGED serviceVars
  /\ local' = Tail(local)
  /\ UNCHANGED <<clientVars, encodeVars, commands, runner, replies, decodeVars,
                 stop>>

BeginStep ==
  /\ runner = "executes" /\ local = <<>>
  /\ runner' = IF HasWork THEN "steps" ELSE "waits"
  /\ UNCHANGED <<clientVars, encodeVars, commands, local, replies, decodeVars,
                 stop, serviceVars>>

\* step(): a token for some of the live requests
Generate(u) ==
  /\ runner = "steps"
  /\ \A i \in DOMAIN replies : replies[i].uid # u
  /\ \E last \in BOOLEAN :
       /\ Service!Reply(u, last)
       /\ replies' = Append(replies, [uid |-> u, n |-> sent[u] + 1, finished |-> last])
  /\ UNCHANGED <<clientVars, encodeVars, commands, local, runner, decodeVars, stop>>

\* the reply callback, if there are replies: handle_detokenize
EndStep ==
  /\ runner = "steps"
  /\ decodeTasks' = IF replies = <<>> THEN decodeTasks
                                      ELSE Append(decodeTasks, replies)
  /\ replies' = <<>>
  /\ runner' = "waits"
  /\ UNCHANGED <<clientVars, encodeVars, commands, local, decoding, stop, serviceVars>>

Run == \/ GatherCommands \/ Execute \/ BeginStep
       \/ \E u \in Uids : Generate(u)
       \/ EndStep

-----------------------------------------------------------------------------
(* The decode thread: decode_loop and the callback of handle_detokenize.   *)

TakeReplies ==
  /\ decoding = <<>> /\ decodeTasks # <<>> /\ ~Busy("decode")
  /\ decoding' = Head(decodeTasks)
  /\ decodeTasks' = Tail(decodeTasks)
  /\ UNCHANGED <<clientVars, encodeVars, commands, runnerVars, stop, serviceVars>>

\* mutant: pending_chunks gets the reply of the promise as well
ReceivedTwice(c, m) ==
  [c EXCEPT !.tokens = Append(@, m.n),
            !.chunks = Append(@, m),
            !.finished = @ \/ m.finished]

\* one reply: to the promise of the next chunk or to pending_chunks
Received(c, m) ==
  [c EXCEPT !.tokens = Append(@, m.n),
            !.chunks = IF c.chunkPromise THEN @ ELSE Append(@, m),
            !.finished = @ \/ m.finished]

\* mutant: get_or_create_context in place of find_context
HandleReplyCreates ==
  /\ decoding # <<>> /\ ~Busy("decode")
  /\ LET m == Head(decoding)
         c == IF ctx[m.uid].exists THEN ctx[m.uid] ELSE NewContext
     IN  Fulfil("decode", m.uid, Received(c, m), <<m>>)
  /\ decoding' = Tail(decoding)
  /\ UNCHANGED <<encodeVars, commands, runnerVars, decodeTasks, stop, serviceVars>>

HandleReply ==
  /\ decoding # <<>> /\ ~Busy("decode")
  /\ LET m == Head(decoding)
     IN  IF ctx[m.uid].exists THEN Fulfil("decode", m.uid, Received(ctx[m.uid], m), <<m>>)
         ELSE UNCHANGED clientVars
  /\ decoding' = Tail(decoding)
  /\ UNCHANGED <<encodeVars, commands, runnerVars, decodeTasks, stop, serviceVars>>

Decode == \/ TakeReplies \/ HandleReply
          \/ \E u \in Uids : Erase("decode", u)

-----------------------------------------------------------------------------
(* stop() and shutdown(): the runner first, then the tokenizer pool, whose *)
(* threads work off their queues before they return.                       *)

RequestStop == /\ stop = "no"
               /\ stop' = "runner"
               /\ UNCHANGED <<clientVars, encodeVars, commands, runnerVars,
                              decodeVars, serviceVars>>

StopPool == /\ stop = "runner" /\ runner = "returned"
            /\ encodeTasks = <<>> /\ encoding = {} /\ checked = {}
            /\ decodeTasks = <<>> /\ decoding = <<>> /\ erasing = {}
            /\ stop' = "stopped"
            /\ UNCHANGED <<clientVars, encodeVars, commands, runnerVars,
                           decodeVars, serviceVars>>

Next == \/ \E u \in Uids : Arrive(u) \/ HandlerGoesOn(u)
        \/ Encode \/ Run \/ Decode
        \/ RequestStop \/ StopPool

Spec == Init /\ [][Next]_vars

\* Every thread goes on when it can, and the scheduler serves a request that
\* it has (Served of Scheduler).
FairSpec == /\ Spec
            /\ \A u \in Uids : SF_vars(Generate(u))
            /\ \A u \in Uids : WF_vars(HandlerGoesOn(u))
            /\ WF_vars(Encode) /\ WF_vars(Run) /\ WF_vars(Decode)
            /\ WF_vars(StopPool)
-----------------------------------------------------------------------------
(* Types; a handler is suspended exactly while a promise waits for it.     *)
TypeOK ==
  /\ \A u \in Uids :
       LET h == handler[u]
           c == ctx[u]
       IN  /\ h.pc \in {"new", "begin", "next", "write", "wait", "result",
                        "suspended", "respond", "done"}
           /\ h.chunk \in Seq(Reply) /\ h.got \in Seq(Nat) /\ h.result \in Seq(Nat)
           /\ (h.pc = "suspended") = (c.chunkPromise \/ c.resultPromise)
           /\ c.tokens \in Seq(Nat) /\ c.chunks \in Seq(Reply)
           /\ ~c.exists => c = NoContext
  /\ erasing \subseteq {"encode", "decode"} \X Uids
  /\ encodeTasks \in Seq(Uids) /\ encoding \subseteq Uids /\ checked \subseteq Uids
  /\ \A i \in DOMAIN decodeTasks : decodeTasks[i] \in Seq(Reply)
  /\ decoding \in Seq(Reply) /\ replies \in Seq(Reply)
  /\ runner \in {"waits", "executes", "steps", "returned"}
  /\ stop \in {"no", "runner", "stopped"}

Numbers(s) == [i \in DOMAIN s |-> s[i].n]
UpTo(n) == [i \in 1 .. n |-> i]
AllSent(u) == UpTo(sent[u])

\* the replies on their way to the contexts, batch by batch, the next one first
Batches == <<decoding>> \o decodeTasks \o <<replies>>

\* what batches hold for u are the tokens first .. last, each once and in order
Holds(batches, u, first, last) ==
  /\ \A n \in first .. last :
       \E i \in DOMAIN batches : \E j \in DOMAIN batches[i] :
         batches[i][j].uid = u /\ batches[i][j].n = n
  /\ \A i, k \in DOMAIN batches : \A j \in DOMAIN batches[i], l \in DOMAIN batches[k] :
       batches[i][j].uid = u /\ batches[k][l].uid = u =>
         /\ batches[i][j].n \in first .. last
         /\ i < k \/ (i = k /\ j < l) => batches[i][j].n < batches[k][l].n

(* No token is lost, doubled or reordered between the scheduler, the       *)
(* queues, the context and, for a stream, its handler: what a context and  *)
(* the queues hold is what the scheduler has sent, and a stream has        *)
(* written, has in hand or still has pending what its context has got.     *)
NoTokenLost ==
  \A u \in Uids :
    LET c == ctx[u]
        h == handler[u]
    IN  c.exists /\ ~h.gaveUp =>
          /\ c.tokens = UpTo(Len(c.tokens)) /\ Len(c.tokens) <= sent[u]
          /\ Holds(Batches, u, Len(c.tokens) + 1, sent[u])
          /\ Kind[u] \in {"sse", "stream"} =>
               h.got \o Numbers(h.chunk) \o Numbers(c.chunks) = c.tokens

(* An answer is whole: a handler that was not interrupted gives its client *)
(* all tokens of an ended request, or none of a request that could not be  *)
(* tokenized; a stream has written just these.                             *)
AnswersWhole ==
  \A u \in Uids :
    LET h == handler[u]
    IN  h.pc \in {"respond", "done"} /\ ~h.gaveUp =>
          /\ h.result = AllSent(u)
          /\ phase[u] \in {"ended", "unknown"}
          /\ Kind[u] \in {"sse", "stream"} => h.got = h.result

(* No lost wakeup: once a context is finished nobody is suspended on it,   *)
(* whichever of abort, complete_request and handle_detokenize finished it  *)
(* and whenever the handler asked.                                         *)
NoLostWakeup ==
  \A u \in Uids :
    ctx[u].finished => ~ctx[u].chunkPromise /\ ~ctx[u].resultPromise

(* A handler leaves no context behind in contexts_, and what is still on   *)
(* its way for an aborted request does not bring one back.                 *)
NoContextLeft ==
  \A u \in Uids : handler[u].pc = "done" =>
    ~ctx[u].exists \/ \E thread \in {"encode", "decode"} : <<thread, u>> \in erasing

(* Every request is answered, a stream by the [DONE] after its last chunk  *)
(* (HttpE2ETest.StreamingGenerateEndpointEndsWithDone...), unless the      *)
(* server is stopped.                                                      *)
Answered ==
  \A u \in Uids : handler[u].pc = "begin" \/ ctx[u].exists
                    ~> handler[u].pc = "done" \/ StopRequested

(* stop() and shutdown() return: the runner leaves its loop once its work  *)
(* is done, the tokenizer's threads once their queues are empty, whatever  *)
(* these still send to each other.                                         *)
Stops == StopRequested ~> stop = "stopped"
=============================================================================
