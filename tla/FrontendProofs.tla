--------------------------- MODULE FrontendProofs ---------------------------
(***************************************************************************)
(* Theorems about Frontend, for every number of requests, kinds of         *)
(* handlers, limits and encode threads.                                    *)
(***************************************************************************)
EXTENDS Frontend, SequenceTheorems, TLAPS

-----------------------------------------------------------------------------
(* Types.                                                                  *)

Pcs == {"new", "begin", "next", "write", "wait", "result", "suspended",
        "respond", "done"}
Handlers == [pc : Pcs, chunk : Seq(Reply), got : Seq(Nat), result : Seq(Nat),
             gaveUp : BOOLEAN]
Contexts == [tokens : Seq(Nat), chunks : Seq(Reply), chunkPromise : BOOLEAN,
             resultPromise : BOOLEAN, finished : BOOLEAN, aborted : BOOLEAN,
             exists : BOOLEAN]
Commands == [op : {"submit", "abort"}, uid : Uids]
Threads == {"encode", "decode"}

ClientTypes ==
  /\ handler \in [Uids -> Handlers]
  /\ ctx \in [Uids -> Contexts]
  /\ erasing \subseteq Threads \X Uids

QueueTypes ==
  /\ encodeTasks \in Seq(Uids) /\ encoding \subseteq Uids /\ checked \subseteq Uids
  /\ commands \in Seq(Commands) /\ local \in Seq(Commands)
  /\ runner \in {"waits", "executes", "steps", "returned"}
  /\ replies \in Seq(Reply) /\ decoding \in Seq(Reply)
  /\ decodeTasks \in Seq(Seq(Reply))
  /\ stop \in {"no", "runner", "stopped"}
  /\ phase \in [Uids -> {"unknown", "live", "aborted", "ended"}]
  /\ sent \in [Uids -> Nat]

-----------------------------------------------------------------------------
(* Wakeups and contexts.                                                   *)

\* a handler is suspended while one promise of an unfinished context waits
\* for it, and has a chunk in hand when it writes
PromisesKept(u) ==
  LET h == handler[u]
      c == ctx[u]
  IN  /\ h.pc = "suspended" <=> c.chunkPromise \/ c.resultPromise
      /\ ~(c.chunkPromise /\ c.resultPromise)
      /\ c.finished => ~c.chunkPromise /\ ~c.resultPromise
      /\ ~c.exists => c = NoContext
      /\ h.pc = "write" => Len(h.chunk) = 1

Erasing(u) == \E thread \in Threads : <<thread, u>> \in erasing

\* a thread erases the context of a handler that has its result, and a
\* handler that has it leaves no context that nobody erases
ContextsGo(u) ==
  /\ Erasing(u) => handler[u].pc \in {"respond", "wait", "done"}
  /\ handler[u].pc \in {"respond", "done"} => ~ctx[u].exists \/ Erasing(u)

ClientInv == ClientTypes /\ \A u \in Uids : PromisesKept(u) /\ ContextsGo(u)

WakeInv == ClientInv /\ QueueTypes

\* A step that changes the handler and the context of u alone has to keep
\* what is said of u.
LEMMA OneClient ==
  ASSUME ClientInv, NEW u \in Uids, NEW h \in Handlers, NEW c \in Contexts,
         handler' = [handler EXCEPT ![u] = h], ctx' = [ctx EXCEPT ![u] = c],
         erasing' \subseteq Threads \X Uids,
         \A v \in Uids \ {u} : \A thread \in Threads :
           <<thread, v>> \in erasing' <=> <<thread, v>> \in erasing,
         h.pc = "suspended" <=> c.chunkPromise \/ c.resultPromise,
         ~(c.chunkPromise /\ c.resultPromise),
         c.finished => ~c.chunkPromise /\ ~c.resultPromise,
         ~c.exists => c = NoContext,
         h.pc = "write" => Len(h.chunk) = 1,
         Erasing(u)' => h.pc \in {"respond", "wait", "done"},
         h.pc \in {"respond", "done"} => ~c.exists \/ Erasing(u)'
  PROVE  ClientInv'
<1>1. ClientTypes'
  BY DEF ClientInv, ClientTypes
<1>2. handler'[u] = h /\ ctx'[u] = c
  BY DEF ClientInv, ClientTypes
<1>3. PromisesKept(u)' /\ ContextsGo(u)'
  BY <1>2 DEF PromisesKept, ContextsGo
<1>4. ASSUME NEW v \in Uids, v # u
      PROVE  PromisesKept(v)' /\ ContextsGo(v)'
  <2>1. handler'[v] = handler[v] /\ ctx'[v] = ctx[v] /\ (Erasing(v)' <=> Erasing(v))
    BY <1>4 DEF Erasing, ClientInv, ClientTypes
  <2> QED BY <2>1, <1>4 DEF ClientInv, PromisesKept, ContextsGo
<1> QED BY <1>1, <1>3, <1>4 DEF ClientInv

\* what ClientInv says of one request
LEMMA ClientOf ==
  ASSUME ClientInv, NEW u \in Uids
  PROVE  /\ handler[u] \in Handlers /\ ctx[u] \in Contexts
         /\ PromisesKept(u) /\ ContextsGo(u)
BY DEF ClientInv, ClientTypes

LEMMA NoContextType == NoContext \in Contexts /\ NewContext \in Contexts
BY EmptySeq DEF NoContext, NewContext, Contexts

\* Whoever finishes a context or adds to it, and gives its promises their
\* values, leaves nobody suspended on it.
LEMMA FulfilKeeps ==
  ASSUME ClientInv, NEW u \in Uids, NEW thread \in Threads,
         NEW c \in Contexts, NEW chunk \in Seq(Reply),
         ctx[u].exists, c.exists,
         c.chunkPromise <=> ctx[u].chunkPromise,
         c.resultPromise <=> ctx[u].resultPromise,
         chunk # <<>> => Len(chunk) = 1,
         Fulfil(thread, u, c, chunk)
  PROVE  ClientInv'
<1> DEFINE resultNow == c.resultPromise /\ c.finished
           h == IF c.chunkPromise /\ chunk # <<>>
                THEN [handler[u] EXCEPT !.pc = "write", !.chunk = chunk]
                ELSE IF c.chunkPromise THEN [handler[u] EXCEPT !.pc = "result"]
                ELSE IF resultNow
                THEN [handler[u] EXCEPT !.pc = "respond", !.result = c.tokens]
                ELSE handler[u]
           d == [c EXCEPT !.chunkPromise = FALSE, !.resultPromise = @ /\ ~resultNow]
<1>1. /\ handler' = [handler EXCEPT ![u] = h]
      /\ ctx' = [ctx EXCEPT ![u] = d]
      /\ erasing' = IF resultNow THEN erasing \cup {<<thread, u>>} ELSE erasing
  BY DEF Fulfil
<1>2. /\ handler[u] \in Handlers /\ ctx[u] \in Contexts
      /\ PromisesKept(u) /\ ContextsGo(u)
  BY ClientOf
<1>3. h \in Handlers /\ d \in Contexts
  BY <1>2 DEF Handlers, Contexts, Pcs
<1>4. /\ ~d.chunkPromise
      /\ d.resultPromise <=> c.resultPromise /\ ~c.finished
      /\ d.finished <=> c.finished
      /\ d.exists
  BY DEF Contexts
<1>5. /\ c.chunkPromise /\ chunk # <<>> => h.pc = "write" /\ h.chunk = chunk
      /\ c.chunkPromise /\ chunk = <<>> => h.pc = "result"
      /\ ~c.chunkPromise /\ resultNow => h.pc = "respond"
      /\ ~c.chunkPromise /\ ~resultNow => h = handler[u]
  BY <1>2 DEF Handlers
<1>6. /\ handler[u].pc = "suspended" <=> c.chunkPromise \/ c.resultPromise
      /\ ~(c.chunkPromise /\ c.resultPromise)
      /\ handler[u].pc = "write" => Len(handler[u].chunk) = 1
  BY <1>2 DEF PromisesKept
<1>7. ~Erasing(u) \/ ~(c.chunkPromise \/ c.resultPromise)
  BY <1>2, <1>6 DEF ContextsGo
<1>8. Erasing(u)' <=> Erasing(u) \/ resultNow
  BY <1>1 DEF Erasing
<1> HIDE DEF h, d
<1>9. h.pc = "suspended" <=> d.chunkPromise \/ d.resultPromise
  BY <1>4, <1>5, <1>6
<1>10. h.pc = "write" => Len(h.chunk) = 1
  BY <1>5, <1>6
<1>11. /\ Erasing(u)' => h.pc \in {"respond", "wait", "done"}
       /\ h.pc \in {"respond", "done"} => ~d.exists \/ Erasing(u)'
  BY <1>2, <1>5, <1>6, <1>7, <1>8 DEF ContextsGo
<1>12. /\ erasing' \subseteq Threads \X Uids
       /\ \A v \in Uids \ {u} : \A t \in Threads :
            <<t, v>> \in erasing' <=> <<t, v>> \in erasing
  BY <1>1 DEF ClientInv, ClientTypes
<1> QED BY <1>1, <1>3, <1>4, <1>9, <1>10, <1>11, <1>12, OneClient

LEMMA HandlerChange ==
  ASSUME ClientInv, NEW u \in Uids, NEW pc \in Pcs
  PROVE  /\ [handler EXCEPT ![u].pc = pc]
              = [handler EXCEPT ![u] = [handler[u] EXCEPT !.pc = pc]]
         /\ [handler EXCEPT ![u].pc = pc, ![u].gaveUp = TRUE]
              = [handler EXCEPT ![u] = [handler[u] EXCEPT !.pc = pc, !.gaveUp = TRUE]]
BY DEF ClientInv, ClientTypes, Handlers

\* Nobody is left suspended by abort(): its caller is at a place where it has
\* left no promise.
LEMMA GiveUpKeeps ==
  ASSUME ClientInv, NEW u \in Uids, NEW pc \in {"wait", "result"}, GiveUp(u, pc),
         handler[u].pc \in {"begin", "write", "respond"},
         pc = "result" => handler[u].pc \in {"begin", "write"}
  PROVE  ClientInv'
<1> DEFINE h == [handler[u] EXCEPT !.pc = pc, !.gaveUp = TRUE]
           c == IF ctx[u].exists THEN [ctx[u] EXCEPT !.aborted = TRUE, !.finished = TRUE]
                ELSE ctx[u]
<1>1. /\ handler[u] \in Handlers /\ ctx[u] \in Contexts
      /\ PromisesKept(u) /\ ContextsGo(u)
  BY ClientOf
<1>2. handler' = [handler EXCEPT ![u] = h]
  <2> pc \in Pcs  BY DEF Pcs
  <2> QED BY HandlerChange DEF GiveUp
<1>3. ctx' = [ctx EXCEPT ![u] = c]
  BY DEF GiveUp, ClientInv, ClientTypes
<1>4. h \in Handlers /\ h.pc = pc
  BY <1>1 DEF Handlers, Pcs
<1>5. /\ c \in Contexts
      /\ c.chunkPromise <=> ctx[u].chunkPromise
      /\ c.resultPromise <=> ctx[u].resultPromise
      /\ c.exists <=> ctx[u].exists
      /\ ~c.exists => c = ctx[u]
  BY <1>1 DEF Contexts
<1>6. erasing' = erasing
  BY DEF GiveUp
<1> HIDE DEF h, c
<1>7. Erasing(u)' <=> Erasing(u)
  BY <1>6 DEF Erasing
<1>8. erasing' \subseteq Threads \X Uids
  BY <1>6 DEF ClientInv, ClientTypes
<1>9. ~c.chunkPromise /\ ~c.resultPromise /\ (~c.exists => c = NoContext)
  BY <1>1, <1>5 DEF PromisesKept
<1>10. Erasing(u)' => h.pc = "wait"
  BY <1>1, <1>4, <1>7 DEF ContextsGo
<1> QED BY <1>2, <1>3, <1>4, <1>5, <1>6, <1>8, <1>9, <1>10, OneClient

LEMMA WaitsOn ==
  ASSUME ClientInv, NEW u \in Uids,
         \/ NextChunk(u) \/ Write(u) \/ WaitResult(u) \/ WaitResultAsync(u)
         \/ Begin(u) \/ CreateContext(u) \/ Respond(u)
  PROVE  ClientInv'
<1>1. /\ handler[u] \in Handlers /\ ctx[u] \in Contexts
      /\ PromisesKept(u) /\ ContextsGo(u)
  BY ClientOf
<1>2. UNCHANGED erasing
  BY DEF NextChunk, Write, WaitResult, WaitResultAsync, Begin, CreateContext,
         Respond, HandlerOnly
<1>3. /\ Erasing(u)' <=> Erasing(u)
      /\ erasing' \subseteq Threads \X Uids
  BY <1>2 DEF Erasing, ClientInv, ClientTypes
<1>4. NoContext \in Contexts /\ NewContext \in Contexts
  BY NoContextType
<1>5. CASE NextChunk(u)
  <2>1. /\ handler[u].pc = "next" /\ ctx[u].exists /\ ~Erasing(u)
        /\ ~ctx[u].chunkPromise /\ ~ctx[u].resultPromise
    BY <1>1, <1>5 DEF NextChunk, PromisesKept, ContextsGo
  <2>2. CASE ctx[u].chunks # <<>>
    <3> DEFINE m == Head(ctx[u].chunks)
               h == [handler[u] EXCEPT !.pc = "write", !.chunk = <<m>>]
               c == [ctx[u] EXCEPT !.chunks = Tail(@)]
    <3>1. m \in Reply /\ Tail(ctx[u].chunks) \in Seq(Reply)
      BY <1>1, <2>2, HeadTailProperties DEF Contexts
    <3>2. <<m>> \in Seq(Reply) /\ Len(<<m>>) = 1
      BY <3>1
    <3> HIDE DEF m
    <3>3. handler' = [handler EXCEPT ![u] = h] /\ ctx' = [ctx EXCEPT ![u] = c]
      BY <1>5, <2>2 DEF NextChunk, ClientInv, ClientTypes, Handlers, Contexts, m
    <3>4. h \in Handlers /\ h.pc = "write" /\ Len(h.chunk) = 1
      BY <1>1, <3>2 DEF Handlers, Pcs
    <3>5. /\ c \in Contexts /\ c.exists
          /\ c.chunkPromise <=> ctx[u].chunkPromise
          /\ c.resultPromise <=> ctx[u].resultPromise
      BY <1>1, <2>1, <3>1 DEF Contexts
    <3> HIDE DEF h, c
    <3> QED BY <1>2, <1>3, <2>1, <3>3, <3>4, <3>5, OneClient
  <2>3. CASE ctx[u].chunks = <<>> /\ ctx[u].finished
    <3> DEFINE h == [handler[u] EXCEPT !.pc = AfterChunks(u)]
    <3>1. AfterChunks(u) \in {"wait", "result"}
      BY DEF AfterChunks
    <3>2. handler' = [handler EXCEPT ![u] = h] /\ ctx' = [ctx EXCEPT ![u] = ctx[u]]
      BY <1>5, <2>3 DEF NextChunk, GoTo, ClientInv, ClientTypes, Handlers, Contexts
    <3>3. h \in Handlers /\ h.pc \in {"wait", "result"}
      BY <1>1, <3>1 DEF Handlers, Pcs
    <3> HIDE DEF h
    <3> QED BY <1>1, <1>2, <1>3, <2>1, <3>2, <3>3, OneClient
  <2>4. CASE ctx[u].chunks = <<>> /\ ~ctx[u].finished
    <3> DEFINE h == [handler[u] EXCEPT !.pc = "suspended"]
               c == [ctx[u] EXCEPT !.chunkPromise = TRUE]
    <3>1. handler' = [handler EXCEPT ![u] = h] /\ ctx' = [ctx EXCEPT ![u] = c]
      BY <1>5, <2>4 DEF NextChunk, GoTo, ClientInv, ClientTypes, Handlers, Contexts
    <3>2. h \in Handlers /\ h.pc = "suspended"
      BY <1>1 DEF Handlers, Pcs
    <3>3. /\ c \in Contexts /\ c.exists /\ c.chunkPromise /\ ~c.finished
          /\ c.resultPromise <=> ctx[u].resultPromise
      BY <1>1, <2>1, <2>4 DEF Contexts
    <3> HIDE DEF h, c
    <3> QED BY <1>2, <1>3, <2>1, <3>1, <3>2, <3>3, OneClient
  <2> QED BY <2>2, <2>3, <2>4
<1>6. CASE Write(u)
  <2> DEFINE n == handler[u].chunk[1].n
             h == [handler[u] EXCEPT
                     !.pc = IF handler[u].chunk[1].finished THEN AfterChunks(u)
                                                            ELSE "next",
                     !.got = Append(@, n), !.chunk = <<>>]
  <2>1. /\ handler[u].pc = "write" /\ Len(handler[u].chunk) = 1 /\ ~Erasing(u)
        /\ ~ctx[u].chunkPromise /\ ~ctx[u].resultPromise
    BY <1>1, <1>6 DEF Write, PromisesKept, ContextsGo
  <2>2. n \in Nat
    <3>1. handler[u].chunk[1] \in Reply
      BY <1>1, <2>1, ElementOfSeq DEF Handlers
    <3> QED BY <3>1 DEF Reply
  <2>3. handler' = [handler EXCEPT ![u] = h] /\ ctx' = [ctx EXCEPT ![u] = ctx[u]]
    BY <1>6 DEF Write, ClientInv, ClientTypes, Handlers, Contexts
  <2>4. h.pc \in {"wait", "result", "next"}
    BY <1>1 DEF Handlers, AfterChunks
  <2>5. h \in Handlers
    <3>1. Append(handler[u].got, n) \in Seq(Nat) /\ <<>> \in Seq(Reply)
      BY <1>1, <2>2 DEF Handlers
    <3> HIDE DEF n
    <3> QED BY <1>1, <3>1 DEF Handlers, Pcs, AfterChunks
  <2> HIDE DEF h
  <2> QED BY <1>1, <1>2, <1>3, <2>1, <2>3, <2>4, <2>5, OneClient DEF PromisesKept
<1>7. ASSUME TakeResult(u), handler[u].pc \in {"wait", "result"}, ctx[u].exists
      PROVE  ClientInv'
  <2> DEFINE h == [handler[u] EXCEPT !.pc = "respond", !.result = ctx[u].tokens]
  <2>1. handler' = [handler EXCEPT ![u] = h] /\ ctx' = [ctx EXCEPT ![u] = NoContext]
    BY <1>7 DEF TakeResult, ClientInv, ClientTypes, Handlers, Contexts
  <2>2. h \in Handlers /\ h.pc = "respond"
    BY <1>1 DEF Handlers, Contexts, Pcs
  <2>3. /\ ~NoContext.exists /\ ~NoContext.chunkPromise /\ ~NoContext.resultPromise
    BY DEF NoContext
  <2> HIDE DEF h
  <2> QED BY <1>2, <1>3, <1>4, <2>1, <2>2, <2>3, OneClient
<1>8. CASE WaitResult(u)
  <2>1. ctx[u].exists
    BY <1>1, <1>8 DEF WaitResult, PromisesKept, NoContext
  <2> QED BY <1>7, <1>8, <2>1 DEF WaitResult
<1>9. CASE WaitResultAsync(u)
  <2>1. CASE ctx[u].finished
    BY <1>7, <1>9, <2>1 DEF WaitResultAsync
  <2>2. CASE ~ctx[u].finished
    <3> DEFINE h == [handler[u] EXCEPT !.pc = "suspended"]
               c == [ctx[u] EXCEPT !.resultPromise = TRUE]
    <3>1. handler' = [handler EXCEPT ![u] = h] /\ ctx' = [ctx EXCEPT ![u] = c]
      BY <1>9, <2>2 DEF WaitResultAsync, GoTo, ClientInv, ClientTypes, Handlers, Contexts
    <3>2. h \in Handlers /\ h.pc = "suspended"
      BY <1>1 DEF Handlers, Pcs
    <3>3. ~ctx[u].chunkPromise /\ ~Erasing(u) /\ ctx[u].exists
      BY <1>1, <1>9 DEF WaitResultAsync, PromisesKept, ContextsGo
    <3>4. /\ c \in Contexts /\ c.exists /\ c.resultPromise /\ ~c.finished
          /\ ~c.chunkPromise
      BY <1>1, <2>2, <3>3 DEF Contexts
    <3> HIDE DEF h, c
    <3> QED BY <1>2, <1>3, <3>1, <3>2, <3>3, <3>4, OneClient
  <2> QED BY <2>1, <2>2
<1>10. CASE Begin(u)
  <2> DEFINE h == [handler[u] EXCEPT !.pc = "next"]
  <2>1. handler' = [handler EXCEPT ![u] = h] /\ ctx' = [ctx EXCEPT ![u] = ctx[u]]
    BY <1>10 DEF Begin, GoTo, ClientInv, ClientTypes, Handlers, Contexts
  <2>2. h \in Handlers /\ h.pc = "next"
    BY <1>1 DEF Handlers, Pcs
  <2>3. ~ctx[u].chunkPromise /\ ~ctx[u].resultPromise /\ ~Erasing(u)
    BY <1>1, <1>10 DEF Begin, PromisesKept, ContextsGo
  <2> HIDE DEF h
  <2> QED BY <1>1, <1>2, <1>3, <2>1, <2>2, <2>3, OneClient DEF PromisesKept
<1>11. CASE CreateContext(u)
  <2>1. handler' = [handler EXCEPT ![u] = handler[u]]
        /\ ctx' = [ctx EXCEPT ![u] = NewContext]
    BY <1>11 DEF CreateContext, ClientInv, ClientTypes
  <2>2. NewContext.exists /\ ~NewContext.chunkPromise /\ ~NewContext.resultPromise
    BY DEF NewContext, NoContext
  <2>3. handler[u].pc \in {"wait", "next", "result"}
    BY <1>11 DEF CreateContext
  <2> QED BY <1>1, <1>2, <1>3, <1>4, <2>1, <2>2, <2>3, OneClient DEF ContextsGo
<1>12. CASE Respond(u)
  <2> DEFINE h == [handler[u] EXCEPT !.pc = "done"]
  <2>1. handler' = [handler EXCEPT ![u] = h] /\ ctx' = [ctx EXCEPT ![u] = ctx[u]]
    BY <1>12 DEF Respond, GoTo, ClientInv, ClientTypes, Handlers, Contexts
  <2>2. h \in Handlers /\ h.pc = "done"
    BY <1>1 DEF Handlers, Pcs
  <2>3. /\ ~ctx[u].chunkPromise /\ ~ctx[u].resultPromise
        /\ ~ctx[u].exists \/ Erasing(u)
    BY <1>1, <1>12 DEF Respond, PromisesKept, ContextsGo
  <2> HIDE DEF h
  <2> QED BY <1>1, <1>2, <1>3, <2>1, <2>2, <2>3, OneClient DEF PromisesKept
<1> QED BY <1>5, <1>6, <1>8, <1>9, <1>10, <1>11, <1>12

LEMMA ArriveKeeps ==
  ASSUME ClientInv, NEW u \in Uids, Arrive(u)
  PROVE  ClientInv'
<1>1. /\ handler[u] \in Handlers /\ ctx[u] \in Contexts
      /\ PromisesKept(u) /\ ContextsGo(u) /\ handler[u].pc = "new"
  BY ClientOf DEF Arrive
<1>2. UNCHANGED erasing
  BY DEF Arrive
<1>3. /\ Erasing(u)' <=> Erasing(u)
      /\ erasing' \subseteq Threads \X Uids
  BY <1>2 DEF Erasing, ClientInv, ClientTypes
<1>4. PICK pc \in {"wait", "next", "result", "begin"} :
        handler' = [handler EXCEPT ![u] = [handler[u] EXCEPT !.pc = pc]]
  <2>1. PICK pc \in {"wait", "next", "result", "begin"} : GoTo(u, pc)
    BY FrontendAssumption DEF Arrive
  <2>2. pc \in Pcs
    BY DEF Pcs
  <2> QED BY <2>1, <2>2, HandlerChange DEF GoTo
<1> DEFINE h == [handler[u] EXCEPT !.pc = pc]
           finishedAtOnce == [NewContext EXCEPT !.finished = TRUE]
<1>5. h \in Handlers /\ h.pc = pc
  BY <1>1 DEF Handlers, Pcs
<1>6. \E c \in {NewContext, finishedAtOnce} : ctx' = [ctx EXCEPT ![u] = c]
  BY DEF Arrive
<1>7. NewContext \in Contexts /\ finishedAtOnce \in Contexts
  BY NoContextType DEF Contexts
<1>8. \A c \in {NewContext, finishedAtOnce} :
        c.exists /\ ~c.chunkPromise /\ ~c.resultPromise
  BY DEF NewContext, NoContext
<1>9. ~Erasing(u)
  BY <1>1 DEF ContextsGo
<1> HIDE DEF h, finishedAtOnce
<1>10. handler' = [handler EXCEPT ![u] = h]
  BY <1>4 DEF h
<1> QED BY <1>2, <1>3, <1>5, <1>6, <1>7, <1>8, <1>9, <1>10, OneClient

LEMMA EraseKeeps ==
  ASSUME ClientInv, NEW u \in Uids, NEW thread \in Threads, Erase(thread, u)
  PROVE  ClientInv'
<1>1. /\ handler[u] \in Handlers /\ PromisesKept(u) /\ ContextsGo(u)
      /\ handler[u].pc \in {"respond", "wait", "done"}
  BY ClientOf DEF Erase, ContextsGo, Erasing
<1>2. handler' = [handler EXCEPT ![u] = handler[u]]
      /\ ctx' = [ctx EXCEPT ![u] = NoContext]
  BY DEF Erase, ClientInv, ClientTypes
<1>3. NoContext \in Contexts /\ ~NoContext.exists
      /\ ~NoContext.chunkPromise /\ ~NoContext.resultPromise
  BY NoContextType DEF NoContext
<1>4. /\ erasing' \subseteq Threads \X Uids
      /\ \A v \in Uids \ {u} : \A t \in Threads :
           <<t, v>> \in erasing' <=> <<t, v>> \in erasing
  BY DEF Erase, ClientInv, ClientTypes
<1> QED BY <1>1, <1>2, <1>3, <1>4, OneClient

LEMMA ReceivedType ==
  ASSUME NEW c \in Contexts, NEW m \in Reply
  PROVE  /\ Received(c, m) \in Contexts
         /\ Received(c, m).exists <=> c.exists
         /\ Received(c, m).chunkPromise <=> c.chunkPromise
         /\ Received(c, m).resultPromise <=> c.resultPromise
<1>1. /\ m.n \in Nat /\ m.finished \in BOOLEAN
      /\ Append(c.tokens, m.n) \in Seq(Nat)
      /\ Append(c.chunks, m) \in Seq(Reply)
  BY DEF Reply, Contexts
<1> QED BY <1>1 DEF Received, Contexts

LEMMA CompleteKeeps ==
  ASSUME ClientInv, NEW u \in Uids, Complete(u)
  PROVE  ClientInv'
<1>1. CASE ctx[u].exists
  <2> DEFINE c == [ctx[u] EXCEPT !.finished = TRUE]
  <2>1. /\ c \in Contexts /\ c.exists
        /\ c.chunkPromise <=> ctx[u].chunkPromise
        /\ c.resultPromise <=> ctx[u].resultPromise
    BY <1>1, ClientOf DEF Contexts
  <2>2. Fulfil("encode", u, c, <<>>)
    BY <1>1 DEF Complete
  <2>3. "encode" \in Threads /\ <<>> \in Seq(Reply)
    BY DEF Threads
  <2> HIDE DEF c
  <2> QED BY <1>1, <2>1, <2>2, <2>3, FulfilKeeps
<1>2. CASE ~ctx[u].exists
  BY <1>2 DEF Complete, clientVars, ClientInv, ClientTypes, PromisesKept,
              ContextsGo, Erasing
<1> QED BY <1>1, <1>2

LEMMA HandleReplyKeeps ==
  ASSUME ClientInv, QueueTypes, HandleReply
  PROVE  ClientInv'
<1> DEFINE m == Head(decoding)
<1>1. m \in Reply
  BY HeadTailProperties DEF QueueTypes, HandleReply
<1>2. m.uid \in Uids /\ <<m>> \in Seq(Reply) /\ Len(<<m>>) = 1 /\ "decode" \in Threads
  BY <1>1 DEF Reply, Threads
<1>3. CASE ctx[m.uid].exists
  <2>1. Fulfil("decode", m.uid, Received(ctx[m.uid], m), <<m>>)
    BY <1>3 DEF HandleReply
  <2>2. ctx[m.uid] \in Contexts
    BY <1>2, ClientOf
  <2> HIDE DEF m
  <2>3. /\ Received(ctx[m.uid], m) \in Contexts
        /\ Received(ctx[m.uid], m).exists
        /\ Received(ctx[m.uid], m).chunkPromise <=> ctx[m.uid].chunkPromise
        /\ Received(ctx[m.uid], m).resultPromise <=> ctx[m.uid].resultPromise
    BY <1>1, <1>3, <2>2, ReceivedType
  <2> QED BY <1>2, <1>3, <2>1, <2>3, FulfilKeeps
<1>4. CASE ~ctx[m.uid].exists
  BY <1>4 DEF HandleReply, clientVars, ClientInv, ClientTypes, PromisesKept,
              ContextsGo, Erasing
<1> QED BY <1>3, <1>4

LEMMA ClientNext ==
  ASSUME ClientInv, QueueTypes, [Next]_vars
  PROVE  ClientInv'
<1>1. ASSUME UNCHANGED clientVars
      PROVE  ClientInv'
  BY <1>1 DEF clientVars, ClientInv, ClientTypes, PromisesKept, ContextsGo, Erasing
<1>2. ASSUME NEW u \in Uids, HandlerGoesOn(u)
      PROVE  ClientInv'
  <2>1. CASE BeginFails(u)
    BY <2>1, GiveUpKeeps DEF BeginFails
  <2>2. CASE WriteFails(u)
    BY <2>2, GiveUpKeeps DEF WriteFails
  <2>3. CASE WriteThrows(u)
    BY <2>3, GiveUpKeeps DEF WriteThrows
  <2>4. CASE RespondThrows(u)
    BY <2>4, GiveUpKeeps DEF RespondThrows
  <2> QED BY <1>2, <2>1, <2>2, <2>3, <2>4, WaitsOn DEF HandlerGoesOn
<1>3. CASE Encode
  <2>1. CASE TakeText
    BY <1>1, <2>1 DEF TakeText
  <2>2. ASSUME NEW u \in Uids, TokenizeFails(u)  PROVE ClientInv'
    BY <2>2, CompleteKeeps DEF TokenizeFails
  <2>3. ASSUME NEW u \in Uids, CheckAborted(u) \/ SubmitTokens(u)  PROVE ClientInv'
    BY <1>1, <2>3 DEF CheckAborted, SubmitTokens
  <2>4. ASSUME NEW u \in Uids, Erase("encode", u)  PROVE ClientInv'
    BY <2>4, EraseKeeps DEF Threads
  <2> QED BY <1>3, <2>1, <2>2, <2>3, <2>4 DEF Encode
<1>4. CASE Run
  BY <1>1, <1>4 DEF Run, GatherCommands, Execute, BeginStep, Generate, EndStep
<1>5. CASE Decode
  <2>1. CASE TakeReplies
    BY <1>1, <2>1 DEF TakeReplies
  <2>2. CASE HandleReply
    BY <2>2, HandleReplyKeeps
  <2>3. ASSUME NEW u \in Uids, Erase("decode", u)  PROVE ClientInv'
    BY <2>3, EraseKeeps DEF Threads
  <2> QED BY <1>5, <2>1, <2>2, <2>3 DEF Decode
<1>6. CASE RequestStop \/ StopPool \/ UNCHANGED vars
  BY <1>1, <1>6 DEF RequestStop, StopPool, vars
<1> QED BY <1>2, <1>3, <1>4, <1>5, <1>6, ArriveKeeps DEF Next

LEMMA QueueInit == Init => QueueTypes
BY EmptySeq DEF Init, QueueTypes, Service!Init

LEMMA QueueNext ==
  ASSUME WakeInv, [Next]_vars
  PROVE  QueueTypes'
<1> USE DEF WakeInv
<1>1. ASSUME NEW u \in Uids
      PROVE  /\ Append(commands, Command("submit", u)) \in Seq(Commands)
             /\ Append(commands, Command("abort", u)) \in Seq(Commands)
             /\ Append(encodeTasks, u) \in Seq(Uids)
  <2>1. Command("submit", u) \in Commands /\ Command("abort", u) \in Commands
    BY DEF Command, Commands
  <2> QED BY <2>1 DEF QueueTypes
<1>2. ASSUME NEW u \in Uids, Arrive(u)  PROVE QueueTypes'
  BY <1>1, <1>2 DEF Arrive, QueueTypes, runnerVars, decodeVars, serviceVars
<1>3. ASSUME NEW u \in Uids, HandlerGoesOn(u)  PROVE QueueTypes'
  <2>1. /\ commands' = commands \/ commands' = Append(commands, Command("abort", u))
        /\ UNCHANGED <<encodeVars, runnerVars, decodeVars, stop, serviceVars>>
    BY <1>3 DEF HandlerGoesOn, Begin, BeginFails, NextChunk, Write, WriteFails,
         WriteThrows, CreateContext, WaitResult, WaitResultAsync, Respond,
         RespondThrows, GiveUp, HandlerOnly
  <2>2. commands' \in Seq(Commands)
    BY <1>1, <2>1 DEF QueueTypes
  <2> QED BY <2>1, <2>2 DEF QueueTypes, encodeVars, runnerVars, decodeVars, serviceVars
<1>4. CASE Encode
  <2>1. CASE TakeText
    <3>1. Head(encodeTasks) \in Uids /\ Tail(encodeTasks) \in Seq(Uids)
      BY <2>1, HeadTailProperties DEF TakeText, QueueTypes
    <3> QED BY <2>1, <3>1 DEF TakeText, QueueTypes, runnerVars, decodeVars, serviceVars
  <2>2. ASSUME NEW u \in Uids,
               TokenizeFails(u) \/ CheckAborted(u) \/ Erase("encode", u)
        PROVE  QueueTypes'
    BY <2>2 DEF TokenizeFails, CheckAborted, Erase, QueueTypes, encodeVars,
                runnerVars, decodeVars, serviceVars
  <2>3. ASSUME NEW u \in Uids, SubmitTokens(u)  PROVE QueueTypes'
    BY <1>1, <2>3 DEF SubmitTokens, QueueTypes, runnerVars, decodeVars, serviceVars
  <2> QED BY <1>4, <2>1, <2>2, <2>3 DEF Encode
<1>5. CASE Run
  <2>1. CASE GatherCommands
    BY <2>1, EmptySeq DEF GatherCommands, QueueTypes, encodeVars, decodeVars, serviceVars
  <2>2. CASE Execute
    <3>1. Head(local) \in Commands /\ Tail(local) \in Seq(Commands)
      BY <2>2, HeadTailProperties DEF Execute, QueueTypes
    <3>2. phase' \in [Uids -> {"unknown", "live", "aborted", "ended"}]
          /\ sent' = sent
      BY <2>2, <3>1 DEF Execute, QueueTypes, Commands, Service!Submit,
                        Service!Abort, serviceVars
    <3> QED BY <2>2, <3>1, <3>2 DEF Execute, QueueTypes, encodeVars, decodeVars
  <2>3. CASE BeginStep
    BY <2>3 DEF BeginStep, QueueTypes, encodeVars, decodeVars, serviceVars
  <2>4. ASSUME NEW u \in Uids, Generate(u)  PROVE QueueTypes'
    <3>1. PICK last \in BOOLEAN :
            /\ Service!Reply(u, last)
            /\ replies' = Append(replies, [uid |-> u, n |-> sent[u] + 1, finished |-> last])
      BY <2>4 DEF Generate
    <3>2. [uid |-> u, n |-> sent[u] + 1, finished |-> last] \in Reply
      BY DEF Reply, QueueTypes
    <3>3. replies' \in Seq(Reply)
      BY <3>1, <3>2 DEF QueueTypes
    <3>4. /\ phase' \in [Uids -> {"unknown", "live", "aborted", "ended"}]
          /\ sent' \in [Uids -> Nat]
      BY <3>1 DEF QueueTypes, Service!Reply
    <3> QED BY <2>4, <3>3, <3>4 DEF Generate, QueueTypes, encodeVars, decodeVars
  <2>5. CASE EndStep
    <3>1. decodeTasks' \in Seq(Seq(Reply)) /\ replies' \in Seq(Reply)
      BY <2>5, EmptySeq DEF EndStep, QueueTypes
    <3> QED BY <2>5, <3>1 DEF EndStep, QueueTypes, encodeVars, serviceVars
  <2> QED BY <1>5, <2>1, <2>2, <2>3, <2>4, <2>5 DEF Run
<1>6. CASE Decode
  <2>1. CASE TakeReplies
    <3>1. Head(decodeTasks) \in Seq(Reply) /\ Tail(decodeTasks) \in Seq(Seq(Reply))
      BY <2>1, HeadTailProperties DEF TakeReplies, QueueTypes
    <3> QED BY <2>1, <3>1 DEF TakeReplies, QueueTypes, encodeVars, runnerVars, serviceVars
  <2>2. CASE HandleReply
    <3>1. Tail(decoding) \in Seq(Reply)
      BY <2>2, HeadTailProperties DEF HandleReply, QueueTypes
    <3> QED BY <2>2, <3>1 DEF HandleReply, QueueTypes, encodeVars, runnerVars, serviceVars
  <2>3. ASSUME NEW u \in Uids, Erase("decode", u)  PROVE QueueTypes'
    BY <2>3 DEF Erase, QueueTypes, encodeVars, runnerVars, decodeVars, serviceVars
  <2> QED BY <1>6, <2>1, <2>2, <2>3 DEF Decode
<1>7. CASE RequestStop \/ StopPool
  BY <1>7 DEF RequestStop, StopPool, QueueTypes, encodeVars, runnerVars,
              decodeVars, serviceVars
<1>8. CASE UNCHANGED vars
  BY <1>8 DEF vars, QueueTypes, encodeVars, runnerVars, decodeVars, serviceVars
<1> QED BY <1>2, <1>3, <1>4, <1>5, <1>6, <1>7, <1>8 DEF Next

LEMMA WakeInit == Init => WakeInv
<1> SUFFICES ASSUME Init  PROVE WakeInv
  OBVIOUS
<1>1. QueueTypes
  BY QueueInit
<1>2. ClientTypes
  BY NoContextType, EmptySeq DEF Init, ClientTypes, Handlers, Pcs
<1>3. ASSUME NEW u \in Uids  PROVE PromisesKept(u) /\ ContextsGo(u)
  BY DEF Init, PromisesKept, ContextsGo, Erasing, NoContext
<1> QED BY <1>1, <1>2, <1>3 DEF WakeInv, ClientInv

LEMMA WakeAlways == Spec => []WakeInv
<1>1. WakeInv /\ [Next]_vars => WakeInv'
  BY ClientNext, QueueNext DEF WakeInv
<1> QED BY <1>1, WakeInit, PTL DEF Spec

(* Every handler, context, queue and thread keeps its type, and a handler  *)
(* is suspended exactly while a promise of its context waits for it.       *)
THEOREM TypeCorrect == Spec => []TypeOK
<1>1. WakeInv => TypeOK
  <2> SUFFICES ASSUME WakeInv  PROVE TypeOK
    OBVIOUS
  <2>1. ASSUME NEW u \in Uids
        PROVE  LET h == handler[u]
                   c == ctx[u]
               IN  /\ h.pc \in Pcs
                   /\ h.chunk \in Seq(Reply) /\ h.got \in Seq(Nat) /\ h.result \in Seq(Nat)
                   /\ (h.pc = "suspended") = (c.chunkPromise \/ c.resultPromise)
                   /\ c.tokens \in Seq(Nat) /\ c.chunks \in Seq(Reply)
                   /\ ~c.exists => c = NoContext
    <3>1. handler[u] \in Handlers /\ ctx[u] \in Contexts /\ PromisesKept(u)
      BY ClientOf DEF WakeInv
    <3>2. handler[u].pc = "suspended" <=> ctx[u].chunkPromise \/ ctx[u].resultPromise
      BY <3>1 DEF PromisesKept
    <3>3. (handler[u].pc = "suspended") = (ctx[u].chunkPromise \/ ctx[u].resultPromise)
      BY <3>2
    <3> QED BY <3>1, <3>3 DEF PromisesKept, Handlers, Contexts
  <2>2. \A i \in DOMAIN decodeTasks : decodeTasks[i] \in Seq(Reply)
    BY DEF WakeInv, QueueTypes
  <2> QED BY <2>1, <2>2 DEF WakeInv, ClientInv, ClientTypes, QueueTypes, TypeOK,
                            Pcs, Threads
<1> QED BY <1>1, WakeAlways, PTL

(* Once a context is finished nobody is suspended on it, whoever finished  *)
(* it and whenever the handler asked.                                      *)
THEOREM NobodySleepsOn == Spec => []NoLostWakeup
<1>1. WakeInv => NoLostWakeup
  BY DEF WakeInv, ClientInv, PromisesKept, NoLostWakeup
<1> QED BY <1>1, WakeAlways, PTL

(* A handler that is done leaves no context, but for one that a thread is  *)
(* about to erase.                                                         *)
THEOREM ContextsAreErased == Spec => []NoContextLeft
<1>1. WakeInv => NoContextLeft
  BY DEF WakeInv, ClientInv, ContextsGo, Erasing, Threads, NoContextLeft
<1> QED BY <1>1, WakeAlways, PTL

-----------------------------------------------------------------------------
(* What is asked of the scheduler.                                         *)

Occurs(s, x) == \E i \in DOMAIN s : s[i] = x
AtMostOnce(s, x) == \A i, j \in DOMAIN s : s[i] = x /\ s[j] = x => i = j

Asked(u)    == Occurs(commands, Command("submit", u))
Gathered(u) == Occurs(local, Command("submit", u))

\* u has yet to come to the scheduler
Queued(u) == \/ Occurs(encodeTasks, u) \/ u \in encoding \/ u \in checked
             \/ Asked(u) \/ Gathered(u)

\* a request is at one place on its way to the scheduler
AtOnePlace(u) ==
  /\ AtMostOnce(encodeTasks, u)
  /\ AtMostOnce(commands, Command("submit", u))
  /\ AtMostOnce(local, Command("submit", u))
  /\ Occurs(encodeTasks, u) =>
       u \notin encoding /\ u \notin checked /\ ~Asked(u) /\ ~Gathered(u)
  /\ u \in encoding => u \notin checked /\ ~Asked(u) /\ ~Gathered(u)
  /\ u \in checked => ~Asked(u) /\ ~Gathered(u)
  /\ Asked(u) => ~Gathered(u)

\* a request comes to the scheduler once, after its client came, and only a
\* handler that gave up has it aborted
SubmittedOnce(u) ==
  /\ AtOnePlace(u)
  /\ Queued(u) => phase[u] = "unknown"
  /\ handler[u].pc = "new" => ~Queued(u) /\ phase[u] = "unknown" /\ ~handler[u].gaveUp
  /\ phase[u] = "unknown" => sent[u] = 0
  /\ Occurs(commands, Command("abort", u)) => handler[u].gaveUp
  /\ Occurs(local, Command("abort", u)) => handler[u].gaveUp
  /\ phase[u] = "aborted" => handler[u].gaveUp

QueueInv == \A u \in Uids : SubmittedOnce(u)

-----------------------------------------------------------------------------
(* What becomes of the tokens of a request whose handler goes on.          *)

\* batches hold the replies first .. last to u; the last one is marked when u
\* has ended, and no other
Awaits(batches, u, first, last, ph) ==
  /\ Holds(batches, u, first, last)
  /\ \A i \in DOMAIN batches : \A j \in DOMAIN batches[i] :
       batches[i][j].uid = u /\ batches[i][j].finished =>
         ph = "ended" /\ batches[i][j].n = last

\* nothing more comes for u
Settled(u) == ~Queued(u) /\ phase[u] \in {"unknown", "ended"}

\* the context of u has the first tokens, the others are on their way
ContextGets(u) ==
  LET c == ctx[u]
  IN  c.exists =>
        /\ c.tokens = UpTo(Len(c.tokens))
        /\ Len(c.tokens) <= sent[u]
        /\ Awaits(Batches, u, Len(c.tokens) + 1, sent[u], phase[u])
        /\ c.finished => Settled(u) /\ Len(c.tokens) = sent[u]

\* where the handler is tells what it has
HandlerHas(u) ==
  LET h == handler[u]
  IN  /\ h.pc = "new" =>
           ~ctx[u].exists /\ Awaits(Batches, u, 1, sent[u], phase[u])
      /\ h.pc \in {"begin", "next", "write", "wait", "result", "suspended"} =>
           ctx[u].exists /\ ~Erasing(u)
      /\ h.pc \in {"respond", "done"} => Settled(u) /\ h.result = AllSent(u)

Streamed(u) == Kind[u] \in {"sse", "stream"}

\* a stream has written, has in hand and has pending what its context got
StreamHas(u) ==
  LET h == handler[u]
      c == ctx[u]
      written == Len(h.got) + Len(h.chunk)
  IN  /\ h.got = UpTo(Len(h.got))
      /\ h.chunk # <<>> => h.pc = "write"
      /\ h.pc = "new" => h.got = <<>>
      /\ \A i \in DOMAIN h.chunk :
           /\ h.chunk[i].n = Len(h.got) + i
           /\ h.chunk[i].finished => c.chunks = <<>> /\ c.finished
      /\ c.exists =>
           /\ Len(c.tokens) = written + Len(c.chunks)
           /\ \A i \in DOMAIN c.chunks :
                /\ c.chunks[i].n = written + i
                /\ c.chunks[i].finished => i = Len(c.chunks) /\ c.finished
      /\ c.chunkPromise => c.chunks = <<>>
      /\ ~c.resultPromise
      /\ h.pc \in {"wait", "result"} => c.finished /\ c.chunks = <<>>
      /\ h.pc \in {"respond", "done"} => h.got = h.result

AnswerInv(u) ==
  ~handler[u].gaveUp =>
    /\ ContextGets(u)
    /\ HandlerHas(u)
    /\ Streamed(u) => StreamHas(u)
    /\ handler[u].pc \in {"begin", "next", "write"} \/ ctx[u].chunkPromise => Streamed(u)

FlowInv == \A u \in Uids : AnswerInv(u)

LEMMA OccursAppend ==
  ASSUME NEW S, NEW s \in Seq(S), NEW x, NEW y \in S
  PROVE  /\ Occurs(Append(s, y), x) <=> Occurs(s, x) \/ x = y
         /\ AtMostOnce(s, x) /\ (x = y => ~Occurs(s, x)) => AtMostOnce(Append(s, y), x)
<1>1. /\ Append(s, y) \in Seq(S) /\ Len(Append(s, y)) = Len(s) + 1
      /\ DOMAIN s = 1 .. Len(s) /\ DOMAIN Append(s, y) = 1 .. Len(s) + 1
      /\ Len(s) \in Nat
      /\ \A i \in 1 .. Len(s) : Append(s, y)[i] = s[i]
      /\ Append(s, y)[Len(s) + 1] = y
  OBVIOUS
<1>2. \A i \in 1 .. Len(s) + 1 : i \in 1 .. Len(s) \/ i = Len(s) + 1
  BY <1>1
<1>3. 1 .. Len(s) \subseteq 1 .. Len(s) + 1 /\ Len(s) + 1 \in 1 .. Len(s) + 1
  BY <1>1
<1>4. Occurs(Append(s, y), x) <=> Occurs(s, x) \/ x = y
  BY <1>1, <1>2, <1>3 DEF Occurs
<1>5. ASSUME AtMostOnce(s, x), x = y => ~Occurs(s, x)  PROVE AtMostOnce(Append(s, y), x)
  BY <1>1, <1>2, <1>5 DEF Occurs, AtMostOnce
<1> QED BY <1>4, <1>5

LEMMA OccursTail ==
  ASSUME NEW S, NEW s \in Seq(S), s # <<>>, NEW x
  PROVE  /\ Occurs(s, x) <=> Occurs(Tail(s), x) \/ x = Head(s)
         /\ AtMostOnce(s, x) => AtMostOnce(Tail(s), x)
         /\ AtMostOnce(s, x) /\ x = Head(s) => ~Occurs(Tail(s), x)
<1>1. /\ Len(s) \in Nat \ {0} /\ Head(s) = s[1]
      /\ DOMAIN s = 1 .. Len(s) /\ DOMAIN Tail(s) = 1 .. Len(s) - 1
      /\ \A i \in 1 .. Len(s) - 1 : Tail(s)[i] = s[i + 1]
  BY EmptySeq
<1>2. ASSUME NEW i \in 1 .. Len(s)  PROVE i = 1 \/ (i - 1 \in DOMAIN Tail(s) /\ s[i] = Tail(s)[i - 1])
  BY <1>1
<1>3. ASSUME NEW i \in DOMAIN Tail(s)  PROVE i + 1 \in 1 .. Len(s) /\ i + 1 # 1
  BY <1>1
<1>4. Occurs(s, x) <=> Occurs(Tail(s), x) \/ x = Head(s)
  <2>1. ASSUME Occurs(s, x)  PROVE Occurs(Tail(s), x) \/ x = Head(s)
    BY <1>1, <1>2, <2>1 DEF Occurs
  <2>2. ASSUME Occurs(Tail(s), x)  PROVE Occurs(s, x)
    BY <1>1, <1>3, <2>2 DEF Occurs
  <2>3. ASSUME x = Head(s)  PROVE Occurs(s, x)
    BY <1>1, <2>3 DEF Occurs
  <2> QED BY <2>1, <2>2, <2>3
<1>5. ASSUME AtMostOnce(s, x)  PROVE AtMostOnce(Tail(s), x)
  <2> SUFFICES ASSUME NEW i \in DOMAIN Tail(s), NEW j \in DOMAIN Tail(s),
                      Tail(s)[i] = x, Tail(s)[j] = x
               PROVE  i = j
    BY DEF AtMostOnce
  <2>1. i + 1 = j + 1
    BY <1>1, <1>3, <1>5 DEF AtMostOnce
  <2> QED BY <2>1, <1>1
<1>6. ASSUME AtMostOnce(s, x), x = Head(s)  PROVE ~Occurs(Tail(s), x)
  <2> SUFFICES ASSUME NEW i \in DOMAIN Tail(s), Tail(s)[i] = x  PROVE FALSE
    BY DEF Occurs
  <2>1. s[i + 1] = x /\ s[1] = x /\ i + 1 \in DOMAIN s /\ 1 \in DOMAIN s /\ i + 1 # 1
    BY <1>1, <1>3, <1>6
  <2> QED BY <2>1, <1>6 DEF AtMostOnce
<1> QED BY <1>4, <1>5, <1>6

LEMMA OccursEmpty == \A x : ~Occurs(<<>>, x) /\ AtMostOnce(<<>>, x)
BY DEF Occurs, AtMostOnce

LEMMA CommandsDiffer ==
  ASSUME NEW u \in Uids, NEW v \in Uids
  PROVE  /\ Command("submit", u) \in Commands /\ Command("abort", u) \in Commands
         /\ Command("submit", u) = Command("submit", v) => u = v
         /\ Command("abort", u) = Command("abort", v) => u = v
         /\ Command("submit", u) # Command("abort", v)
<1>1. Command("submit", u).uid = u /\ Command("submit", v).uid = v
      /\ Command("abort", u).uid = u /\ Command("abort", v).uid = v
      /\ Command("submit", u).op = "submit" /\ Command("abort", v).op = "abort"
  BY DEF Command
<1> QED BY <1>1 DEF Command, Commands

LEMMA CommandIs ==
  ASSUME NEW c \in Commands
  PROVE  c = Command(c.op, c.uid)
BY DEF Command, Commands

\* No step brings a handler back to its start, or takes a giving up back.
LEMMA HandlerMoves ==
  ASSUME WakeInv, [Next]_vars, NEW v \in Uids
  PROVE  /\ handler'[v].pc = "new" => handler'[v] = handler[v]
         /\ handler[v].gaveUp => handler'[v].gaveUp
<1>1. handler \in [Uids -> Handlers]
  BY DEF WakeInv, ClientInv, ClientTypes
<1>2. ASSUME NEW u \in Uids, NEW h \in Handlers,
             handler' = [handler EXCEPT ![u] = h],
             h.pc = "new" => h = handler[u], handler[u].gaveUp => h.gaveUp
      PROVE  /\ handler'[v].pc = "new" => handler'[v] = handler[v]
             /\ handler[v].gaveUp => handler'[v].gaveUp
  BY <1>1, <1>2
<1>3. CASE UNCHANGED handler
  BY <1>3
<1>4. ASSUME NEW u \in Uids, NEW pc \in Pcs, pc # "new", GoTo(u, pc)
      PROVE  /\ handler'[v].pc = "new" => handler'[v] = handler[v]
             /\ handler[v].gaveUp => handler'[v].gaveUp
  BY <1>1, <1>4 DEF GoTo, Handlers
<1>5. ASSUME NEW u \in Uids, NEW pc \in {"wait", "result"}, GiveUp(u, pc)
      PROVE  /\ handler'[v].pc = "new" => handler'[v] = handler[v]
             /\ handler[v].gaveUp => handler'[v].gaveUp
  BY <1>1, <1>5 DEF GiveUp, Handlers
<1>6. ASSUME NEW u \in Uids, NEW thread, NEW c, NEW chunk, Fulfil(thread, u, c, chunk)
      PROVE  /\ handler'[v].pc = "new" => handler'[v] = handler[v]
             /\ handler[v].gaveUp => handler'[v].gaveUp
  <2>1. \E h \in {[handler[u] EXCEPT !.pc = "write", !.chunk = chunk],
                  [handler[u] EXCEPT !.pc = "result"],
                  [handler[u] EXCEPT !.pc = "respond", !.result = c.tokens],
                  handler[u]} : handler' = [handler EXCEPT ![u] = h]
    BY <1>6 DEF Fulfil
  <2>2. PICK h : /\ handler' = [handler EXCEPT ![u] = h]
                 /\ h = handler[u] \/ h.pc # "new"
                 /\ h.gaveUp = handler[u].gaveUp
    BY <1>1, <2>1 DEF Handlers
  <2>3. handler'[v] = IF u = v THEN h ELSE handler[v]
    BY <1>1, <2>2
  <2> QED BY <2>2, <2>3
<1>7. ASSUME NEW u \in Uids, Complete(u)
      PROVE  /\ handler'[v].pc = "new" => handler'[v] = handler[v]
             /\ handler[v].gaveUp => handler'[v].gaveUp
  <2>1. CASE ctx[u].exists
    BY <1>6, <1>7, <2>1 DEF Complete
  <2>2. CASE ~ctx[u].exists
    BY <1>7, <2>2, <1>3 DEF Complete, clientVars
  <2> QED BY <2>1, <2>2
<1>8. CASE HandleReply
  <2>1. Head(decoding).uid \in Uids
    <3>1. Head(decoding) \in Reply
      BY <1>8, HeadTailProperties DEF HandleReply, WakeInv, QueueTypes
    <3> QED BY <3>1 DEF Reply
  <2>2. CASE ctx[Head(decoding).uid].exists
    BY <1>6, <1>8, <2>1, <2>2 DEF HandleReply
  <2>3. CASE ~ctx[Head(decoding).uid].exists
    BY <1>3, <1>8, <2>3 DEF HandleReply, clientVars
  <2> QED BY <2>2, <2>3
<1>9. ASSUME NEW u \in Uids, Arrive(u)
      PROVE  /\ handler'[v].pc = "new" => handler'[v] = handler[v]
             /\ handler[v].gaveUp => handler'[v].gaveUp
  <2>1. \E pc \in {"wait", "next", "result", "begin"} : GoTo(u, pc)
    BY <1>9, FrontendAssumption DEF Arrive
  <2> QED BY <1>4, <2>1 DEF Pcs
<1>10. ASSUME NEW u \in Uids, HandlerGoesOn(u)
       PROVE  /\ handler'[v].pc = "new" => handler'[v] = handler[v]
              /\ handler[v].gaveUp => handler'[v].gaveUp
  <2>1. CASE Begin(u) \/ WaitResultAsync(u) \/ WaitResult(u) \/ Respond(u)
    BY ZenonT(30), <1>1, <1>4, <2>1 DEF Begin, WaitResultAsync, WaitResult, Respond, TakeResult,
                            Pcs, Handlers
  <2>2. CASE NextChunk(u)
    <3>1. CASE ctx[u].chunks # <<>>
      BY ZenonT(30), <1>1, <2>2, <3>1 DEF NextChunk, Handlers
    <3>2. CASE ctx[u].chunks = <<>>
      BY <1>4, <2>2, <3>2 DEF NextChunk, AfterChunks, Pcs
    <3> QED BY <3>1, <3>2
  <2>3. CASE Write(u)
    BY <1>1, <2>3 DEF Write, Handlers, AfterChunks
  <2>4. CASE BeginFails(u) \/ WriteFails(u) \/ WriteThrows(u) \/ RespondThrows(u)
    BY <1>5, <2>4 DEF BeginFails, WriteFails, WriteThrows, RespondThrows
  <2>5. CASE CreateContext(u)
    BY <1>3, <2>5 DEF CreateContext
  <2> QED BY <1>10, <2>1, <2>2, <2>3, <2>4, <2>5 DEF HandlerGoesOn
<1>11. CASE Encode
  BY <1>3, <1>7, <1>11 DEF Encode, TakeText, TokenizeFails, CheckAborted,
                           SubmitTokens, Erase, clientVars
<1>12. CASE Run
  BY <1>3, <1>12 DEF Run, GatherCommands, Execute, BeginStep, Generate, EndStep,
                     clientVars
<1>13. CASE Decode
  BY <1>3, <1>8, <1>13 DEF Decode, TakeReplies, Erase, clientVars
<1>14. CASE RequestStop \/ StopPool \/ UNCHANGED vars
  BY <1>3, <1>14 DEF RequestStop, StopPool, vars, clientVars
<1> QED BY <1>9, <1>10, <1>11, <1>12, <1>13, <1>14 DEF Next

LEMMA QueueInvInit == Init => QueueInv
<1> SUFFICES ASSUME Init, NEW u \in Uids  PROVE SubmittedOnce(u)
  BY DEF QueueInv
<1>1. ~Queued(u) /\ AtOnePlace(u)
  BY OccursEmpty DEF Init, Queued, AtOnePlace, Asked, Gathered
<1> QED BY <1>1, OccursEmpty DEF Init, SubmittedOnce, Service!Init

\* nothing more comes of what has settled
StaysSettled(v) ==
  Settled(v) /\ handler[v].pc # "new" =>
    Settled(v)' /\ sent'[v] = sent[v] /\ phase'[v] = phase[v]

\* what a step of the encode threads and the runner, or of nobody, has to
\* keep, when the handlers only move on
LEMMA QueueMoves ==
  ASSUME NEW v \in Uids, SubmittedOnce(v), AtOnePlace(v)',
         Queued(v)' => Queued(v), Queued(v)' => phase'[v] = phase[v],
         phase'[v] # phase[v] \/ sent'[v] # sent[v] => phase[v] = "live" \/ Queued(v),
         phase'[v] = "unknown" => phase[v] = "unknown" /\ sent'[v] = sent[v],
         Occurs(commands, Command("abort", v))' =>
           Occurs(commands, Command("abort", v)) \/ handler'[v].gaveUp,
         Occurs(local, Command("abort", v))' =>
           Occurs(local, Command("abort", v)) \/ Occurs(commands, Command("abort", v)),
         phase'[v] = "aborted" =>
           phase[v] = "aborted" \/ Occurs(local, Command("abort", v)),
         handler'[v].pc = "new" => handler'[v] = handler[v],
         handler[v].gaveUp => handler'[v].gaveUp
  PROVE  SubmittedOnce(v)' /\ StaysSettled(v)
BY DEF SubmittedOnce, StaysSettled, Settled

LEMMA QueueStep ==
  ASSUME WakeInv, QueueInv, [Next]_vars, NEW v \in Uids
  PROVE  SubmittedOnce(v)' /\ StaysSettled(v)
<1>1. SubmittedOnce(v)
  BY DEF QueueInv
<1>2. /\ handler'[v].pc = "new" => handler'[v] = handler[v]
      /\ handler[v].gaveUp => handler'[v].gaveUp
  BY HandlerMoves
<1>3. /\ encodeTasks \in Seq(Uids) /\ commands \in Seq(Commands) /\ local \in Seq(Commands)
      /\ handler \in [Uids -> Handlers]
  BY DEF WakeInv, QueueTypes, ClientInv, ClientTypes
<1>4. CASE UNCHANGED <<encodeVars, commands, local, serviceVars>>
  BY <1>1, <1>2, <1>4, QueueMoves
     DEF SubmittedOnce, AtOnePlace, Queued, Asked, Gathered, Occurs, encodeVars, serviceVars
<1>5. ASSUME NEW u \in Uids, GiveUp(u, "wait") \/ GiveUp(u, "result")
      PROVE  SubmittedOnce(v)' /\ StaysSettled(v)
  <2>1. handler'[u].gaveUp
    BY <1>3, <1>5 DEF GiveUp, Handlers
  <2>2. UNCHANGED <<encodeVars, local, serviceVars>>
    BY <1>5 DEF GiveUp, runnerVars
  <2>3. CASE commands' = commands
    BY <1>4, <2>2, <2>3
  <2>4. CASE commands' = Append(commands, Command("abort", u))
    <3>1. /\ Occurs(commands, Command("submit", v))' <=> Occurs(commands, Command("submit", v))
          /\ AtMostOnce(commands, Command("submit", v)) =>
               AtMostOnce(commands, Command("submit", v))'
          /\ Occurs(commands, Command("abort", v))' <=>
               Occurs(commands, Command("abort", v)) \/ u = v
      BY <1>3, <2>4, OccursAppend, CommandsDiffer
    <3> QED BY <1>1, <1>2, <2>1, <2>2, <3>1, QueueMoves
            DEF SubmittedOnce, AtOnePlace, Queued, Asked, Gathered, encodeVars, serviceVars
  <2> QED BY <1>5, <2>3, <2>4 DEF GiveUp
<1>6. ASSUME NEW u \in Uids, Arrive(u)
      PROVE  SubmittedOnce(v)' /\ StaysSettled(v)
  <2>1. /\ handler[u].pc = "new" /\ handler'[u].pc # "new"
        /\ UNCHANGED <<encoding, checked, local, phase, sent>>
    BY <1>3, <1>6, FrontendAssumption DEF Arrive, GoTo, Handlers, runnerVars, serviceVars
  <2>2. ~Queued(u) /\ phase[u] = "unknown"
    BY <2>1 DEF QueueInv, SubmittedOnce
  <2>3. CASE UNCHANGED <<commands, encodeTasks>>
    BY <1>4, <2>1, <2>3 DEF encodeVars, serviceVars
  <2>4. CASE commands' = Append(commands, Command("submit", u)) /\ UNCHANGED encodeTasks
    <3>1. /\ Asked(v)' <=> Asked(v) \/ u = v
          /\ Occurs(commands, Command("abort", v))' <=> Occurs(commands, Command("abort", v))
      BY <1>3, <2>4, OccursAppend, CommandsDiffer DEF Asked
    <3>2. AtMostOnce(commands, Command("submit", v))'
      BY <1>1, <1>3, <2>2, <2>4, OccursAppend, CommandsDiffer
         DEF SubmittedOnce, AtOnePlace, Queued, Asked
    <3>3. Gathered(v)' <=> Gathered(v)
      BY <2>1 DEF Gathered
    <3>4. u # v => AtOnePlace(v)' /\ (Queued(v)' <=> Queued(v))
      BY <1>1, <2>1, <2>4, <3>1, <3>2, <3>3 DEF SubmittedOnce, AtOnePlace, Queued
    <3>5. u = v => AtOnePlace(v)'
      BY <1>1, <2>1, <2>2, <2>4, <3>1, <3>2, <3>3 DEF SubmittedOnce, AtOnePlace, Queued
    <3> QED BY <1>1, <1>2, <2>1, <2>2, <3>1, <3>4, <3>5 DEF SubmittedOnce, StaysSettled, Settled
  <2>5. CASE encodeTasks' = Append(encodeTasks, u) /\ UNCHANGED commands
    <3>1. Occurs(encodeTasks, v)' <=> Occurs(encodeTasks, v) \/ u = v
      BY <1>3, <2>5, OccursAppend
    <3>2. AtMostOnce(encodeTasks, v)'
      BY <1>1, <1>3, <2>2, <2>5, OccursAppend DEF SubmittedOnce, AtOnePlace, Queued
    <3>3. (Gathered(v)' <=> Gathered(v)) /\ (Asked(v)' <=> Asked(v))
      BY <2>1, <2>5 DEF Gathered, Asked
    <3>4. u # v => AtOnePlace(v)' /\ (Queued(v)' <=> Queued(v))
      BY <1>1, <2>1, <2>5, <3>1, <3>2, <3>3 DEF SubmittedOnce, AtOnePlace, Queued
    <3>5. u = v => AtOnePlace(v)'
      BY <1>1, <2>1, <2>2, <2>5, <3>1, <3>2, <3>3 DEF SubmittedOnce, AtOnePlace, Queued
    <3> QED BY <1>1, <1>2, <2>1, <2>2, <2>5, <3>1, <3>4, <3>5 DEF SubmittedOnce, StaysSettled, Settled
  <2> QED BY <1>6, <2>3, <2>4, <2>5 DEF Arrive
<1>7. ASSUME NEW u \in Uids, HandlerGoesOn(u)
      PROVE  SubmittedOnce(v)' /\ StaysSettled(v)
  <2>1. CASE BeginFails(u) \/ WriteFails(u) \/ WriteThrows(u) \/ RespondThrows(u)
    BY <1>5, <2>1 DEF BeginFails, WriteFails, WriteThrows, RespondThrows
  <2>2. CASE HandlerOnly
    BY <1>4, <2>2 DEF HandlerOnly, runnerVars
  <2> QED BY <1>7, <2>1, <2>2 DEF HandlerGoesOn, Begin, NextChunk, Write, CreateContext,
                                  WaitResult, WaitResultAsync, Respond
<1>8. CASE Encode
  <2>1. CASE TakeText
    <3>1. /\ encodeTasks # <<>> /\ encodeTasks' = Tail(encodeTasks)
          /\ encoding' = encoding \cup {Head(encodeTasks)}
          /\ UNCHANGED <<checked, commands, local, phase, sent>>
      BY <2>1 DEF TakeText, runnerVars, serviceVars
    <3>2. /\ Occurs(encodeTasks, v) <=> Occurs(encodeTasks, v)' \/ v = Head(encodeTasks)
          /\ AtMostOnce(encodeTasks, v) => AtMostOnce(encodeTasks, v)'
          /\ AtMostOnce(encodeTasks, v) /\ v = Head(encodeTasks) => ~Occurs(encodeTasks, v)'
      BY <1>3, <3>1, OccursTail
    <3>3. (Gathered(v)' <=> Gathered(v)) /\ (Asked(v)' <=> Asked(v))
      BY <3>1 DEF Gathered, Asked
    <3>4. AtOnePlace(v)' /\ (Queued(v)' => Queued(v))
      BY <1>1, <3>1, <3>2, <3>3 DEF SubmittedOnce, AtOnePlace, Queued
    <3> QED BY <1>1, <1>2, <3>1, <3>4, QueueMoves
  <2>2. ASSUME NEW u \in Uids, TokenizeFails(u) \/ CheckAborted(u)
        PROVE  SubmittedOnce(v)' /\ StaysSettled(v)
    <3>1. /\ UNCHANGED <<encodeTasks, commands, local, phase, sent>>
          /\ v \in encoding' => v \in encoding
          /\ v \in checked' => v \in checked \/ (v \in encoding /\ v \notin encoding')
      BY <2>2 DEF TokenizeFails, CheckAborted, runnerVars, serviceVars
    <3>2. (Gathered(v)' <=> Gathered(v)) /\ (Asked(v)' <=> Asked(v))
      BY <3>1 DEF Gathered, Asked
    <3>3. AtOnePlace(v)' /\ (Queued(v)' => Queued(v))
      BY <1>1, <3>1, <3>2 DEF SubmittedOnce, AtOnePlace, Queued
    <3> QED BY <1>1, <1>2, <3>1, <3>3, QueueMoves
  <2>3. ASSUME NEW u \in Uids, SubmitTokens(u)
        PROVE  SubmittedOnce(v)' /\ StaysSettled(v)
    <3>1. /\ u \in checked /\ checked' = checked \ {u}
          /\ commands' = Append(commands, Command("submit", u))
          /\ UNCHANGED <<encodeTasks, encoding, local, phase, sent>>
      BY <2>3 DEF SubmitTokens, runnerVars, serviceVars
    <3>2. /\ Asked(v)' <=> Asked(v) \/ u = v
          /\ Occurs(commands, Command("abort", v))' <=> Occurs(commands, Command("abort", v))
      BY <1>3, <3>1, OccursAppend, CommandsDiffer DEF Asked
    <3>3. AtMostOnce(commands, Command("submit", v))'
      BY <1>1, <1>3, <3>1, OccursAppend, CommandsDiffer
         DEF SubmittedOnce, AtOnePlace, Asked
    <3>4. Gathered(v)' <=> Gathered(v)
      BY <3>1 DEF Gathered
    <3>5. AtOnePlace(v)' /\ (Queued(v)' => Queued(v))
      BY <1>1, <3>1, <3>2, <3>3, <3>4 DEF SubmittedOnce, AtOnePlace, Queued
    <3> QED BY <1>1, <1>2, <3>1, <3>2, <3>5, QueueMoves
  <2>4. ASSUME NEW u \in Uids, Erase("encode", u)
        PROVE  SubmittedOnce(v)' /\ StaysSettled(v)
    BY <1>4, <2>4 DEF Erase, runnerVars
  <2> QED BY <1>8, <2>1, <2>2, <2>3, <2>4 DEF Encode
<1>9. CASE Run
  <2>1. CASE GatherCommands
    <3>1. CASE UNCHANGED <<local, commands>>
      BY <1>4, <2>1, <3>1 DEF GatherCommands
    <3>2. CASE local' = commands /\ commands' = <<>>
      <4>1. /\ Gathered(v)' <=> Asked(v)
            /\ ~Asked(v)'
            /\ AtMostOnce(commands, Command("submit", v))'
            /\ AtMostOnce(local, Command("submit", v))' <=>
                 AtMostOnce(commands, Command("submit", v))
            /\ Occurs(local, Command("abort", v))' <=> Occurs(commands, Command("abort", v))
            /\ ~Occurs(commands, Command("abort", v))'
        BY <3>2, OccursEmpty DEF Gathered, Asked
      <4>2. UNCHANGED <<encodeTasks, encoding, checked, phase, sent>>
        BY <2>1 DEF GatherCommands, encodeVars, serviceVars
      <4>3. AtOnePlace(v)' /\ (Queued(v)' => Queued(v))
        BY <1>1, <4>1, <4>2 DEF SubmittedOnce, AtOnePlace, Queued
      <4> QED BY <1>1, <1>2, <4>1, <4>2, <4>3, QueueMoves
    <3> QED BY <2>1, <3>1, <3>2 DEF GatherCommands
  <2>2. CASE Execute
    <3> DEFINE c == Head(local)
    <3>1. /\ local # <<>> /\ local' = Tail(local)
          /\ UNCHANGED <<encodeTasks, encoding, checked, commands>>
          /\ c \in Commands /\ c = Command(c.op, c.uid) /\ c.uid \in Uids
      <4>1. c \in Commands /\ local # <<>>
        BY <1>3, <2>2, HeadTailProperties DEF Execute
      <4>2. c.uid \in Uids /\ c = Command(c.op, c.uid)
        BY <4>1, CommandIs DEF Commands
      <4> QED BY <2>2, <4>1, <4>2 DEF Execute, encodeVars
    <3>2. /\ sent' = sent
          /\ \A u \in Uids \ {c.uid} : phase'[u] = phase[u]
          /\ \/ c = Command("submit", c.uid) /\ phase[c.uid] = "unknown"
                /\ phase'[c.uid] = "live"
             \/ c = Command("abort", c.uid) /\ phase[c.uid] = "live"
                /\ phase'[c.uid] = "aborted"
             \/ phase'[c.uid] = phase[c.uid]
      BY <2>2, <3>1 DEF Execute, Commands, Service!Submit, Service!Abort, serviceVars,
                        WakeInv, QueueTypes
    <3> HIDE DEF c
    <3>3. /\ Gathered(v) <=> Gathered(v)' \/ c = Command("submit", v)
          /\ AtMostOnce(local, Command("submit", v)) =>
               AtMostOnce(local, Command("submit", v))'
          /\ AtMostOnce(local, Command("submit", v)) /\ c = Command("submit", v) =>
               ~Gathered(v)'
          /\ Occurs(local, Command("abort", v)) <=>
               Occurs(local, Command("abort", v))' \/ c = Command("abort", v)
      BY <1>3, <3>1, OccursTail DEF Gathered, c
    <3>4. (Asked(v)' <=> Asked(v))
          /\ (Occurs(commands, Command("abort", v))' <=> Occurs(commands, Command("abort", v)))
      BY <3>1 DEF Asked
    <3>5. AtOnePlace(v)' /\ (Queued(v)' => Queued(v))
      BY <1>1, <3>1, <3>3, <3>4 DEF SubmittedOnce, AtOnePlace, Queued
    <3>6. v # c.uid => phase'[v] = phase[v]
      BY <3>2
    <3>7. v = c.uid /\ c = Command("submit", c.uid) => Gathered(v) /\ ~Queued(v)'
      BY <1>1, <3>1, <3>3, <3>4 DEF SubmittedOnce, AtOnePlace, Queued
    <3>8. v = c.uid /\ c = Command("abort", c.uid) => Occurs(local, Command("abort", v))
      BY <3>3
    <3>9. Queued(v) => phase[v] = "unknown"
      BY <1>1 DEF SubmittedOnce
    <3>10. /\ Queued(v)' => phase'[v] = phase[v]
           /\ phase'[v] # phase[v] => phase[v] = "live" \/ Queued(v)
           /\ phase'[v] = "unknown" => phase[v] = "unknown"
           /\ phase'[v] = "aborted" =>
                phase[v] = "aborted" \/ Occurs(local, Command("abort", v))
      BY <3>2, <3>5, <3>6, <3>7, <3>8, <3>9 DEF Queued
    <3> QED BY <1>1, <1>2, <3>2, <3>3, <3>4, <3>5, <3>10, QueueMoves
  <2>3. CASE BeginStep \/ EndStep
    BY <1>4, <2>3 DEF BeginStep, EndStep, encodeVars, serviceVars
  <2>4. ASSUME NEW u \in Uids, Generate(u)
        PROVE  SubmittedOnce(v)' /\ StaysSettled(v)
    <3>1. /\ UNCHANGED <<encodeTasks, encoding, checked, commands, local>>
          /\ phase[u] = "live" /\ phase'[u] \in {"live", "ended"}
          /\ \A w \in Uids \ {u} : phase'[w] = phase[w] /\ sent'[w] = sent[w]
      BY <2>4 DEF Generate, Service!Reply, encodeVars, WakeInv, QueueTypes
    <3>2. /\ Gathered(v)' <=> Gathered(v)
          /\ Asked(v)' <=> Asked(v)
          /\ Occurs(commands, Command("abort", v))' <=> Occurs(commands, Command("abort", v))
          /\ Occurs(local, Command("abort", v))' <=> Occurs(local, Command("abort", v))
      BY <3>1 DEF Gathered, Asked
    <3>3. AtOnePlace(v)' /\ (Queued(v)' <=> Queued(v))
      BY <1>1, <3>1, <3>2 DEF SubmittedOnce, AtOnePlace, Queued
    <3>4. Queued(v) => u # v
      BY <1>1, <3>1 DEF SubmittedOnce
    <3> QED BY <1>1, <1>2, <3>1, <3>2, <3>3, <3>4, QueueMoves
  <2> QED BY <1>9, <2>1, <2>2, <2>3, <2>4 DEF Run
<1>10. CASE Decode
  BY <1>4, <1>10 DEF Decode, TakeReplies, HandleReply, Erase, runnerVars
<1>11. CASE RequestStop \/ StopPool \/ UNCHANGED vars
  BY <1>4, <1>11 DEF RequestStop, StopPool, vars, runnerVars
<1> QED BY <1>6, <1>7, <1>8, <1>9, <1>10, <1>11 DEF Next

LEMMA QueueInvNext ==
  ASSUME WakeInv, QueueInv, [Next]_vars
  PROVE  QueueInv'
BY QueueStep DEF QueueInv

-----------------------------------------------------------------------------
(* Batches of replies.                                                     *)

BatchSeqs == Seq(Seq(Reply))

Chain(d, t, r) == <<d>> \o t \o <<r>>

LEMMA BatchesAre ==
  ASSUME NEW d \in Seq(Reply), NEW t \in BatchSeqs, NEW r \in Seq(Reply)
  PROVE  /\ Chain(d, t, r) \in BatchSeqs /\ Len(Chain(d, t, r)) = Len(t) + 2
         /\ Chain(d, t, r) # <<>> /\ Len(t) \in Nat
         /\ Chain(d, t, r)[1] = d /\ Chain(d, t, r)[Len(t) + 2] = r
         /\ \A i \in 1 .. Len(t) : Chain(d, t, r)[i + 1] = t[i]
<1> DEFINE b == <<d>> \o t \o <<r>>
<1>1. /\ <<d>> \in BatchSeqs /\ Len(<<d>>) = 1 /\ <<d>>[1] = d
      /\ <<r>> \in BatchSeqs /\ Len(<<r>>) = 1 /\ <<r>>[1] = r /\ Len(t) \in Nat
  BY DEF BatchSeqs
<1>2. /\ <<d>> \o t \in BatchSeqs /\ Len(<<d>> \o t) = Len(t) + 1
      /\ (<<d>> \o t)[1] = d /\ \A i \in 1 .. Len(t) : (<<d>> \o t)[i + 1] = t[i]
  <2>1. /\ <<d>> \o t \in Seq(Seq(Reply)) /\ Len(<<d>> \o t) = Len(<<d>>) + Len(t)
        /\ \A i \in 1 .. Len(<<d>>) + Len(t) : (<<d>> \o t)[i] =
             IF i <= Len(<<d>>) THEN <<d>>[i] ELSE t[i - Len(<<d>>)]
    BY <1>1, ConcatProperties DEF BatchSeqs
  <2> QED BY <1>1, <2>1 DEF BatchSeqs
<1>3. /\ b \in Seq(Seq(Reply)) /\ Len(b) = Len(t) + 2
      /\ \A i \in 1 .. Len(t) + 2 : b[i] =
           IF i <= Len(t) + 1 THEN (<<d>> \o t)[i] ELSE <<r>>[i - (Len(t) + 1)]
  <2>1. /\ b \in Seq(Seq(Reply)) /\ Len(b) = Len(<<d>> \o t) + Len(<<r>>)
        /\ \A i \in 1 .. Len(<<d>> \o t) + Len(<<r>>) : b[i] =
             IF i <= Len(<<d>> \o t) THEN (<<d>> \o t)[i]
             ELSE <<r>>[i - Len(<<d>> \o t)]
    BY <1>1, <1>2, ConcatProperties DEF BatchSeqs
  <2> QED BY <1>1, <1>2, <2>1
<1> HIDE DEF b
<1>4. /\ b[1] = d /\ b[Len(t) + 2] = r
      /\ \A i \in 1 .. Len(t) : b[i + 1] = t[i]
  BY <1>1, <1>2, <1>3
<1>5. b # <<>>
  BY <1>1, <1>3
<1> QED BY <1>1, <1>3, <1>4, <1>5 DEF b, BatchSeqs, Chain

\* batches[i][j] is a reply to u
At(batches, u, i, j) ==
  i \in DOMAIN batches /\ j \in DOMAIN batches[i] /\ batches[i][j].uid = u

LEMMA AwaitsAt ==
  ASSUME NEW b, NEW u, NEW first, NEW last, NEW ph
  PROVE  Awaits(b, u, first, last, ph) <=>
           /\ \A n \in first .. last : \E i, j : At(b, u, i, j) /\ b[i][j].n = n
           /\ \A i, j, k, l : At(b, u, i, j) /\ At(b, u, k, l) =>
                /\ b[i][j].n \in first .. last
                /\ i < k \/ (i = k /\ j < l) => b[i][j].n < b[k][l].n
           /\ \A i, j : At(b, u, i, j) /\ b[i][j].finished =>
                ph = "ended" /\ b[i][j].n = last
BY DEF Awaits, Holds, At

\* of two replies to u
LEMMA AwaitsOrder ==
  ASSUME NEW b, NEW u, NEW first, NEW last, NEW ph, Awaits(b, u, first, last, ph),
         NEW i, NEW j, At(b, u, i, j), NEW k, NEW l, At(b, u, k, l)
  PROVE  /\ b[i][j].n \in first .. last
         /\ i < k \/ (i = k /\ j < l) => b[i][j].n < b[k][l].n
         /\ b[i][j].finished => ph = "ended" /\ b[i][j].n = last
<1>1. /\ i \in DOMAIN b /\ j \in DOMAIN b[i] /\ b[i][j].uid = u
      /\ k \in DOMAIN b /\ l \in DOMAIN b[k] /\ b[k][l].uid = u
  BY DEF At
<1> QED BY <1>1 DEF Awaits, Holds

LEMMA PlacesAreNumbers ==
  ASSUME NEW b \in BatchSeqs, NEW u, NEW i, NEW j, At(b, u, i, j)
  PROVE  i \in Nat \ {0} /\ j \in Nat \ {0} /\ b[i] \in Seq(Reply) /\ b[i][j] \in Reply
         /\ i \in 1 .. Len(b) /\ j \in 1 .. Len(b[i])
BY DEF At, BatchSeqs

LEMMA AwaitsSame ==
  ASSUME NEW b, NEW c, NEW u, NEW first, NEW last, NEW ph,
         \A i, j : At(c, u, i, j) <=> At(b, u, i, j),
         \A i, j : At(b, u, i, j) => c[i][j] = b[i][j],
         Awaits(b, u, first, last, ph)
  PROVE  Awaits(c, u, first, last, ph)
<1>1. \A n \in first .. last : \E i, j : At(c, u, i, j) /\ c[i][j].n = n
  <2> SUFFICES ASSUME NEW n \in first .. last
               PROVE  \E i, j : At(c, u, i, j) /\ c[i][j].n = n
    OBVIOUS
  <2>1. PICK i, j : At(b, u, i, j) /\ b[i][j].n = n
    BY AwaitsAt
  <2> QED BY <2>1
<1>2. ASSUME NEW i, NEW j, NEW k, NEW l, At(c, u, i, j), At(c, u, k, l)
      PROVE  /\ c[i][j].n \in first .. last
             /\ i < k \/ (i = k /\ j < l) => c[i][j].n < c[k][l].n
  BY <1>2, AwaitsOrder
<1>3. \A i, j : At(c, u, i, j) /\ c[i][j].finished => ph = "ended" /\ c[i][j].n = last
  BY AwaitsOrder
<1> QED BY <1>1, <1>2, <1>3, AwaitsAt

\* an empty batch at the end
LEMMA AwaitsAppend ==
  ASSUME NEW b \in BatchSeqs, NEW u, NEW first, NEW last, NEW ph,
         Awaits(b, u, first, last, ph)
  PROVE  Awaits(Append(b, <<>>), u, first, last, ph)
<1> DEFINE c == Append(b, <<>>)
<1>1. /\ Len(b) \in Nat /\ DOMAIN b = 1 .. Len(b) /\ DOMAIN c = 1 .. Len(b) + 1
      /\ \A i \in 1 .. Len(b) : c[i] = b[i]
      /\ c[Len(b) + 1] = <<>>
  BY DEF BatchSeqs
<1>2. DOMAIN <<>> = {}
  OBVIOUS
<1> HIDE DEF c
<1>3. \A i, j : At(c, u, i, j) <=> At(b, u, i, j)
  BY <1>1, <1>2 DEF At
<1>4. \A i, j : At(b, u, i, j) => c[i][j] = b[i][j]
  BY <1>1 DEF At
<1> QED BY <1>3, <1>4, AwaitsSame DEF c

\* an empty batch goes at the front
LEMMA AwaitsTail ==
  ASSUME NEW b \in BatchSeqs, b # <<>>, b[1] = <<>>,
         NEW u, NEW first \in Nat, NEW last \in Nat, NEW ph,
         Awaits(b, u, first, last, ph)
  PROVE  Awaits(Tail(b), u, first, last, ph)
<1> DEFINE c == Tail(b)
<1>1. /\ Len(b) \in Nat \ {0} /\ DOMAIN b = 1 .. Len(b) /\ DOMAIN c = 1 .. Len(b) - 1
      /\ \A i \in 1 .. Len(b) - 1 : c[i] = b[i + 1]
      /\ c \in BatchSeqs
  BY EmptySeq, HeadTailProperties DEF BatchSeqs
<1>2. DOMAIN <<>> = {}
  OBVIOUS
<1> HIDE DEF c
<1>3. ASSUME NEW i, NEW j, At(c, u, i, j)
      PROVE  /\ i \in Nat /\ j \in Nat
             /\ At(b, u, i + 1, j) /\ c[i][j] = b[i + 1][j] /\ b[i + 1][j].n \in Nat
  <2>1. i \in Nat /\ j \in Nat /\ c[i][j] \in Reply
    BY <1>1, <1>3, PlacesAreNumbers
  <2>2. c[i] = b[i + 1] /\ i + 1 \in DOMAIN b
    BY <1>1, <1>3, <2>1 DEF At
  <2> QED BY <1>3, <2>1, <2>2 DEF At, Reply
<1>4. ASSUME NEW i, NEW j, At(b, u, i, j)
      PROVE  At(c, u, i - 1, j) /\ c[i - 1][j] = b[i][j]
  <2>1. i \in Nat \ {0} /\ i # 1
    BY <1>1, <1>2, <1>4 DEF At
  <2>2. i - 1 \in 1 .. Len(b) - 1 /\ c[i - 1] = b[(i - 1) + 1] /\ (i - 1) + 1 = i
    BY <1>1, <1>4, <2>1 DEF At
  <2> QED BY <1>1, <1>4, <2>2 DEF At
<1>5. \A n \in first .. last : \E i, j : At(c, u, i, j) /\ c[i][j].n = n
  BY <1>4, AwaitsAt
<1>6. ASSUME NEW i, NEW j, NEW k, NEW l, At(c, u, i, j), At(c, u, k, l)
      PROVE  /\ c[i][j].n \in first .. last
             /\ i < k \/ (i = k /\ j < l) => c[i][j].n < c[k][l].n
  <2>1. /\ i \in Nat /\ k \in Nat
        /\ At(b, u, i + 1, j) /\ c[i][j] = b[i + 1][j]
        /\ At(b, u, k + 1, l) /\ c[k][l] = b[k + 1][l]
    BY <1>3, <1>6
  <2>2. i < k \/ (i = k /\ j < l) => i + 1 < k + 1 \/ (i + 1 = k + 1 /\ j < l)
    BY <2>1
  <2> QED BY <2>1, <2>2, AwaitsOrder
<1>7. \A i, j : At(c, u, i, j) /\ c[i][j].finished => ph = "ended" /\ c[i][j].n = last
  BY <1>3, AwaitsAt
<1> QED BY <1>5, <1>6, <1>7, AwaitsAt DEF c

\* c is b without the first reply of the first batch
FirstTaken(b, c) ==
  /\ Len(c) = Len(b) /\ b # <<>> /\ b[1] # <<>>
  /\ c[1] = Tail(b[1])
  /\ \A i \in 2 .. Len(b) : c[i] = b[i]

LEMMA PlacesWithoutFirst ==
  ASSUME NEW b \in BatchSeqs, NEW c \in BatchSeqs, FirstTaken(b, c), NEW u
  PROVE  /\ \A i, j : At(c, u, i, j) =>
              LET k == IF i = 1 THEN j + 1 ELSE j
              IN  At(b, u, i, k) /\ c[i][j] = b[i][k]
         /\ \A i, k : At(b, u, i, k) /\ (i # 1 \/ k # 1) =>
              LET j == IF i = 1 THEN k - 1 ELSE k
              IN  At(c, u, i, j) /\ c[i][j] = b[i][k]
<1>1. /\ Len(b) \in Nat \ {0} /\ DOMAIN b = 1 .. Len(b) /\ DOMAIN c = 1 .. Len(b)
      /\ b[1] \in Seq(Reply) /\ b[1] # <<>>
  BY EmptySeq DEF BatchSeqs, FirstTaken
<1>2. /\ Len(b[1]) \in Nat \ {0} /\ DOMAIN b[1] = 1 .. Len(b[1])
      /\ DOMAIN c[1] = 1 .. Len(b[1]) - 1
      /\ \A j \in 1 .. Len(b[1]) - 1 : c[1][j] = b[1][j + 1]
  BY <1>1, EmptySeq, HeadTailProperties DEF FirstTaken
<1>3. \A i \in 1 .. Len(b) : i # 1 => c[i] = b[i]
  BY <1>1 DEF FirstTaken
<1>4. ASSUME NEW i, NEW j, At(c, u, i, j)
      PROVE  LET k == IF i = 1 THEN j + 1 ELSE j
             IN  At(b, u, i, k) /\ c[i][j] = b[i][k]
  <2>1. CASE i = 1
    BY <1>1, <1>2, <1>4, <2>1 DEF At
  <2>2. CASE i # 1
    BY <1>1, <1>3, <1>4, <2>2 DEF At
  <2> QED BY <2>1, <2>2
<1>5. ASSUME NEW i, NEW k, At(b, u, i, k), i # 1 \/ k # 1
      PROVE  LET j == IF i = 1 THEN k - 1 ELSE k
             IN  At(c, u, i, j) /\ c[i][j] = b[i][k]
  <2>1. CASE i = 1
    <3>1. k \in 1 .. Len(b[1]) /\ k # 1
      BY <1>2, <1>5, <2>1 DEF At
    <3>2. k - 1 \in 1 .. Len(b[1]) - 1 /\ (k - 1) + 1 = k
      BY <1>2, <3>1
    <3> QED BY <1>1, <1>2, <1>5, <2>1, <3>2 DEF At
  <2>2. CASE i # 1
    BY <1>1, <1>3, <1>5, <2>2 DEF At
  <2> QED BY <2>1, <2>2
<1> QED BY <1>4, <1>5

LEMMA AwaitsOthers ==
  ASSUME NEW b \in BatchSeqs, NEW c \in BatchSeqs, FirstTaken(b, c),
         NEW u, b[1][1].uid # u, NEW first \in Nat, NEW last \in Nat, NEW ph,
         Awaits(b, u, first, last, ph)
  PROVE  Awaits(c, u, first, last, ph)
<1>1. ASSUME NEW i, NEW j, At(b, u, i, j)
      PROVE  \E l : At(c, u, i, l) /\ c[i][l] = b[i][j]
  <2>1. i # 1 \/ j # 1
    BY <1>1 DEF At
  <2> QED BY <1>1, <2>1, PlacesWithoutFirst
<1>2. \A n \in first .. last : \E i, j : At(c, u, i, j) /\ c[i][j].n = n
  BY <1>1, AwaitsAt
<1>3. ASSUME NEW i, NEW j, NEW k, NEW l, At(c, u, i, j), At(c, u, k, l)
      PROVE  /\ c[i][j].n \in first .. last
             /\ i < k \/ (i = k /\ j < l) => c[i][j].n < c[k][l].n
  <2> DEFINE p == IF i = 1 THEN j + 1 ELSE j
             q == IF k = 1 THEN l + 1 ELSE l
  <2>1. At(b, u, i, p) /\ c[i][j] = b[i][p] /\ At(b, u, k, q) /\ c[k][l] = b[k][q]
    BY <1>3, PlacesWithoutFirst
  <2>2. i \in Nat /\ j \in Nat /\ k \in Nat /\ l \in Nat
    BY <1>3, PlacesAreNumbers
  <2>3. i < k \/ (i = k /\ j < l) => i < k \/ (i = k /\ p < q)
    BY <2>2
  <2> HIDE DEF p, q
  <2> QED BY <2>1, <2>3, AwaitsOrder
<1>4. \A i, j : At(c, u, i, j) /\ c[i][j].finished => ph = "ended" /\ c[i][j].n = last
  BY AwaitsAt, PlacesWithoutFirst
<1> QED BY <1>2, <1>3, <1>4, AwaitsAt

\* The first reply on its way to u is the next one.
LEMMA AwaitsTaken ==
  ASSUME NEW b \in BatchSeqs, NEW c \in BatchSeqs, FirstTaken(b, c),
         NEW u, b[1][1].uid = u, NEW first \in Nat, NEW last \in Nat, NEW ph,
         Awaits(b, u, first, last, ph)
  PROVE  /\ b[1][1].n = first /\ first <= last
         /\ b[1][1].finished => ph = "ended" /\ first = last
         /\ Awaits(c, u, first + 1, last, ph)
<1>1. At(b, u, 1, 1)
  <2>1. b[1] \in Seq(Reply) /\ b[1] # <<>> /\ 1 \in DOMAIN b
    BY EmptySeq DEF BatchSeqs, FirstTaken
  <2> QED BY <2>1, EmptySeq DEF At
<1>2. b[1][1].n \in first .. last
  BY <1>1, AwaitsAt
<1>3. ASSUME NEW i, NEW j, At(b, u, i, j), i # 1 \/ j # 1
      PROVE  b[1][1].n < b[i][j].n
  <2>1. i \in Nat \ {0} /\ j \in Nat \ {0}
    BY <1>3, PlacesAreNumbers
  <2>2. 1 < i \/ (1 = i /\ 1 < j)
    BY <1>3, <2>1
  <2> QED BY <1>1, <1>3, <2>2, AwaitsAt
<1>4. b[1][1].n = first
  <2> SUFFICES ASSUME first < b[1][1].n  PROVE FALSE
    BY <1>2
  <2>1. PICK i, j : At(b, u, i, j) /\ b[i][j].n = first
    BY <1>2, AwaitsAt
  <2>2. i # 1 \/ j # 1
    BY <2>1
  <2>3. b[1][1].n < first
    BY <1>3, <2>1, <2>2
  <2> QED BY <1>2, <2>3
<1>5. \A n \in first + 1 .. last : \E i, j : At(c, u, i, j) /\ c[i][j].n = n
  <2> SUFFICES ASSUME NEW n \in first + 1 .. last
               PROVE  \E i, j : At(c, u, i, j) /\ c[i][j].n = n
    OBVIOUS
  <2>1. n \in first .. last /\ n # first
    OBVIOUS
  <2>2. PICK i, j : At(b, u, i, j) /\ b[i][j].n = n
    BY <2>1, AwaitsAt
  <2>3. i # 1 \/ j # 1
    BY <1>4, <2>1, <2>2
  <2> QED BY <2>2, <2>3, PlacesWithoutFirst
<1>6. ASSUME NEW i, NEW j, NEW k, NEW l, At(c, u, i, j), At(c, u, k, l)
      PROVE  /\ c[i][j].n \in first + 1 .. last
             /\ i < k \/ (i = k /\ j < l) => c[i][j].n < c[k][l].n
  <2> DEFINE p == IF i = 1 THEN j + 1 ELSE j
             q == IF k = 1 THEN l + 1 ELSE l
  <2>1. At(b, u, i, p) /\ c[i][j] = b[i][p] /\ At(b, u, k, q) /\ c[k][l] = b[k][q]
    BY <1>6, PlacesWithoutFirst
  <2>2. i \in Nat \ {0} /\ j \in Nat \ {0} /\ k \in Nat \ {0} /\ l \in Nat \ {0}
    BY <1>6, PlacesAreNumbers
  <2>3. i < k \/ (i = k /\ j < l) => i < k \/ (i = k /\ p < q)
    BY <2>2
  <2>4. i # 1 \/ p # 1
    BY <2>2
  <2>5. b[i][p].n \in first .. last /\ first < b[i][p].n
    BY <1>3, <1>4, <2>1, <2>4, AwaitsAt
  <2>6. c[i][j].n \in first + 1 .. last
    BY <2>1, <2>5
  <2> HIDE DEF p, q
  <2> QED BY <2>1, <2>3, <2>6, AwaitsOrder
<1>7. \A i, j : At(c, u, i, j) /\ c[i][j].finished => ph = "ended" /\ c[i][j].n = last
  BY AwaitsAt, PlacesWithoutFirst
<1>8. b[1][1].finished => ph = "ended" /\ first = last
  BY <1>1, <1>4, AwaitsAt
<1>9. Awaits(c, u, first + 1, last, ph)
  BY <1>5, <1>6, <1>7, AwaitsAt
<1> QED BY <1>2, <1>4, <1>8, <1>9

\* c is b with a reply more in the last batch
LastAdded(b, c, m) ==
  /\ Len(c) = Len(b) /\ b # <<>>
  /\ c[Len(b)] = Append(b[Len(b)], m)
  /\ \A i \in 1 .. Len(b) - 1 : c[i] = b[i]

\* the place of the reply that b gets next
NextPlace(b) == Len(b[Len(b)]) + 1

LEMMA PlacesWithLast ==
  ASSUME NEW b \in BatchSeqs, NEW c \in BatchSeqs, NEW m \in Reply, LastAdded(b, c, m),
         NEW u
  PROVE  /\ Len(b) \in Nat \ {0} /\ NextPlace(b) \in Nat \ {0}
         /\ c[Len(b)][NextPlace(b)] = m
         /\ At(c, u, Len(b), NextPlace(b)) <=> m.uid = u
         /\ ~At(b, u, Len(b), NextPlace(b))
         /\ \A i, j : i # Len(b) \/ j # NextPlace(b) =>
              /\ At(c, u, i, j) <=> At(b, u, i, j)
              /\ At(b, u, i, j) => c[i][j] = b[i][j]
         /\ \A i, j : At(b, u, i, j) => i < Len(b) \/ (i = Len(b) /\ j < NextPlace(b))
<1> DEFINE e == Len(b)
           f == NextPlace(b)
<1>1. /\ e \in Nat \ {0} /\ DOMAIN b = 1 .. e /\ DOMAIN c = 1 .. e
      /\ b[e] \in Seq(Reply)
  BY EmptySeq DEF BatchSeqs, LastAdded
<1>2. /\ Len(b[e]) \in Nat /\ DOMAIN b[e] = 1 .. Len(b[e])
      /\ DOMAIN c[e] = 1 .. Len(b[e]) + 1
      /\ \A j \in 1 .. Len(b[e]) : c[e][j] = b[e][j]
      /\ c[e][Len(b[e]) + 1] = m
  <2>1. c[e] = Append(b[e], m)
    BY DEF LastAdded
  <2> QED BY <1>1, <2>1
<1>3. \A i \in 1 .. e : i # e => c[i] = b[i]
  <2>1. \A i \in 1 .. e - 1 : c[i] = b[i]
    BY DEF LastAdded
  <2>2. e \in Nat \ {0}
    BY <1>1
  <2> HIDE DEF e
  <2>3. \A i \in 1 .. e : i # e => i \in 1 .. e - 1
    BY <2>2
  <2> QED BY <2>1, <2>3
<1>4. f \in Nat \ {0} /\ f = Len(b[e]) + 1 /\ c[e][f] = m
  BY <1>2 DEF NextPlace
<1> HIDE DEF e, f
<1>5. (At(c, u, e, f) <=> m.uid = u) /\ ~At(b, u, e, f)
  BY <1>1, <1>2, <1>4 DEF At
<1>6. ASSUME NEW i, NEW j, i # e \/ j # f
      PROVE  /\ At(c, u, i, j) <=> At(b, u, i, j)
             /\ At(b, u, i, j) => c[i][j] = b[i][j]
  <2>1. CASE i = e
    <3>1. j \in DOMAIN c[e] <=> j \in DOMAIN b[e]
      BY <1>2, <1>4, <1>6, <2>1
    <3> QED BY <1>1, <1>2, <2>1, <3>1 DEF At
  <2>2. CASE i # e
    BY <1>1, <1>3, <2>2 DEF At
  <2> QED BY <2>1, <2>2
<1>7. ASSUME NEW i, NEW j, At(b, u, i, j)  PROVE i < e \/ (i = e /\ j < f)
  BY <1>1, <1>2, <1>4, <1>7 DEF At
<1> QED BY <1>1, <1>4, <1>5, <1>6, <1>7 DEF e, f

LEMMA AwaitsNoMore ==
  ASSUME NEW b \in BatchSeqs, NEW c \in BatchSeqs, NEW m \in Reply, LastAdded(b, c, m),
         NEW u, m.uid # u, NEW first, NEW last, NEW ph,
         Awaits(b, u, first, last, ph)
  PROVE  Awaits(c, u, first, last, ph)
<1>1. ASSUME NEW i, NEW j  PROVE At(c, u, i, j) <=> At(b, u, i, j)
  <2>1. CASE i = Len(b) /\ j = NextPlace(b)
    BY <2>1, PlacesWithLast
  <2>2. CASE i # Len(b) \/ j # NextPlace(b)
    BY <2>2, PlacesWithLast
  <2> QED BY <2>1, <2>2
<1>2. ASSUME NEW i, NEW j, At(b, u, i, j)  PROVE c[i][j] = b[i][j]
  <2>1. ~At(b, u, Len(b), NextPlace(b))
    BY PlacesWithLast
  <2>2. \A k, l : k # Len(b) \/ l # NextPlace(b) =>
          /\ At(c, u, k, l) <=> At(b, u, k, l)
          /\ At(b, u, k, l) => c[k][l] = b[k][l]
    BY PlacesWithLast
  <2> QED BY <1>2, <2>1, <2>2
<1> QED BY <1>1, <1>2, AwaitsSame

LEMMA AwaitsMore ==
  ASSUME NEW b \in BatchSeqs, NEW c \in BatchSeqs, NEW m \in Reply, LastAdded(b, c, m),
         NEW u, m.uid = u, NEW first \in Nat, NEW last \in Nat, first <= last + 1,
         m.n = last + 1, NEW ph, NEW ph2, ph # "ended", m.finished => ph2 = "ended",
         Awaits(b, u, first, last, ph)
  PROVE  Awaits(c, u, first, last + 1, ph2)
<1> DEFINE e == Len(b)
           f == NextPlace(b)
<1>1. /\ c[e][f] = m /\ At(c, u, e, f) /\ ~At(b, u, e, f)
      /\ e \in Nat \ {0} /\ f \in Nat \ {0}
      /\ \A i, j : i # e \/ j # f =>
           /\ At(c, u, i, j) <=> At(b, u, i, j)
           /\ At(b, u, i, j) => c[i][j] = b[i][j]
      /\ \A i, j : At(b, u, i, j) => i < e \/ (i = e /\ j < f)
  BY PlacesWithLast
<1> HIDE DEF e, f
<1>2. ASSUME NEW i, NEW j, At(c, u, i, j), i # e \/ j # f
      PROVE  /\ At(b, u, i, j) /\ c[i][j] = b[i][j]
             /\ b[i][j].n \in first .. last /\ ~b[i][j].finished
             /\ i < e \/ (i = e /\ j < f)
  <2>1. At(b, u, i, j) /\ c[i][j] = b[i][j] /\ (i < e \/ (i = e /\ j < f))
    BY <1>1, <1>2
  <2>2. b[i][j].n \in first .. last
    BY <2>1, AwaitsOrder
  <2>3. ~b[i][j].finished
    BY <2>1, AwaitsOrder
  <2> QED BY <2>1, <2>2, <2>3
<1>3. \A n \in first .. last + 1 : \E i, j : At(c, u, i, j) /\ c[i][j].n = n
  <2> SUFFICES ASSUME NEW n \in first .. last + 1
               PROVE  \E i, j : At(c, u, i, j) /\ c[i][j].n = n
    OBVIOUS
  <2>1. CASE n = last + 1
    BY <1>1, <2>1
  <2>2. CASE n # last + 1
    <3>1. n \in first .. last
      BY <2>2
    <3>2. PICK i, j : At(b, u, i, j) /\ b[i][j].n = n
      BY <3>1, AwaitsAt
    <3> QED BY <1>1, <3>2
  <2> QED BY <2>1, <2>2
<1>4. ASSUME NEW i, NEW j, NEW k, NEW l, At(c, u, i, j), At(c, u, k, l)
      PROVE  /\ c[i][j].n \in first .. last + 1
             /\ i < k \/ (i = k /\ j < l) => c[i][j].n < c[k][l].n
  <2>0. /\ i \in Nat \ {0} /\ j \in Nat \ {0}
        /\ k \in Nat \ {0} /\ l \in Nat \ {0}
    BY <1>4, PlacesAreNumbers
  <2>1. CASE i = e /\ j = f
    <3>1. c[i][j].n = last + 1
      BY <1>1, <2>1
    <3>2. ~(i < k \/ (i = k /\ j < l))
      BY <1>1, <1>2, <1>4, <2>0, <2>1
    <3> QED BY <3>1, <3>2
  <2>2. CASE i # e \/ j # f
    <3>1. At(b, u, i, j) /\ c[i][j] = b[i][j] /\ b[i][j].n \in first .. last
      BY <1>2, <1>4, <2>2
    <3>2. CASE k = e /\ l = f
      <4>1. c[k][l].n = last + 1
        BY <1>1, <3>2
      <4> QED BY <3>1, <4>1
    <3>3. CASE k # e \/ l # f
      <4>1. At(b, u, k, l) /\ c[k][l] = b[k][l]
        BY <1>2, <1>4, <3>3
      <4>2. i < k \/ (i = k /\ j < l) => b[i][j].n < b[k][l].n
        BY <3>1, <4>1, AwaitsOrder
      <4> QED BY <3>1, <4>1, <4>2
    <3> QED BY <3>2, <3>3
  <2> QED BY <2>1, <2>2
<1>5. \A i, j : At(c, u, i, j) /\ c[i][j].finished => ph2 = "ended" /\ c[i][j].n = last + 1
  BY <1>1, <1>2
<1> QED BY <1>3, <1>4, <1>5, AwaitsAt

LEMMA AwaitsPhase ==
  ASSUME NEW b, NEW u, NEW first, NEW last, NEW ph, NEW ph2, ph # "ended",
         Awaits(b, u, first, last, ph)
  PROVE  Awaits(b, u, first, last, ph2)
BY DEF Awaits

LEMMA AwaitsEmpty ==
  ASSUME NEW u, NEW ph
  PROVE  Awaits(<<<<>>, <<>>>>, u, 1, 0, ph)
BY DEF Awaits, Holds

\* how the steps change the batches
LEMMA BatchesType ==
  ASSUME QueueTypes
  PROVE  /\ Batches \in BatchSeqs /\ Len(Batches) = Len(decodeTasks) + 2
         /\ Len(decodeTasks) \in Nat /\ Batches # <<>>
         /\ Batches[1] = decoding /\ Batches[Len(decodeTasks) + 2] = replies
         /\ \A i \in 1 .. Len(decodeTasks) : Batches[i + 1] = decodeTasks[i]
<1>1. decoding \in Seq(Reply) /\ decodeTasks \in BatchSeqs /\ replies \in Seq(Reply)
  BY DEF QueueTypes, BatchSeqs
<1>2. Batches = Chain(decoding, decodeTasks, replies)
  BY DEF Batches, Chain
<1> DEFINE b == Chain(decoding, decodeTasks, replies)
<1>3. /\ b \in BatchSeqs /\ Len(b) = Len(decodeTasks) + 2
      /\ b # <<>> /\ Len(decodeTasks) \in Nat
      /\ b[1] = decoding /\ b[Len(decodeTasks) + 2] = replies
      /\ \A i \in 1 .. Len(decodeTasks) : b[i + 1] = decodeTasks[i]
  BY <1>1, BatchesAre
<1> HIDE DEF b
<1>4. Batches = b
  BY <1>2 DEF b
<1> QED BY <1>3, <1>4

LEMMA BatchesTypeNext ==
  ASSUME QueueTypes'
  PROVE  /\ Batches' \in BatchSeqs /\ Len(Batches') = Len(decodeTasks') + 2
         /\ Len(decodeTasks') \in Nat
         /\ Batches'[1] = decoding' /\ Batches'[Len(decodeTasks') + 2] = replies'
         /\ \A i \in 1 .. Len(decodeTasks') : Batches'[i + 1] = decodeTasks'[i]
<1>1. decoding' \in Seq(Reply) /\ decodeTasks' \in BatchSeqs /\ replies' \in Seq(Reply)
  BY DEF QueueTypes, BatchSeqs
<1>2. Batches' = Chain(decoding', decodeTasks', replies')
  BY DEF Batches, Chain
<1> DEFINE b == Chain(decoding', decodeTasks', replies')
<1>3. /\ b \in BatchSeqs /\ Len(b) = Len(decodeTasks') + 2
      /\ b # <<>> /\ Len(decodeTasks') \in Nat
      /\ b[1] = decoding' /\ b[Len(decodeTasks') + 2] = replies'
      /\ \A i \in 1 .. Len(decodeTasks') : b[i + 1] = decodeTasks'[i]
  BY <1>1, BatchesAre
<1> HIDE DEF b
<1>4. Batches' = b
  BY <1>2 DEF b
<1> QED BY <1>3, <1>4

LEMMA SameBatches ==
  ASSUME NEW b \in BatchSeqs, NEW c \in BatchSeqs, Len(b) = Len(c),
         \A i \in 1 .. Len(b) : b[i] = c[i]
  PROVE  b = c
BY SeqEqual DEF BatchSeqs

LEMMA BatchesChange ==
  ASSUME QueueTypes, QueueTypes'
  PROVE  /\ TakeReplies => Batches # <<>> /\ Batches[1] = <<>> /\ Batches' = Tail(Batches)
         /\ EndStep => Batches' = Batches \/ Batches' = Append(Batches, <<>>)
         /\ HandleReply => FirstTaken(Batches, Batches')
         /\ \A m \in Reply :
              replies' = Append(replies, m) /\ UNCHANGED decodeVars =>
                LastAdded(Batches, Batches', m)
<1> DEFINE b == Batches
           c == Batches'
           t == decodeTasks
<1>1. /\ b \in BatchSeqs /\ Len(b) = Len(t) + 2 /\ Len(t) \in Nat /\ b # <<>>
      /\ b[1] = decoding /\ b[Len(t) + 2] = replies
      /\ \A i \in 1 .. Len(t) : b[i + 1] = t[i]
  BY BatchesType
<1>2. /\ c \in BatchSeqs /\ Len(c) = Len(t') + 2 /\ Len(t') \in Nat
      /\ c[1] = decoding' /\ c[Len(t') + 2] = replies'
      /\ \A i \in 1 .. Len(t') : c[i + 1] = t'[i]
  BY BatchesTypeNext
<1>3. t \in Seq(Seq(Reply)) /\ replies \in Seq(Reply)
  BY DEF QueueTypes
<1> HIDE DEF b, c
<1>4. ASSUME TakeReplies  PROVE b # <<>> /\ b[1] = <<>> /\ c = Tail(b)
  <2>1. /\ t # <<>> /\ decoding = <<>> /\ decoding' = t[1] /\ t' = Tail(t)
        /\ replies' = replies
    BY <1>3, <1>4 DEF TakeReplies, runnerVars
  <2>2. /\ Len(t') = Len(t) - 1 /\ Len(t) >= 1
        /\ \A i \in 1 .. Len(t) - 1 : t'[i] = t[i + 1]
    BY <1>3, <2>1, HeadTailProperties, EmptySeq
  <2>3. /\ Tail(b) \in BatchSeqs /\ Len(Tail(b)) = Len(b) - 1
        /\ \A i \in 1 .. Len(b) - 1 : Tail(b)[i] = b[i + 1]
    BY <1>1, HeadTailProperties DEF BatchSeqs
  <2>4. Len(c) = Len(t) + 1 /\ Len(Tail(b)) = Len(t) + 1
    BY <1>1, <1>2, <2>2, <2>3
  <2>5. ASSUME NEW i \in 1 .. Len(t) + 1  PROVE c[i] = Tail(b)[i]
    <3>1. Tail(b)[i] = b[i + 1]
      BY <1>1, <2>3, <2>5
    <3>2. CASE i = 1
      BY <1>1, <1>2, <2>1, <2>2, <3>1, <3>2
    <3>3. CASE i = Len(t) + 1
      BY <1>1, <1>2, <2>1, <2>2, <3>1, <3>3
    <3>4. CASE i # 1 /\ i # Len(t) + 1
      <4>1. i - 1 \in 1 .. Len(t') /\ i \in 1 .. Len(t) /\ (i - 1) + 1 = i
        BY <1>1, <2>2, <2>5, <3>4
      <4>2. c[i] = t'[i - 1] /\ t'[i - 1] = t[i] /\ b[i + 1] = t[i]
        BY <1>1, <1>2, <2>2, <4>1
      <4> QED BY <3>1, <4>2
    <3> QED BY <3>2, <3>3, <3>4
  <2> QED BY <1>1, <1>2, <2>1, <2>3, <2>4, <2>5, SameBatches
<1>5. ASSUME EndStep  PROVE c = b \/ c = Append(b, <<>>)
  <2>1. decoding' = decoding /\ replies' = <<>>
    BY <1>5 DEF EndStep
  <2>2. CASE replies = <<>>
    BY <1>5, <2>1, <2>2 DEF EndStep, b, c, Batches
  <2>3. CASE replies # <<>>
    <3>1. t' = Append(t, replies)
      BY <1>5, <2>3 DEF EndStep
    <3>2. /\ Len(t') = Len(t) + 1
          /\ \A i \in 1 .. Len(t) : t'[i] = t[i]
          /\ t'[Len(t) + 1] = replies
      BY <1>3, <3>1
    <3>3. /\ Append(b, <<>>) \in BatchSeqs /\ Len(Append(b, <<>>)) = Len(b) + 1
          /\ \A i \in 1 .. Len(b) : Append(b, <<>>)[i] = b[i]
          /\ Append(b, <<>>)[Len(b) + 1] = <<>>
      BY <1>1 DEF BatchSeqs
    <3>4. Len(c) = Len(t) + 3 /\ Len(Append(b, <<>>)) = Len(t) + 3
      BY <1>1, <1>2, <3>2, <3>3
    <3>5. ASSUME NEW i \in 1 .. Len(t) + 3  PROVE c[i] = Append(b, <<>>)[i]
      <4>1. CASE i = 1
        BY <1>1, <1>2, <2>1, <3>3, <4>1
      <4>2. CASE i = Len(t) + 3
        BY <1>1, <1>2, <2>1, <3>2, <3>3, <4>2
      <4>3. CASE i = Len(t) + 2
        <5>1. c[i] = t'[Len(t) + 1]
          <6>1. Len(t) + 1 \in 1 .. Len(t') /\ i = (Len(t) + 1) + 1
            BY <1>1, <3>2, <4>3
          <6> QED BY <1>2, <6>1
        <5>2. Append(b, <<>>)[i] = replies
          BY <1>1, <3>3, <4>3
        <5> QED BY <3>2, <5>1, <5>2
      <4>4. CASE i # 1 /\ i # Len(t) + 2 /\ i # Len(t) + 3
        <5>1. i - 1 \in 1 .. Len(t) /\ i - 1 \in 1 .. Len(t') /\ i \in 1 .. Len(b)
              /\ (i - 1) + 1 = i
          BY <1>1, <3>2, <3>5, <4>4
        <5>2. c[i] = t'[i - 1] /\ b[i] = t[i - 1] /\ t'[i - 1] = t[i - 1]
          BY <1>1, <1>2, <3>2, <5>1
        <5> QED BY <3>3, <5>1, <5>2
      <4> QED BY <4>1, <4>2, <4>3, <4>4
    <3> QED BY ZenonT(30), <1>1, <1>2, <3>3, <3>4, <3>5, SameBatches
  <2> QED BY <2>2, <2>3
<1>6. ASSUME HandleReply  PROVE FirstTaken(b, c)
  <2>1. /\ decoding # <<>> /\ decoding' = Tail(decoding) /\ t' = t /\ replies' = replies
    BY <1>6 DEF HandleReply, runnerVars
  <2>2. ASSUME NEW i \in 2 .. Len(b)  PROVE c[i] = b[i]
    <3>1. CASE i = Len(b)
      BY <1>1, <1>2, <2>1, <3>1
    <3>2. CASE i # Len(b)
      <4>1. i - 1 \in 1 .. Len(t) /\ (i - 1) + 1 = i
        BY <1>1, <2>2, <3>2
      <4> QED BY <1>1, <1>2, <2>1, <4>1
    <3> QED BY <3>1, <3>2
  <2> QED BY <1>1, <1>2, <2>1, <2>2 DEF FirstTaken
<1>7. ASSUME NEW m \in Reply, replies' = Append(replies, m), UNCHANGED decodeVars
      PROVE  LastAdded(b, c, m)
  <2>1. t' = t /\ decoding' = decoding
    BY <1>7 DEF decodeVars
  <2>2. ASSUME NEW i \in 1 .. Len(b) - 1  PROVE c[i] = b[i]
    <3>1. CASE i = 1
      BY <1>1, <1>2, <2>1, <3>1
    <3>2. CASE i # 1
      <4>1. i - 1 \in 1 .. Len(t) /\ (i - 1) + 1 = i
        BY <1>1, <2>2, <3>2
      <4> QED BY <1>1, <1>2, <2>1, <4>1
    <3> QED BY <3>1, <3>2
  <2> QED BY <1>1, <1>2, <1>7, <2>1, <2>2 DEF LastAdded
<1> QED BY <1>4, <1>5, <1>6, <1>7 DEF b, c

-----------------------------------------------------------------------------
(* A step and the replies on their way.                                    *)

\* what is on its way to v stays, and may only grow at its end
AwaitsKept(v) ==
  /\ sent[v] <= sent'[v]
  /\ \A first \in 1 .. sent[v] + 1 :
       Awaits(Batches, v, first, sent[v], phase[v]) =>
         Awaits(Batches', v, first, sent'[v], phase'[v])

LEMMA AwaitsStep ==
  ASSUME WakeInv, QueueTypes', [Next]_vars, NEW v \in Uids,
         HandleReply => Head(decoding).uid # v
  PROVE  AwaitsKept(v)
<1>1. sent[v] \in Nat
  BY DEF WakeInv, QueueTypes
<1>2. Batches \in BatchSeqs /\ Batches' \in BatchSeqs
  BY BatchesType, BatchesTypeNext DEF WakeInv
<1>3. CASE UNCHANGED <<replies, decodeVars, serviceVars>>
  BY <1>1, <1>3 DEF AwaitsKept, Batches, decodeVars, serviceVars
<1>4. CASE Execute
  <2>1. /\ Batches' = Batches /\ sent' = sent
        /\ phase'[v] = phase[v] \/ phase[v] # "ended"
    <3>1. Head(local).uid \in Uids
      <4>1. Head(local) \in Commands
        BY <1>4, HeadTailProperties DEF Execute, WakeInv, QueueTypes
      <4> QED BY <4>1 DEF Commands
    <3>2. sent' = sent /\ (phase'[v] = phase[v] \/ phase[v] # "ended")
      BY <1>4, <3>1 DEF Execute, Service!Submit, Service!Abort, serviceVars,
                        WakeInv, QueueTypes
    <3> QED BY <1>4, <3>2 DEF Execute, Batches, decodeVars
  <2> QED BY <1>1, <2>1, AwaitsPhase DEF AwaitsKept
<1>5. ASSUME NEW u \in Uids, Generate(u)
      PROVE  AwaitsKept(v)
  <2>1. PICK last \in BOOLEAN :
          /\ Service!Reply(u, last)
          /\ replies' = Append(replies, [uid |-> u, n |-> sent[u] + 1, finished |-> last])
    BY <1>5 DEF Generate
  <2> DEFINE m == [uid |-> u, n |-> sent[u] + 1, finished |-> last]
  <2>2. /\ m \in Reply /\ m.uid = u /\ m.n = sent[u] + 1 /\ m.finished = last
    BY DEF WakeInv, QueueTypes, Reply
  <2>3. replies' = Append(replies, m)
    BY <2>1
  <2> HIDE DEF m
  <2>4. LastAdded(Batches, Batches', m)
    BY <1>5, <2>2, <2>3, BatchesChange DEF Generate, WakeInv
  <2>5. /\ phase[u] = "live" /\ sent'[u] = sent[u] + 1
        /\ phase'[u] = IF last THEN "ended" ELSE "live"
        /\ u # v => sent'[v] = sent[v] /\ phase'[v] = phase[v]
    BY <2>1 DEF Service!Reply, WakeInv, QueueTypes
  <2>6. CASE u = v
    <3> SUFFICES ASSUME NEW first \in 1 .. sent[v] + 1,
                        Awaits(Batches, v, first, sent[v], phase[v])
                 PROVE  Awaits(Batches', v, first, sent'[v], phase'[v])
      BY <1>1, <2>5, <2>6 DEF AwaitsKept
    <3>1. m.finished => phase'[v] = "ended"
      BY <2>2, <2>5, <2>6
    <3>2. /\ first \in Nat /\ first <= sent[v] + 1 /\ m.uid = v /\ m.n = sent[v] + 1
          /\ phase[v] # "ended" /\ sent'[v] = sent[v] + 1
      BY <1>1, <2>2, <2>5, <2>6
    <3>3. Awaits(Batches', v, first, sent[v] + 1, phase'[v])
      BY <1>1, <1>2, <2>2, <2>4, <3>1, <3>2, AwaitsMore
    <3> QED BY <3>2, <3>3
  <2>7. CASE u # v
    <3> SUFFICES ASSUME NEW first \in 1 .. sent[v] + 1,
                        Awaits(Batches, v, first, sent[v], phase[v])
                 PROVE  Awaits(Batches', v, first, sent[v], phase[v])
      BY <1>1, <2>5, <2>7 DEF AwaitsKept
    <3>1. m.uid # v
      BY <2>2, <2>7
    <3> QED BY <1>2, <2>2, <2>4, <3>1, AwaitsNoMore
  <2> QED BY <2>6, <2>7
<1>6. ASSUME \A first \in Nat : Awaits(Batches, v, first, sent[v], phase[v]) =>
               Awaits(Batches', v, first, sent[v], phase[v]),
             UNCHANGED serviceVars
      PROVE  AwaitsKept(v)
  <2>1. \A first \in 1 .. sent[v] + 1 : first \in Nat
    BY <1>1
  <2> QED BY <1>1, <1>6, <2>1 DEF AwaitsKept, serviceVars
<1>7. CASE EndStep
  <2>1. \A first \in Nat : Awaits(Batches, v, first, sent[v], phase[v]) =>
               Awaits(Batches', v, first, sent[v], phase[v])
    BY <1>2, <1>7, BatchesChange, AwaitsAppend DEF WakeInv
  <2> QED BY <1>6, <1>7, <2>1 DEF EndStep
<1>8. CASE TakeReplies
  <2>1. \A first \in Nat : Awaits(Batches, v, first, sent[v], phase[v]) =>
               Awaits(Batches', v, first, sent[v], phase[v])
    BY <1>1, <1>2, <1>8, BatchesChange, AwaitsTail DEF WakeInv
  <2> QED BY <1>6, <1>8, <2>1 DEF TakeReplies
<1>9. CASE HandleReply
  <2>1. FirstTaken(Batches, Batches') /\ Batches[1] = decoding
    BY <1>9, BatchesChange, BatchesType DEF WakeInv
  <2>2. Batches[1][1].uid # v
    <3>1. Head(decoding) = decoding[1]
      BY DEF WakeInv, QueueTypes
    <3> QED BY <1>9, <2>1, <3>1
  <2>3. \A first \in Nat : Awaits(Batches, v, first, sent[v], phase[v]) =>
               Awaits(Batches', v, first, sent[v], phase[v])
    BY <1>1, <1>2, <2>1, <2>2, AwaitsOthers
  <2> QED BY <1>6, <1>9, <2>3 DEF HandleReply
<1>10. ASSUME NEW u \in Uids, Arrive(u) \/ HandlerGoesOn(u)
       PROVE  AwaitsKept(v)
  <2>1. UNCHANGED <<replies, decodeVars, serviceVars>>
    BY <1>10 DEF Arrive, HandlerGoesOn, Begin, BeginFails, NextChunk, Write,
       WriteFails, WriteThrows, CreateContext, WaitResult, WaitResultAsync,
       Respond, RespondThrows, GiveUp, HandlerOnly, runnerVars
  <2> QED BY <1>3, <2>1
<1>11. CASE Encode
  BY <1>3, <1>11 DEF Encode, TakeText, TokenizeFails, CheckAborted, SubmitTokens,
                     Erase, runnerVars
<1>12. CASE Run
  BY <1>3, <1>4, <1>5, <1>7, <1>12 DEF Run, GatherCommands, BeginStep
<1>13. CASE Decode
  BY <1>3, <1>8, <1>9, <1>13 DEF Decode, Erase, runnerVars
<1>14. CASE RequestStop \/ StopPool \/ UNCHANGED vars
  BY <1>3, <1>14 DEF RequestStop, StopPool, vars, runnerVars
<1> QED BY <1>10, <1>11, <1>12, <1>13, <1>14 DEF Next

LEMMA UpToIs ==
  ASSUME NEW n \in Nat
  PROVE  /\ UpTo(n) \in Seq(Nat) /\ Len(UpTo(n)) = n
         /\ \A i \in 1 .. n : UpTo(n)[i] = i
         /\ Append(UpTo(n), n + 1) = UpTo(n + 1)
<1>1. /\ UpTo(n) \in Seq(Nat) /\ Len(UpTo(n)) = n
      /\ \A i \in 1 .. n : UpTo(n)[i] = i
  BY DEF UpTo
<1>2. /\ UpTo(n + 1) \in Seq(Nat) /\ Len(UpTo(n + 1)) = n + 1
      /\ \A i \in 1 .. n + 1 : UpTo(n + 1)[i] = i
  BY DEF UpTo
<1>3. /\ Append(UpTo(n), n + 1) \in Seq(Nat) /\ Len(Append(UpTo(n), n + 1)) = n + 1
      /\ \A i \in 1 .. n + 1 : Append(UpTo(n), n + 1)[i] = i
  BY <1>1
<1>4. Append(UpTo(n), n + 1) = UpTo(n + 1)
  BY <1>2, <1>3, SeqEqual
<1> QED BY <1>1, <1>4

ClientSame(v) ==
  handler'[v] = handler[v] /\ ctx'[v] = ctx[v] /\ (Erasing(v)' <=> Erasing(v))

\* A request that a step does not touch keeps what is said of it.
LEMMA AnswerKept ==
  ASSUME WakeInv, NEW v \in Uids, AnswerInv(v), StaysSettled(v), AwaitsKept(v),
         sent'[v] \in Nat, ClientSame(v)
  PROVE  AnswerInv(v)'
<1> SUFFICES ASSUME ~handler[v].gaveUp  PROVE AnswerInv(v)'
  BY DEF AnswerInv, ClientSame
<1>1. ContextGets(v) /\ HandlerHas(v) /\ (Streamed(v) => StreamHas(v))
  BY DEF AnswerInv
<1>2. sent[v] \in Nat /\ ctx[v] \in Contexts
  BY ClientOf DEF WakeInv, QueueTypes
<1>3. ContextGets(v)'
  <2> SUFFICES ASSUME ctx[v].exists
               PROVE  /\ ctx[v].tokens = UpTo(Len(ctx[v].tokens))
                      /\ Len(ctx[v].tokens) <= sent'[v]
                      /\ Awaits(Batches', v, Len(ctx[v].tokens) + 1, sent'[v], phase'[v])
                      /\ ctx[v].finished => Settled(v)' /\ Len(ctx[v].tokens) = sent'[v]
    BY DEF ContextGets, ClientSame
  <2>1. Len(ctx[v].tokens) \in Nat /\ handler[v].pc # "new"
    BY <1>1, <1>2 DEF HandlerHas, Contexts
  <2>2. Len(ctx[v].tokens) + 1 \in 1 .. sent[v] + 1
    BY <1>1, <1>2, <2>1 DEF ContextGets
  <2> QED BY <1>1, <1>2, <2>1, <2>2 DEF ContextGets, AwaitsKept, StaysSettled
<1>4. HandlerHas(v)'
  <2>1. 1 \in 1 .. sent[v] + 1
    BY <1>2
  <2> QED BY <1>1, <2>1 DEF HandlerHas, ClientSame, AwaitsKept, StaysSettled, AllSent
<1>5. StreamHas(v)' <=> StreamHas(v)
  BY DEF StreamHas, ClientSame
<1> QED BY <1>1, <1>3, <1>4, <1>5 DEF AnswerInv, ClientSame, Streamed

LEMMA AnswerOf ==
  ASSUME WakeInv, NEW u \in Uids, AnswerInv(u), ~handler[u].gaveUp
  PROVE  /\ handler[u] \in Handlers /\ ctx[u] \in Contexts
         /\ PromisesKept(u) /\ ContextsGo(u)
         /\ ContextGets(u) /\ HandlerHas(u) /\ (Streamed(u) => StreamHas(u))
         /\ handler[u].pc \in {"begin", "next", "write"} \/ ctx[u].chunkPromise => Streamed(u)
         /\ sent[u] \in Nat
<1>1. ClientInv /\ sent[u] \in Nat
  BY DEF WakeInv, QueueTypes
<1> QED BY <1>1, ClientOf DEF AnswerInv

\* A step of a handler and its context alone keeps what its own invariant says
\* of the new state.
HandlerAlone(u) ==
  /\ Batches' = Batches /\ sent' = sent /\ phase' = phase
  /\ Settled(u)' <=> Settled(u)
  /\ Erasing(u)' <=> Erasing(u)

LEMMA HandlerOnlyAlone ==
  ASSUME HandlerOnly, NEW u \in Uids
  PROVE  HandlerAlone(u)
BY DEF HandlerOnly, HandlerAlone, Batches, Settled, Queued, Asked, Gathered, Erasing,
       encodeVars, runnerVars, decodeVars, serviceVars

LEMMA NextChunkAnswers ==
  ASSUME WakeInv, NEW u \in Uids, AnswerInv(u), NextChunk(u)
  PROVE  AnswerInv(u)'
<1> DEFINE h == handler[u]
           c == ctx[u]
<1>1. handler \in [Uids -> Handlers] /\ ctx \in [Uids -> Contexts]
  BY DEF WakeInv, ClientInv, ClientTypes
<1>2. HandlerAlone(u)
  BY HandlerOnlyAlone DEF NextChunk
<1>3. handler'[u].gaveUp = h.gaveUp
  BY <1>1 DEF NextChunk, GoTo, Handlers
<1> SUFFICES ASSUME ~h.gaveUp  PROVE AnswerInv(u)'
  BY <1>3 DEF AnswerInv
<1>4. /\ h \in Handlers /\ c \in Contexts
      /\ ContextGets(u) /\ HandlerHas(u) /\ StreamHas(u) /\ Streamed(u)
      /\ h.pc = "next" /\ c.exists /\ ~Erasing(u) /\ sent[u] \in Nat
      /\ h.chunk = <<>> /\ Len(h.chunk) = 0 /\ ~c.chunkPromise /\ ~c.resultPromise
  <2>1. /\ h.pc = "next" /\ c.exists
    BY DEF NextChunk
  <2>2. /\ h \in Handlers /\ c \in Contexts /\ sent[u] \in Nat
        /\ ContextGets(u) /\ HandlerHas(u) /\ StreamHas(u) /\ Streamed(u)
        /\ PromisesKept(u)
    BY <2>1, AnswerOf
  <2> QED BY <2>1, <2>2 DEF StreamHas, PromisesKept, HandlerHas
<1>5. /\ Len(h.got) \in Nat /\ Len(c.tokens) \in Nat /\ Len(c.chunks) \in Nat
      /\ Len(c.tokens) = Len(h.got) + Len(c.chunks)
      /\ \A i \in DOMAIN c.chunks :
           /\ c.chunks[i].n = Len(h.got) + i
           /\ c.chunks[i].finished => i = Len(c.chunks) /\ c.finished
  <2>1. Len(h.got) \in Nat /\ Len(c.tokens) \in Nat /\ Len(c.chunks) \in Nat
    BY <1>4 DEF Handlers, Contexts
  <2>2. /\ Len(c.tokens) = Len(h.got) + Len(h.chunk) + Len(c.chunks)
        /\ \A i \in DOMAIN c.chunks :
             /\ c.chunks[i].n = Len(h.got) + Len(h.chunk) + i
             /\ c.chunks[i].finished => i = Len(c.chunks) /\ c.finished
    BY <1>4 DEF StreamHas
  <2>3. Len(h.got) + Len(h.chunk) = Len(h.got)
    BY <1>4, <2>1
  <2> QED BY <2>1, <2>2, <2>3
<1>6. CASE c.chunks # <<>>
  <2> DEFINE m == Head(c.chunks)
  <2>1. /\ handler'[u] = [h EXCEPT !.pc = "write", !.chunk = <<m>>]
        /\ ctx'[u] = [c EXCEPT !.chunks = Tail(@)]
    BY <1>1, <1>6 DEF NextChunk, Handlers, Contexts
  <2>2. /\ m = c.chunks[1] /\ Len(c.chunks) >= 1
        /\ Tail(c.chunks) \in Seq(Reply) /\ Len(Tail(c.chunks)) = Len(c.chunks) - 1
        /\ \A i \in 1 .. Len(c.chunks) - 1 : Tail(c.chunks)[i] = c.chunks[i + 1]
        /\ DOMAIN Tail(c.chunks) = 1 .. Len(c.chunks) - 1
        /\ DOMAIN c.chunks = 1 .. Len(c.chunks)
    BY <1>4, <1>6, HeadTailProperties, EmptySeq DEF Contexts
  <2> HIDE DEF m
  <2>3. /\ handler'[u].pc = "write" /\ handler'[u].chunk = <<m>>
        /\ handler'[u].got = h.got /\ ~handler'[u].gaveUp
        /\ ctx'[u].chunks = Tail(c.chunks) /\ ctx'[u].tokens = c.tokens
        /\ (ctx'[u].finished <=> c.finished) /\ ctx'[u].exists
        /\ ~ctx'[u].chunkPromise /\ ~ctx'[u].resultPromise
    BY <1>4, <2>1 DEF Handlers, Contexts
  <2>4. /\ Len(<<m>>) = 1 /\ <<m>>[1] = m /\ DOMAIN <<m>> = {1} /\ <<m>> # <<>>
    OBVIOUS
  <2>5. ContextGets(u)' /\ HandlerHas(u)'
    BY <1>2, <1>4, <2>3 DEF ContextGets, HandlerHas, HandlerAlone
  <2>6. m.n = Len(h.got) + 1
    BY <1>5, <2>2
  <2>7. ASSUME m.finished  PROVE Tail(c.chunks) = <<>> /\ c.finished
    BY <1>5, <2>2, <2>7, EmptySeq
  <2> DEFINE k == Len(h.got)
             n == Len(c.chunks)
             rest == Tail(c.chunks)
             total == Len(c.tokens)
  <2>8. /\ \A i \in DOMAIN rest : rest[i].n = k + 1 + i
        /\ \A i \in DOMAIN rest : rest[i].finished => i = Len(rest) /\ c.finished
        /\ total = k + 1 + Len(rest)
    <3>1. /\ k \in Nat /\ n \in Nat /\ n >= 1 /\ total = k + n
          /\ Len(rest) = n - 1 /\ DOMAIN rest = 1 .. n - 1
          /\ \A i \in 1 .. n - 1 : rest[i] = c.chunks[i + 1]
          /\ \A i \in 1 .. n : /\ c.chunks[i].n = k + i
                               /\ c.chunks[i].finished => i = n /\ c.finished
      BY <1>5, <2>2
    <3> DEFINE s == c.chunks
               ended == c.finished
    <3> HIDE DEF h, c, k, n, rest, total, s, ended
    <3>2. /\ \A i \in 1 .. n - 1 : rest[i] = s[i + 1]
          /\ \A i \in 1 .. n : s[i].n = k + i /\ (s[i].finished => i = n /\ ended)
      BY <3>1 DEF s, ended
    <3>3. \A i \in 1 .. n - 1 : i + 1 \in 1 .. n /\ k + (i + 1) = k + 1 + i
                               /\ (i + 1 = n => i = n - 1)
      BY <3>1
    <3>4. \A i \in 1 .. n - 1 : rest[i].n = k + 1 + i
      BY <3>2, <3>3
    <3>5. \A i \in 1 .. n - 1 : rest[i].finished => i = n - 1 /\ ended
      BY <3>2, <3>3
    <3>6. total = k + 1 + (n - 1)
      BY <3>1
    <3> QED BY <3>1, <3>4, <3>5, <3>6 DEF ended
  <2>9. StreamHas(u)'
    BY <1>4, <2>3, <2>4, <2>6, <2>7, <2>8 DEF StreamHas
  <2> QED BY <1>4, <2>3, <2>5, <2>9 DEF AnswerInv, Streamed
<1>7. CASE c.chunks = <<>> /\ c.finished
  <2>1. handler'[u] = [h EXCEPT !.pc = AfterChunks(u)] /\ ctx'[u] = c
    BY <1>1, <1>7 DEF NextChunk, GoTo, Handlers
  <2>2. AfterChunks(u) \in {"wait", "result"}
    BY DEF AfterChunks
  <2>3. /\ handler'[u].pc \in {"wait", "result"} /\ handler'[u].chunk = h.chunk
        /\ handler'[u].got = h.got /\ ~handler'[u].gaveUp
    BY <1>4, <2>1, <2>2 DEF Handlers
  <2>4. ContextGets(u)' /\ HandlerHas(u)'
    BY <1>2, <1>4, <2>1, <2>3 DEF ContextGets, HandlerHas, HandlerAlone
  <2>5. StreamHas(u)'
    <3>1. DOMAIN <<>> = {}
      OBVIOUS
    <3> QED BY <1>4, <1>7, <2>1, <2>3, <3>1 DEF StreamHas
  <2> QED BY <1>4, <2>3, <2>4, <2>5 DEF AnswerInv, Streamed
<1>8. CASE c.chunks = <<>> /\ ~c.finished
  <2>1. /\ handler'[u] = [h EXCEPT !.pc = "suspended"]
        /\ ctx'[u] = [c EXCEPT !.chunkPromise = TRUE]
    BY <1>1, <1>8 DEF NextChunk, GoTo, Handlers, Contexts
  <2>2. /\ handler'[u].pc = "suspended" /\ handler'[u].chunk = h.chunk
        /\ handler'[u].got = h.got /\ ~handler'[u].gaveUp
        /\ ctx'[u].chunks = c.chunks /\ ctx'[u].tokens = c.tokens
        /\ (ctx'[u].finished <=> c.finished) /\ ctx'[u].exists
        /\ ~ctx'[u].resultPromise
    BY <1>4, <2>1 DEF Handlers, Contexts
  <2>3. ContextGets(u)' /\ HandlerHas(u)'
    BY <1>2, <1>4, <1>8, <2>2 DEF ContextGets, HandlerHas, HandlerAlone
  <2>4. StreamHas(u)'
    BY <1>4, <1>8, <2>2 DEF StreamHas
  <2> QED BY <1>4, <2>2, <2>3, <2>4 DEF AnswerInv, Streamed
<1> QED BY <1>6, <1>7, <1>8

LEMMA WriteAnswers ==
  ASSUME WakeInv, NEW u \in Uids, AnswerInv(u), Write(u)
  PROVE  AnswerInv(u)'
<1> DEFINE h == handler[u]
           c == ctx[u]
           m == h.chunk[1]
           pc == IF m.finished THEN AfterChunks(u) ELSE "next"
<1>1. handler \in [Uids -> Handlers] /\ ctx' = ctx
  BY DEF WakeInv, ClientInv, ClientTypes, Write
<1>2. HandlerAlone(u)
  BY HandlerOnlyAlone DEF Write
<1>3. handler'[u] = [h EXCEPT !.pc = pc, !.got = Append(@, m.n), !.chunk = <<>>]
  BY <1>1 DEF Write, Handlers
<1>4. h \in Handlers
  BY <1>1
<1> HIDE DEF pc, m
<1>5. /\ handler'[u].pc = pc /\ handler'[u].got = Append(h.got, m.n)
      /\ handler'[u].chunk = <<>> /\ handler'[u].gaveUp = h.gaveUp
      /\ handler'[u].result = h.result
  BY <1>3, <1>4 DEF Handlers
<1> SUFFICES ASSUME ~h.gaveUp  PROVE AnswerInv(u)'
  BY <1>5 DEF AnswerInv
<1>6. /\ c \in Contexts /\ ContextGets(u) /\ HandlerHas(u) /\ StreamHas(u) /\ Streamed(u)
      /\ h.pc = "write" /\ c.exists /\ ~Erasing(u) /\ sent[u] \in Nat
      /\ Len(h.chunk) = 1 /\ ~c.chunkPromise /\ ~c.resultPromise
  <2>1. h.pc = "write"
    BY DEF Write
  <2>2. /\ c \in Contexts /\ sent[u] \in Nat
        /\ ContextGets(u) /\ HandlerHas(u) /\ StreamHas(u) /\ Streamed(u)
        /\ PromisesKept(u)
    BY <2>1, AnswerOf
  <2> QED BY <2>1, <2>2 DEF PromisesKept, HandlerHas
<1>7. /\ Len(h.got) \in Nat /\ h.got = UpTo(Len(h.got))
      /\ m.n = Len(h.got) + 1
      /\ m.finished => c.chunks = <<>> /\ c.finished
  <2>1. 1 \in DOMAIN h.chunk
    BY <1>4, <1>6 DEF Handlers
  <2> QED BY <1>4, <1>6, <2>1 DEF StreamHas, Handlers, m
<1>8. /\ Append(h.got, m.n) = UpTo(Len(h.got) + 1)
      /\ Len(Append(h.got, m.n)) = Len(h.got) + 1
  <2>1. Append(h.got, m.n) = UpTo(Len(h.got) + 1)
    BY <1>7, UpToIs
  <2>2. Len(h.got) + 1 \in Nat
    BY <1>7
  <2>3. Len(UpTo(Len(h.got) + 1)) = Len(h.got) + 1
    BY <2>2, UpToIs
  <2> QED BY <2>1, <2>3
<1>9. /\ pc \in {"next", "wait", "result"}
      /\ pc \in {"wait", "result"} => m.finished
  BY DEF pc, AfterChunks
<1>10. ContextGets(u)' /\ HandlerHas(u)'
  BY <1>1, <1>2, <1>5, <1>6, <1>9 DEF ContextGets, HandlerHas, HandlerAlone
<1>11. StreamHas(u)'
  <2>1. Len(<<>>) = 0 /\ DOMAIN <<>> = {}
    OBVIOUS
  <2>2. /\ Len(c.tokens) = Len(h.got) + 1 + Len(c.chunks)
        /\ \A i \in DOMAIN c.chunks :
             /\ c.chunks[i].n = Len(h.got) + 1 + i
             /\ c.chunks[i].finished => i = Len(c.chunks) /\ c.finished
    BY <1>6 DEF StreamHas
  <2> DEFINE g == Append(h.got, m.n)
  <2>3. g = UpTo(Len(g)) /\ Len(g) = Len(h.got) + 1 /\ handler'[u].got = g
    BY <1>5, <1>8
  <2> HIDE DEF g
  <2>4. Len(g) + 0 = Len(h.got) + 1
    BY <1>7, <2>3
  <2> QED BY <1>1, <1>5, <1>6, <1>7, <1>9, <2>1, <2>2, <2>3, <2>4 DEF StreamHas
<1> QED BY <1>5, <1>6, <1>10, <1>11 DEF AnswerInv, Streamed

LEMMA TakeResultAnswers ==
  ASSUME WakeInv, NEW u \in Uids, AnswerInv(u), WaitResult(u) \/ WaitResultAsync(u)
  PROVE  AnswerInv(u)'
<1> DEFINE h == handler[u]
           c == ctx[u]
<1>1. handler \in [Uids -> Handlers] /\ ctx \in [Uids -> Contexts]
  BY DEF WakeInv, ClientInv, ClientTypes
<1>2. HandlerAlone(u)
  BY HandlerOnlyAlone DEF WaitResult, WaitResultAsync
<1>3. handler'[u].gaveUp = h.gaveUp
  BY <1>1 DEF WaitResult, WaitResultAsync, TakeResult, GoTo, Handlers
<1> SUFFICES ASSUME ~h.gaveUp  PROVE AnswerInv(u)'
  BY <1>3 DEF AnswerInv
<1>4. h.pc \in {"wait", "result"}
  BY DEF WaitResult, WaitResultAsync
<1>5. /\ h \in Handlers /\ c \in Contexts
      /\ ContextGets(u) /\ HandlerHas(u) /\ (Streamed(u) => StreamHas(u))
      /\ c.exists /\ ~Erasing(u) /\ ~c.chunkPromise /\ ~c.resultPromise
      /\ sent[u] \in Nat
  <2>1. /\ h \in Handlers /\ c \in Contexts /\ sent[u] \in Nat
        /\ ContextGets(u) /\ HandlerHas(u) /\ (Streamed(u) => StreamHas(u))
        /\ PromisesKept(u)
    BY AnswerOf
  <2> QED BY <1>4, <2>1 DEF PromisesKept, HandlerHas
<1>6. CASE c.finished
  <2>1. TakeResult(u)
    BY <1>6 DEF WaitResult, WaitResultAsync
  <2>2. handler'[u] = [h EXCEPT !.pc = "respond", !.result = c.tokens]
        /\ ctx'[u] = NoContext
    BY <1>1, <2>1 DEF TakeResult, Handlers
  <2>3. /\ handler'[u].pc = "respond" /\ handler'[u].result = c.tokens
        /\ handler'[u].got = h.got /\ handler'[u].chunk = h.chunk
        /\ ~ctx'[u].exists /\ ~ctx'[u].chunkPromise /\ ~ctx'[u].resultPromise
        /\ ctx'[u].chunks = <<>>
    BY <1>5, <2>2 DEF Handlers, NoContext
  <2>4. Settled(u) /\ c.tokens = UpTo(sent[u]) /\ Len(c.tokens) = sent[u]
    BY <1>5, <1>6 DEF ContextGets
  <2>5. ContextGets(u)' /\ HandlerHas(u)'
    BY <1>2, <2>3, <2>4 DEF ContextGets, HandlerHas, HandlerAlone, AllSent
  <2>6. ASSUME Streamed(u)  PROVE StreamHas(u)'
    <3>1. /\ c.chunks = <<>> /\ h.chunk = <<>> /\ h.got = UpTo(Len(h.got))
          /\ Len(c.tokens) = Len(h.got) + Len(h.chunk) + Len(c.chunks)
      BY <1>4, <1>5, <2>6 DEF StreamHas
    <3>2. h.got = c.tokens
      BY <1>5, <2>4, <3>1 DEF Handlers
    <3>3. DOMAIN <<>> = {}
      OBVIOUS
    <3> QED BY <2>3, <3>1, <3>2, <3>3 DEF StreamHas
  <2> QED BY <2>3, <2>5, <2>6 DEF AnswerInv, Streamed
<1>7. CASE ~c.finished
  <2>1. /\ h.pc = "result"
        /\ handler'[u] = [h EXCEPT !.pc = "suspended"]
        /\ ctx'[u] = [c EXCEPT !.resultPromise = TRUE]
    BY <1>1, <1>7 DEF WaitResult, WaitResultAsync, GoTo, Handlers, Contexts
  <2>2. ~Streamed(u)
    BY <1>5, <1>7, <2>1 DEF StreamHas
  <2>3. /\ handler'[u].pc = "suspended"
        /\ ctx'[u].tokens = c.tokens /\ (ctx'[u].finished <=> c.finished)
        /\ ctx'[u].exists /\ ~ctx'[u].chunkPromise
    BY <1>5, <2>1 DEF Handlers, Contexts
  <2>4. ContextGets(u)' /\ HandlerHas(u)'
    BY <1>2, <1>5, <1>7, <2>3 DEF ContextGets, HandlerHas, HandlerAlone
  <2> QED BY <2>2, <2>3, <2>4 DEF AnswerInv, Streamed
<1> QED BY <1>6, <1>7

LEMMA StepsAnswer ==
  ASSUME WakeInv, NEW u \in Uids, AnswerInv(u),
         Begin(u) \/ Respond(u) \/ CreateContext(u)
  PROVE  AnswerInv(u)'
<1> DEFINE h == handler[u]
           c == ctx[u]
<1>1. handler \in [Uids -> Handlers] /\ ctx \in [Uids -> Contexts]
  BY DEF WakeInv, ClientInv, ClientTypes
<1>2. HandlerAlone(u)
  BY HandlerOnlyAlone DEF Begin, Respond, CreateContext
<1>3. handler'[u].gaveUp = h.gaveUp
  BY <1>1 DEF Begin, Respond, CreateContext, GoTo, Handlers
<1> SUFFICES ASSUME ~h.gaveUp  PROVE AnswerInv(u)'
  BY <1>3 DEF AnswerInv
<1>4. /\ h \in Handlers /\ c \in Contexts
      /\ ContextGets(u) /\ HandlerHas(u) /\ (Streamed(u) => StreamHas(u))
      /\ h.pc \in {"begin", "next", "write"} \/ c.chunkPromise => Streamed(u)
  BY AnswerOf
<1>5. ~CreateContext(u)
  BY <1>4 DEF CreateContext, HandlerHas
<1>6. /\ ctx'[u] = c /\ handler'[u].got = h.got /\ handler'[u].chunk = h.chunk
      /\ handler'[u].result = h.result
      /\ \/ h.pc = "begin" /\ handler'[u].pc = "next"
         \/ h.pc = "respond" /\ handler'[u].pc = "done"
  BY <1>1, <1>5 DEF Begin, Respond, GoTo, Handlers
<1>7. ContextGets(u)' /\ HandlerHas(u)'
  BY <1>2, <1>4, <1>6 DEF ContextGets, HandlerHas, HandlerAlone, AllSent
<1>8. Streamed(u) => StreamHas(u)'
  BY <1>4, <1>6 DEF StreamHas
<1> QED BY <1>4, <1>6, <1>7, <1>8 DEF AnswerInv, Streamed

LEMMA ArriveAnswers ==
  ASSUME WakeInv, NEW u \in Uids, SubmittedOnce(u), SubmittedOnce(u)', AnswerInv(u), Arrive(u)
  PROVE  AnswerInv(u)'
<1> DEFINE h == handler[u]
<1>1. handler \in [Uids -> Handlers] /\ ctx \in [Uids -> Contexts]
  BY DEF WakeInv, ClientInv, ClientTypes
<1>2. /\ h.pc = "new" /\ ~h.gaveUp /\ h \in Handlers /\ ctx[u] \in Contexts
      /\ HandlerHas(u) /\ (Streamed(u) => StreamHas(u)) /\ ~Erasing(u)
      /\ sent[u] = 0 /\ phase[u] = "unknown" /\ ~Queued(u)
  <2>1. h.pc = "new" /\ ~h.gaveUp
    BY DEF Arrive, SubmittedOnce
  <2> QED BY <2>1, AnswerOf DEF SubmittedOnce, ContextsGo
<1>3. /\ Batches' = Batches /\ sent' = sent /\ phase' = phase
      /\ Erasing(u)' <=> Erasing(u)
  BY DEF Arrive, Batches, Erasing, runnerVars, decodeVars, serviceVars
<1>4. \E pc \in {"wait", "next", "result", "begin"} :
        /\ handler'[u] = [h EXCEPT !.pc = pc]
        /\ pc \in {"next", "begin"} <=> Streamed(u)
        /\ Streamed(u) => pc \notin {"wait", "result"}
  BY <1>1, FrontendAssumption DEF Arrive, GoTo, Streamed, Handlers
<1>5. /\ handler'[u].pc \in {"wait", "next", "result", "begin"}
      /\ Streamed(u) <=> handler'[u].pc \in {"next", "begin"}
      /\ handler'[u].got = h.got /\ handler'[u].chunk = h.chunk
      /\ ~handler'[u].gaveUp
  BY <1>2, <1>4 DEF Handlers
<1>6. /\ ctx'[u] = NewContext \/ (/\ ctx'[u] = [NewContext EXCEPT !.finished = TRUE]
                                  /\ UNCHANGED <<commands, encodeTasks>>)
  BY <1>1 DEF Arrive
<1>7. /\ ctx'[u].exists /\ ctx'[u].tokens = <<>> /\ ctx'[u].chunks = <<>>
      /\ ~ctx'[u].chunkPromise /\ ~ctx'[u].resultPromise
      /\ ctx'[u].finished => UNCHANGED <<commands, encodeTasks>>
  BY <1>6 DEF NewContext, NoContext
<1>8. ctx'[u].finished => Settled(u)'
  BY <1>2, <1>3, <1>7 DEF Arrive, Settled, Queued, Asked, Gathered, runnerVars
<1>9. <<>> = UpTo(0) /\ Len(<<>>) = 0 /\ DOMAIN <<>> = {}
  BY DEF UpTo
<1>10. ContextGets(u)'
  BY <1>2, <1>3, <1>7, <1>8, <1>9 DEF ContextGets, HandlerHas
<1>11. HandlerHas(u)'
  BY <1>2, <1>3, <1>5, <1>7 DEF HandlerHas
<1>12. ASSUME Streamed(u)  PROVE StreamHas(u)'
  <2>1. h.got = <<>> /\ h.chunk = <<>>
    BY <1>2, <1>12 DEF StreamHas
  <2> QED BY <1>5, <1>7, <1>9, <1>12, <2>1 DEF StreamHas
<1> QED BY <1>5, <1>7, <1>10, <1>11, <1>12 DEF AnswerInv, Streamed

LEMMA EraseAnswers ==
  ASSUME WakeInv, NEW u \in Uids, AnswerInv(u), NEW thread \in Threads, Erase(thread, u)
  PROVE  AnswerInv(u)'
<1> DEFINE h == handler[u]
<1>1. ctx \in [Uids -> Contexts] /\ handler' = handler
  BY DEF WakeInv, ClientInv, ClientTypes, Erase
<1> SUFFICES ASSUME ~h.gaveUp  PROVE AnswerInv(u)'
  BY <1>1 DEF AnswerInv
<1>2. /\ HandlerHas(u) /\ (Streamed(u) => StreamHas(u)) /\ ContextsGo(u)
  BY AnswerOf
<1>3. h.pc \in {"respond", "done"}
  BY <1>2 DEF HandlerHas, ContextsGo, Erasing, Erase
<1>4. ctx'[u] = NoContext
  BY <1>1 DEF Erase
<1>5. /\ ~ctx'[u].exists /\ ctx'[u].chunks = <<>>
      /\ ~ctx'[u].chunkPromise /\ ~ctx'[u].resultPromise
  BY <1>4 DEF NoContext
<1>6. /\ sent' = sent /\ (Settled(u)' <=> Settled(u))
  BY DEF Erase, Settled, Queued, Asked, Gathered, encodeVars, runnerVars, serviceVars
<1>7. ContextGets(u)' /\ HandlerHas(u)'
  BY <1>1, <1>2, <1>3, <1>5, <1>6 DEF ContextGets, HandlerHas, AllSent
<1>8. ASSUME Streamed(u)  PROVE StreamHas(u)'
  <2>1. h.chunk = <<>> /\ DOMAIN <<>> = {}
    BY <1>2, <1>3, <1>8 DEF StreamHas
  <2> QED BY <1>1, <1>2, <1>3, <1>5, <1>8, <2>1 DEF StreamHas
<1> QED BY <1>1, <1>3, <1>5, <1>7, <1>8 DEF AnswerInv, Streamed

\* what Fulfil makes of the handler and the context of u
ContextAfter(u, c) ==
  LET d == ctx'[u]
  IN  /\ d.tokens = c.tokens /\ d.chunks = c.chunks /\ ~d.chunkPromise
      /\ d.resultPromise <=> c.resultPromise /\ ~c.finished
      /\ d.finished <=> c.finished
      /\ d.exists <=> c.exists
HandlerFields(u, c, chunk, g, h) ==
  /\ h.got = g.got /\ h.gaveUp = g.gaveUp
  /\ c.chunkPromise /\ chunk # <<>> =>
       h.pc = "write" /\ h.chunk = chunk /\ h.result = g.result
  /\ c.chunkPromise /\ chunk = <<>> =>
       h.pc = "result" /\ h.chunk = g.chunk /\ h.result = g.result
  /\ ~c.chunkPromise /\ c.resultPromise /\ c.finished =>
       h.pc = "respond" /\ h.chunk = g.chunk /\ h.result = c.tokens
  /\ ~c.chunkPromise /\ ~(c.resultPromise /\ c.finished) => h = g
  /\ ~(c.resultPromise /\ c.finished) => (Erasing(u)' <=> Erasing(u))
HandlerAfter(u, c, chunk) == HandlerFields(u, c, chunk, handler[u], handler'[u])

LEMMA FulfilGives ==
  ASSUME WakeInv, NEW u \in Uids, NEW thread \in Threads, NEW c \in Contexts, NEW chunk,
         Fulfil(thread, u, c, chunk)
  PROVE  ContextAfter(u, c) /\ HandlerAfter(u, c, chunk)
<1>1. handler \in [Uids -> Handlers] /\ ctx \in [Uids -> Contexts]
  BY DEF WakeInv, ClientInv, ClientTypes
<1>2. ctx'[u] = [c EXCEPT !.chunkPromise = FALSE,
                          !.resultPromise = @ /\ ~(c.resultPromise /\ c.finished)]
  BY <1>1 DEF Fulfil
<1>3. handler'[u] =
        IF c.chunkPromise /\ chunk # <<>>
        THEN [handler[u] EXCEPT !.pc = "write", !.chunk = chunk]
        ELSE IF c.chunkPromise THEN [handler[u] EXCEPT !.pc = "result"]
        ELSE IF c.resultPromise /\ c.finished
        THEN [handler[u] EXCEPT !.pc = "respond", !.result = c.tokens]
        ELSE handler[u]
  BY <1>1 DEF Fulfil
<1>4. handler[u] \in Handlers
  BY <1>1
<1>5. ~(c.resultPromise /\ c.finished) => (Erasing(u)' <=> Erasing(u))
  BY DEF Fulfil, Erasing
<1>6. ContextAfter(u, c)
  BY <1>2 DEF Contexts, ContextAfter
<1> DEFINE g == handler[u]
           k == handler'[u]
<1>7. CASE c.chunkPromise /\ chunk # <<>>
  <2>1. k = [g EXCEPT !.pc = "write", !.chunk = chunk]
    BY <1>3, <1>7
  <2>2. /\ k.pc = "write" /\ k.chunk = chunk /\ k.result = g.result
        /\ k.got = g.got /\ k.gaveUp = g.gaveUp
    BY <1>4, <2>1 DEF Handlers
  <2> HIDE DEF g, k
  <2>3. HandlerFields(u, c, chunk, g, k)
    BY <1>5, <1>7, <2>1, <2>2 DEF HandlerFields
  <2> QED BY <1>6, <2>3 DEF HandlerAfter, g, k
<1>8. CASE c.chunkPromise /\ chunk = <<>>
  <2>1. k = [g EXCEPT !.pc = "result"]
    BY <1>3, <1>8
  <2>2. /\ k.pc = "result" /\ k.chunk = g.chunk /\ k.result = g.result
        /\ k.got = g.got /\ k.gaveUp = g.gaveUp
    BY <1>4, <2>1 DEF Handlers
  <2> HIDE DEF g, k
  <2>3. HandlerFields(u, c, chunk, g, k)
    BY <1>5, <1>8, <2>1, <2>2 DEF HandlerFields
  <2> QED BY <1>6, <2>3 DEF HandlerAfter, g, k
<1>9. CASE ~c.chunkPromise /\ c.resultPromise /\ c.finished
  <2>1. k = [g EXCEPT !.pc = "respond", !.result = c.tokens]
    BY <1>3, <1>9
  <2>2. /\ k.pc = "respond" /\ k.chunk = g.chunk /\ k.result = c.tokens
        /\ k.got = g.got /\ k.gaveUp = g.gaveUp
    BY <1>4, <2>1 DEF Handlers
  <2> HIDE DEF g, k
  <2>3. HandlerFields(u, c, chunk, g, k)
    BY <1>5, <1>9, <2>1, <2>2 DEF HandlerFields
  <2> QED BY <1>6, <2>3 DEF HandlerAfter, g, k
<1>10. CASE ~c.chunkPromise /\ ~(c.resultPromise /\ c.finished)
  <2>1. k = g
    BY <1>3, <1>10
  <2> HIDE DEF g, k
  <2>2. HandlerFields(u, c, chunk, g, k)
    BY <1>5, <1>10, <2>1 DEF HandlerFields
  <2> QED BY <1>6, <2>2 DEF HandlerAfter, g, k
<1> QED BY <1>7, <1>8, <1>9, <1>10

\* A request that could not be tokenized is completed with no token.
LEMMA TokenizeFailsAnswers ==
  ASSUME WakeInv, NEW u \in Uids, SubmittedOnce(u), SubmittedOnce(u)', AnswerInv(u),
         TokenizeFails(u)
  PROVE  AnswerInv(u)'
<1> DEFINE h == handler[u]
           c == ctx[u]
           k == handler'[u]
           d == ctx'[u]
           f == [c EXCEPT !.finished = TRUE]
<1>1. handler \in [Uids -> Handlers] /\ ctx \in [Uids -> Contexts]
  BY DEF WakeInv, ClientInv, ClientTypes
<1>2. /\ Batches' = Batches /\ sent' = sent /\ phase' = phase
  BY DEF TokenizeFails, Batches, runnerVars, decodeVars, serviceVars
<1>3. /\ Queued(u) /\ ~Queued(u)' /\ phase[u] = "unknown" /\ sent[u] = 0 /\ Settled(u)'
      /\ h.pc # "new"
  <2>1. u \in encoding \cup checked
    BY DEF TokenizeFails
  <2>2. /\ u \notin encoding' /\ u \notin checked'
        /\ (Occurs(encodeTasks, u)' <=> Occurs(encodeTasks, u))
        /\ (Asked(u)' <=> Asked(u)) /\ (Gathered(u)' <=> Gathered(u))
    BY DEF TokenizeFails, Asked, Gathered, runnerVars
  <2>3. Queued(u) /\ ~Queued(u)'
    BY <2>1, <2>2 DEF SubmittedOnce, AtOnePlace, Queued
  <2> QED BY <1>2, <2>3 DEF SubmittedOnce, Settled
<1>4. CASE c.exists
  <2>1. Fulfil("encode", u, f, <<>>) /\ f \in Contexts /\ "encode" \in Threads
    BY <1>1, <1>4 DEF TokenizeFails, Complete, Contexts, Threads
  <2>2. /\ f.tokens = c.tokens /\ f.chunks = c.chunks /\ f.finished /\ f.exists
        /\ (f.chunkPromise <=> c.chunkPromise) /\ (f.resultPromise <=> c.resultPromise)
    BY <1>1, <1>4 DEF Contexts
  <2> HIDE DEF f
  <2>3. /\ d.tokens = c.tokens /\ d.chunks = c.chunks /\ ~d.chunkPromise
        /\ ~d.resultPromise /\ d.finished /\ d.exists
        /\ k.got = h.got /\ k.gaveUp = h.gaveUp
        /\ c.chunkPromise => k.pc = "result" /\ k.chunk = h.chunk /\ k.result = h.result
        /\ ~c.chunkPromise /\ c.resultPromise =>
             k.pc = "respond" /\ k.chunk = h.chunk /\ k.result = c.tokens
        /\ ~c.chunkPromise /\ ~c.resultPromise => k = h
        /\ ~c.resultPromise => (Erasing(u)' <=> Erasing(u))
    <3>1. ContextAfter(u, f) /\ HandlerAfter(u, f, <<>>)
      BY <2>1, FulfilGives
    <3>2. /\ d.tokens = c.tokens /\ d.chunks = c.chunks /\ ~d.chunkPromise
          /\ ~d.resultPromise /\ d.finished /\ d.exists
      BY <2>2, <3>1 DEF ContextAfter
    <3>3. /\ k.got = h.got /\ k.gaveUp = h.gaveUp
          /\ c.chunkPromise => k.pc = "result" /\ k.chunk = h.chunk /\ k.result = h.result
          /\ ~c.chunkPromise /\ c.resultPromise =>
               k.pc = "respond" /\ k.chunk = h.chunk /\ k.result = c.tokens
          /\ ~c.chunkPromise /\ ~c.resultPromise => k = h
          /\ ~c.resultPromise => (Erasing(u)' <=> Erasing(u))
      BY <2>2, <3>1 DEF HandlerAfter, HandlerFields
    <3> QED BY <3>2, <3>3
  <2> HIDE DEF k, d
  <2> SUFFICES ASSUME ~h.gaveUp  PROVE AnswerInv(u)'
    BY <2>3 DEF AnswerInv, k
  <2>4. /\ h \in Handlers /\ c \in Contexts
        /\ ContextGets(u) /\ HandlerHas(u) /\ (Streamed(u) => StreamHas(u))
        /\ PromisesKept(u) /\ ContextsGo(u)
        /\ h.pc \in {"begin", "next", "write"} \/ c.chunkPromise => Streamed(u)
    BY AnswerOf
  <2>5. ~c.finished /\ c.tokens = UpTo(0) /\ Len(c.tokens) = 0 /\ c.tokens = <<>>
    <3>1. Len(c.tokens) = 0 /\ c.tokens = UpTo(Len(c.tokens))
      BY <1>3, <1>4, <2>4 DEF ContextGets, Contexts
    <3>2. ~c.finished
      BY <1>3, <1>4, <2>4 DEF ContextGets, Settled
    <3> QED BY <3>1, <3>2 DEF UpTo
  <2>6. h.pc \notin {"respond", "done"}
    BY <1>3, <2>4 DEF HandlerHas, Settled
  <2>7. ContextGets(u)'
    BY <1>2, <1>3, <1>4, <2>3, <2>4, <2>5 DEF ContextGets, d
  <2>8. HandlerHas(u)'
    <3>1. ~Erasing(u)
      BY <1>1, <1>3, <2>4, <2>6 DEF HandlerHas, Handlers, Pcs
    <3>2. AllSent(u)' = c.tokens
      BY <1>2, <1>3, <2>5 DEF AllSent
    <3>3. ~(c.chunkPromise /\ c.resultPromise)
      BY <2>4 DEF PromisesKept
    <3>4. k.pc = "new" => h.pc = "new"
      BY <2>3, <3>3
    <3>5. /\ k.pc \in {"respond", "done"} => k.result = c.tokens
          /\ k.pc \notin {"respond", "done"} => ~Erasing(u)'
      BY <2>3, <2>6, <3>1, <3>3
    <3> QED BY <1>3, <2>3, <3>2, <3>4, <3>5 DEF HandlerHas, k, d
  <2>9. ASSUME Streamed(u)  PROVE StreamHas(u)'
    <3>1. /\ StreamHas(u) /\ ~c.resultPromise
          /\ k.chunk = h.chunk
          /\ c.chunkPromise => k.pc = "result" /\ c.chunks = <<>> /\ h.chunk = <<>>
          /\ ~c.chunkPromise => k = h
      <4>1. StreamHas(u) /\ ~c.resultPromise
        BY <2>4, <2>9 DEF StreamHas
      <4>2. c.chunkPromise => h.pc = "suspended"
        BY <2>4 DEF PromisesKept
      <4> QED BY <2>3, <4>1, <4>2 DEF StreamHas
    <3>2. /\ d.tokens = c.tokens /\ d.chunks = c.chunks /\ d.finished /\ d.exists
          /\ ~d.chunkPromise /\ ~d.resultPromise /\ k.got = h.got
      BY <2>3, <3>1
    <3>3. h.pc \notin {"respond", "done"} /\ (k.pc = "new" => h.pc = "new")
      BY <2>6, <3>1
    <3>4. k.chunk = h.chunk /\ k.pc # "write" => h.chunk = <<>>
      BY <2>3, <3>1 DEF StreamHas
    <3>5. /\ h.got = UpTo(Len(h.got)) /\ (h.pc = "new" => h.got = <<>>)
          /\ \A i \in DOMAIN h.chunk :
               h.chunk[i].n = Len(h.got) + i /\ ~h.chunk[i].finished
          /\ Len(c.tokens) = Len(h.got) + Len(h.chunk) + Len(c.chunks)
          /\ \A i \in DOMAIN c.chunks :
               c.chunks[i].n = Len(h.got) + Len(h.chunk) + i /\ ~c.chunks[i].finished
      BY <1>4, <2>5, <3>1 DEF StreamHas
    <3>6. k.pc \in {"wait", "result"} => c.chunks = <<>>
      BY <2>3, <2>5, <3>1 DEF StreamHas
    <3>7. k.pc \notin {"respond", "done"}
      BY <3>1, <3>3
    <3>8. k.chunk = h.chunk
      BY <3>1
    <3> QED BY ZenonT(30), <3>2, <3>3, <3>4, <3>5, <3>6, <3>7, <3>8 DEF StreamHas, k, d
  <2>10. k.pc \in {"begin", "next", "write"} => Streamed(u)
    BY <2>3, <2>4 DEF PromisesKept
  <2> QED BY <2>3, <2>7, <2>8, <2>9, <2>10 DEF AnswerInv, Streamed, k, d
<1>5. CASE ~c.exists
  <2>1. k = h /\ d = c /\ (Erasing(u)' <=> Erasing(u))
    BY <1>5 DEF TokenizeFails, Complete, clientVars, Erasing
  <2> SUFFICES ASSUME ~h.gaveUp  PROVE AnswerInv(u)'
    BY <2>1 DEF AnswerInv
  <2>2. HandlerHas(u)
    BY AnswerOf
  <2>3. h.pc \in {"new", "respond", "done"}
    BY <1>1, <1>5, <2>2 DEF HandlerHas, Handlers, Pcs
  <2> QED BY <1>3, <2>2, <2>3 DEF HandlerHas, Settled
<1> QED BY <1>4, <1>5


\* The next reply on its way is the token that the context is waiting for.
LEMMA NextReply ==
  ASSUME WakeInv, WakeInv', NEW u \in Uids, HandleReply, u = Head(decoding).uid,
         NEW first \in Nat, Awaits(Batches, u, first, sent[u], phase[u])
  PROVE  LET m == Head(decoding)
         IN  /\ m \in Reply /\ m.n = first /\ first <= sent[u]
             /\ m.finished => phase[u] = "ended" /\ first = sent[u]
             /\ Awaits(Batches', u, first + 1, sent[u], phase[u])
<1>1. /\ Batches \in BatchSeqs /\ Batches' \in BatchSeqs /\ sent[u] \in Nat
      /\ FirstTaken(Batches, Batches') /\ Batches[1] = decoding
  BY BatchesType, BatchesTypeNext, BatchesChange DEF WakeInv, QueueTypes
<1>2. Head(decoding) = Batches[1][1] /\ Head(decoding) \in Reply
  BY <1>1, HeadTailProperties DEF WakeInv, QueueTypes, HandleReply
<1>3. Batches[1][1].uid = u
  BY <1>2
<1>4. /\ Batches[1][1].n = first /\ first <= sent[u]
      /\ Batches[1][1].finished => phase[u] = "ended" /\ first = sent[u]
      /\ Awaits(Batches', u, first + 1, sent[u], phase[u])
  BY <1>1, <1>3, AwaitsTaken
<1> QED BY <1>2, <1>4

\* A reply comes to the context that it is for, and to the handler that waits
\* for it; without a context there is nobody who wants it.
LEMMA HandleReplyAnswers ==
  ASSUME WakeInv, WakeInv', NEW u \in Uids, SubmittedOnce(u), AnswerInv(u), HandleReply,
         u = Head(decoding).uid
  PROVE  AnswerInv(u)'
<1> DEFINE h == handler[u]
           c == ctx[u]
           k == handler'[u]
           d == ctx'[u]
           m == Head(decoding)
           f == Received(c, m)
           chunk == <<m>>
<1>1. handler \in [Uids -> Handlers] /\ ctx \in [Uids -> Contexts]
  BY DEF WakeInv, ClientInv, ClientTypes
<1>2. /\ sent' = sent /\ phase' = phase
      /\ Settled(u)' <=> Settled(u)
  BY DEF HandleReply, serviceVars, Settled, Queued, Asked, Gathered, encodeVars, runnerVars
<1>3. decoding # <<>> /\ m \in Reply
  BY HeadTailProperties DEF HandleReply, WakeInv, QueueTypes
<1>4. CASE c.exists
  <2>1. Fulfil("decode", u, f, chunk) /\ f \in Contexts /\ "decode" \in Threads
    BY <1>1, <1>3, <1>4, ReceivedType DEF HandleReply, Threads
  <2>2. /\ f.tokens = Append(c.tokens, m.n)
        /\ f.chunks = IF c.chunkPromise THEN c.chunks ELSE Append(c.chunks, m)
        /\ f.finished <=> c.finished \/ m.finished
        /\ f.exists
        /\ (f.chunkPromise <=> c.chunkPromise) /\ (f.resultPromise <=> c.resultPromise)
    BY <1>1, <1>4 DEF Contexts, Received
  <2> HIDE DEF f, m
  <2>3. chunk # <<>> /\ Len(chunk) = 1 /\ chunk[1] = m /\ DOMAIN chunk = {1}
    OBVIOUS
  <2> HIDE DEF chunk
  <2>4. /\ d.tokens = f.tokens /\ d.chunks = f.chunks /\ ~d.chunkPromise
        /\ d.resultPromise <=> c.resultPromise /\ ~f.finished
        /\ d.finished <=> f.finished
        /\ d.exists
        /\ k.got = h.got /\ k.gaveUp = h.gaveUp
        /\ c.chunkPromise => k.pc = "write" /\ k.chunk = chunk /\ k.result = h.result
        /\ ~c.chunkPromise /\ c.resultPromise /\ f.finished =>
             k.pc = "respond" /\ k.chunk = h.chunk /\ k.result = f.tokens
        /\ ~c.chunkPromise /\ ~(c.resultPromise /\ f.finished) => k = h
        /\ ~(c.resultPromise /\ f.finished) => (Erasing(u)' <=> Erasing(u))
    <3>1. ContextAfter(u, f) /\ HandlerAfter(u, f, chunk)
      BY <2>1, FulfilGives
    <3>2. /\ d.tokens = f.tokens /\ d.chunks = f.chunks /\ ~d.chunkPromise
          /\ d.resultPromise <=> c.resultPromise /\ ~f.finished
          /\ d.finished <=> f.finished
          /\ d.exists
      BY <2>2, <3>1 DEF ContextAfter
    <3>3. /\ k.got = h.got /\ k.gaveUp = h.gaveUp
          /\ c.chunkPromise => k.pc = "write" /\ k.chunk = chunk /\ k.result = h.result
          /\ ~c.chunkPromise /\ c.resultPromise /\ f.finished =>
               k.pc = "respond" /\ k.chunk = h.chunk /\ k.result = f.tokens
          /\ ~c.chunkPromise /\ ~(c.resultPromise /\ f.finished) => k = h
          /\ ~(c.resultPromise /\ f.finished) => (Erasing(u)' <=> Erasing(u))
      BY <2>2, <2>3, <3>1 DEF HandlerAfter, HandlerFields
    <3> QED BY <3>2, <3>3
  <2> HIDE DEF k, d
  <2> SUFFICES ASSUME ~h.gaveUp  PROVE AnswerInv(u)'
    BY <2>4 DEF AnswerInv, k
  <2>5. /\ h \in Handlers /\ c \in Contexts /\ sent[u] \in Nat
        /\ ContextGets(u) /\ HandlerHas(u) /\ (Streamed(u) => StreamHas(u))
        /\ PromisesKept(u) /\ ContextsGo(u)
        /\ h.pc \in {"begin", "next", "write"} \/ c.chunkPromise => Streamed(u)
    BY AnswerOf
  <2>6. h.pc # "new" /\ (h.pc = "suspended" => ~Erasing(u))
        /\ (h.pc = "suspended" <=> c.chunkPromise \/ c.resultPromise)
        /\ ~(c.chunkPromise /\ c.resultPromise)
    BY <1>4, <2>5 DEF HandlerHas, PromisesKept
  <2> DEFINE n == Len(c.tokens)
  <2>7. n \in Nat /\ n + 1 \in Nat /\ Awaits(Batches, u, n + 1, sent[u], phase[u])
        /\ c.tokens = UpTo(n) /\ (c.finished => n = sent[u])
    BY <1>4, <2>5 DEF ContextGets, Contexts
  <2>8. /\ m.n = n + 1 /\ n + 1 <= sent[u]
        /\ m.finished => phase[u] = "ended" /\ n + 1 = sent[u]
        /\ Awaits(Batches', u, n + 1 + 1, sent[u], phase[u])
    BY <2>7, NextReply DEF m
  <2>9. f.tokens = UpTo(n + 1) /\ Len(f.tokens) = n + 1
    <3>1. f.tokens = UpTo(n + 1)
      BY <2>2, <2>7, <2>8, UpToIs
    <3> QED BY <2>7, <3>1, UpToIs
  <2>10. ~c.finished
    BY <2>5, <2>7, <2>8
  <2>11. f.finished => Settled(u) /\ n + 1 = sent[u]
    BY <2>2, <2>8, <2>10 DEF SubmittedOnce, Settled
  <2> HIDE DEF n
  <2>12. /\ Len(d.tokens) = n + 1 /\ Len(chunk) = 1 /\ DOMAIN chunk = {1}
         /\ chunk[1].n = n + 1 /\ (chunk[1].finished => d.finished)
         /\ (m.finished => d.finished)
    <3>1. d.tokens = f.tokens /\ (d.finished <=> f.finished)
      BY <2>4
    <3>2. m.finished => f.finished
      BY <2>2
    <3> QED BY <2>3, <2>8, <2>9, <3>1, <3>2
  <2>17. d.chunks = (IF c.chunkPromise THEN c.chunks ELSE Append(c.chunks, m))
    BY <2>2, <2>4
  <2>18. /\ ~d.chunkPromise /\ (~c.resultPromise => ~d.resultPromise)
         /\ (c.chunkPromise => k.pc = "write" /\ k.chunk = chunk /\ k.result = h.result)
         /\ (~c.chunkPromise /\ ~c.resultPromise => k = h)
         /\ d.exists /\ k.got = h.got
    BY <2>4
  <2>13. ContextGets(u)'
    BY <1>2, <2>4, <2>8, <2>9, <2>11 DEF ContextGets, d
  <2>14. HandlerHas(u)'
    BY <1>2, <2>4, <2>5, <2>6, <2>9, <2>11 DEF HandlerHas, AllSent, k, d
  <2>15. ASSUME Streamed(u)  PROVE StreamHas(u)'
    <3>1. StreamHas(u)
      BY <2>5, <2>15
    <3> DEFINE g == Len(h.got)
               t == Len(c.chunks)
    <3>2. /\ g \in Nat /\ t \in Nat /\ h.got = UpTo(g) /\ n = g + Len(h.chunk) + t
          /\ Len(h.chunk) \in Nat
          /\ \A i \in DOMAIN c.chunks :
               c.chunks[i].n = g + Len(h.chunk) + i /\ ~c.chunks[i].finished
          /\ \A i \in DOMAIN h.chunk : h.chunk[i].n = g + i /\ ~h.chunk[i].finished
          /\ h.chunk # <<>> => h.pc = "write"
          /\ h.pc \notin {"wait", "result"}
          /\ c.chunkPromise => c.chunks = <<>> /\ t = 0 /\ h.chunk = <<>>
          /\ ~c.resultPromise
          /\ h.pc \in {"respond", "done"} => h.got = h.result
      <4>1. g \in Nat /\ t \in Nat /\ Len(h.chunk) \in Nat
        BY <2>5 DEF Handlers, Contexts
      <4>2. /\ h.got = UpTo(g) /\ n = g + Len(h.chunk) + t
            /\ \A i \in DOMAIN c.chunks :
                 c.chunks[i].n = g + Len(h.chunk) + i /\ ~c.chunks[i].finished
            /\ \A i \in DOMAIN h.chunk : h.chunk[i].n = g + i /\ ~h.chunk[i].finished
            /\ h.pc \notin {"wait", "result"}
            /\ h.chunk # <<>> => h.pc = "write"
            /\ h.pc \in {"respond", "done"} => h.got = h.result
            /\ ~c.resultPromise
            /\ c.chunkPromise => c.chunks = <<>>
        BY <1>4, <2>10, <3>1 DEF StreamHas, n
      <4>3. c.chunkPromise => h.pc = "suspended"
        BY <2>6
      <4>4. Len(<<>>) = 0
        OBVIOUS
      <4> QED BY <4>1, <4>2, <4>3, <4>4
    <3> HIDE DEF g, t
    <3>3. CASE c.chunkPromise
      <4>1. n = g /\ k.chunk = chunk /\ k.pc = "write" /\ d.chunks = <<>>
            /\ ~d.resultPromise /\ DOMAIN <<>> = {} /\ Len(<<>>) = 0
        <5>1. Len(<<>>) = 0 /\ DOMAIN <<>> = {}
          OBVIOUS
        <5>2. n = g + 0 + 0
          BY <3>2, <3>3, <5>1
        <5>3. n = g
          BY <3>2, <5>2
        <5>4. k.chunk = chunk /\ k.pc = "write" /\ d.chunks = <<>>
          BY <2>17, <2>18, <3>2, <3>3
        <5>5. ~d.resultPromise
          BY <2>18, <3>2
        <5> QED BY <5>1, <5>3, <5>4, <5>5
      <4>2. \A i \in DOMAIN chunk : chunk[i].n = g + i /\ (chunk[i].finished => d.finished)
        BY <2>12, <4>1
      <4>3. Len(d.tokens) = g + Len(chunk) + Len(<<>>)
        BY <2>12, <3>2, <4>1
      <4> QED BY <2>18, <3>2, <4>1, <4>2, <4>3 DEF StreamHas, k, d, g
    <3>4. CASE ~c.chunkPromise
      <4> DEFINE s == Append(c.chunks, m)
                 w == g + Len(h.chunk)
      <4>1. /\ k = h /\ d.chunks = s /\ ~d.chunkPromise /\ ~d.resultPromise
            /\ c.chunks \in Seq(Reply) /\ n = w + t /\ w \in Nat
        <5>1. k = h /\ d.chunks = s /\ ~d.chunkPromise /\ ~d.resultPromise
          BY <2>17, <2>18, <3>2, <3>4
        <5>2. c.chunks \in Seq(Reply)
          BY <2>5 DEF Contexts
        <5>3. w \in Nat /\ n = w + t
          BY <3>2
        <5> QED BY <5>1, <5>2, <5>3
      <4>2. /\ Len(s) = t + 1 /\ DOMAIN s = 1 .. t + 1 /\ s[t + 1] = m
            /\ \A i \in 1 .. t : i \in DOMAIN c.chunks /\ s[i] = c.chunks[i]
        BY <1>3, <4>1 DEF t, m
      <4>3. \A i \in DOMAIN c.chunks : c.chunks[i].n = w + i /\ ~c.chunks[i].finished
        BY <3>2
      <4> HIDE DEF s, w
      <4>4. /\ \A i \in DOMAIN s : s[i].n = w + i
            /\ \A i \in DOMAIN s : s[i].finished => i = Len(s) /\ d.finished
            /\ Len(d.tokens) = w + Len(s)
        <5>1. m.n = w + (t + 1) /\ (m.finished => d.finished) /\ Len(d.tokens) = w + (t + 1)
          <6>1. m.n = n + 1 /\ Len(d.tokens) = n + 1 /\ (m.finished => d.finished)
            BY <2>8, <2>12
          <6> QED BY <3>2, <4>1, <6>1
        <5>2. \A i \in 1 .. t + 1 : i \in 1 .. t \/ i = t + 1
          BY <3>2
        <5> QED BY <4>2, <4>3, <5>1, <5>2
      <4>5. \A i \in DOMAIN h.chunk : h.chunk[i].n = g + i /\ ~h.chunk[i].finished
        BY <3>2
      <4>6. /\ h.got = UpTo(g) /\ (h.chunk # <<>> => h.pc = "write")
            /\ h.pc \notin {"new", "wait", "result"} /\ d.exists
            /\ h.pc \in {"respond", "done"} => h.got = h.result
        BY <2>6, <2>18, <3>2
      <4> QED BY ZenonT(30), <4>1, <4>4, <4>5, <4>6 DEF StreamHas, k, d, g, w
    <3> QED BY <3>3, <3>4
  <2>16. k.pc \in {"begin", "next", "write"} => Streamed(u)
    BY <2>4, <2>5
  <2> QED BY <2>4, <2>13, <2>14, <2>15, <2>16 DEF AnswerInv, Streamed, k, d
<1>5. CASE ~c.exists
  <2>1. k = h /\ d = c /\ (Erasing(u)' <=> Erasing(u))
    BY <1>5 DEF HandleReply, clientVars, Erasing
  <2> SUFFICES ASSUME ~h.gaveUp  PROVE AnswerInv(u)'
    BY <2>1 DEF AnswerInv
  <2>2. HandlerHas(u) /\ sent[u] \in Nat
    BY AnswerOf
  <2>3. h.pc # "new"
    <3> SUFFICES ASSUME h.pc = "new"  PROVE FALSE
      OBVIOUS
    <3>1. Awaits(Batches, u, 1, sent[u], phase[u]) /\ sent[u] = 0
      BY <2>2 DEF HandlerHas, SubmittedOnce
    <3> QED BY <2>2, <3>1, NextReply
  <2>4. h.pc \in {"respond", "done"}
    BY <1>1, <1>5, <2>2, <2>3 DEF HandlerHas, Handlers, Pcs
  <2>5. ContextGets(u)' /\ HandlerHas(u)'
    BY <1>2, <1>5, <2>1, <2>2, <2>4 DEF ContextGets, HandlerHas, AllSent
  <2>6. StreamHas(u)' <=> StreamHas(u)
    BY <2>1 DEF StreamHas
  <2> QED BY <2>1, <2>4, <2>5, <2>6 DEF AnswerInv, Streamed
<1> QED BY <1>4, <1>5

-----------------------------------------------------------------------------
(* The answers.                                                            *)

LEMMA FlowInvInit == Init => FlowInv
<1> SUFFICES ASSUME Init, NEW u \in Uids  PROVE AnswerInv(u)
  BY DEF FlowInv
<1>1. /\ handler[u] = [pc |-> "new", chunk |-> <<>>, got |-> <<>>, result |-> <<>>,
                       gaveUp |-> FALSE]
      /\ ctx[u] = NoContext /\ sent[u] = 0
      /\ decoding = <<>> /\ decodeTasks = <<>> /\ replies = <<>>
  BY DEF Init, Service!Init
<1>2. Batches = <<<<>>, <<>>>>
  <2> DEFINE b == Chain(<<>>, <<>>, <<>>)
             c == <<<<>>, <<>>>>
  <2>1. <<>> \in Seq(Reply) /\ <<>> \in BatchSeqs /\ Len(<<>>) = 0
    BY DEF BatchSeqs
  <2>2. b \in BatchSeqs /\ Len(b) = 2 /\ b[1] = <<>> /\ b[2] = <<>>
    <3>1. /\ b \in BatchSeqs /\ Len(b) = Len(<<>>) + 2
          /\ b[1] = <<>> /\ b[Len(<<>>) + 2] = <<>>
      BY <2>1, BatchesAre
    <3>2. Len(<<>>) + 2 = 2
      BY <2>1
    <3> QED BY <3>1, <3>2
  <2>3. c \in BatchSeqs /\ Len(c) = 2 /\ c[1] = <<>> /\ c[2] = <<>>
    BY <2>1 DEF BatchSeqs
  <2> HIDE DEF b, c
  <2>4. \A i \in 1 .. Len(b) : b[i] = c[i]
    BY <2>2, <2>3
  <2>5. b = c
    BY <2>2, <2>3, <2>4, SameBatches
  <2> QED BY <1>1, <2>5 DEF Batches, Chain, b, c
<1>3. ~ctx[u].exists /\ ~ctx[u].chunkPromise /\ ~ctx[u].resultPromise
  BY <1>1 DEF NoContext
<1>4. <<>> = UpTo(0) /\ Len(<<>>) = 0 /\ DOMAIN <<>> = {}
  BY DEF UpTo
<1>5. HandlerHas(u)
  BY <1>1, <1>2, <1>3, AwaitsEmpty DEF HandlerHas
<1>6. StreamHas(u)
  BY <1>1, <1>3, <1>4 DEF StreamHas
<1> QED BY <1>1, <1>3, <1>5, <1>6 DEF AnswerInv, ContextGets

\* a step of another handler, or of a thread that serves another request
LEMMA OthersSame ==
  ASSUME WakeInv, NEW u \in Uids, NEW v \in Uids, u # v,
         \/ Arrive(u) \/ HandlerGoesOn(u) \/ TokenizeFails(u)
         \/ \E thread \in Threads : Erase(thread, u)
         \/ HandleReply /\ u = Head(decoding).uid
  PROVE  ClientSame(v)
<1>1. handler \in [Uids -> Handlers] /\ ctx \in [Uids -> Contexts]
  BY DEF WakeInv, ClientInv, ClientTypes
<1>2. ASSUME NEW thread, NEW c, NEW chunk, Fulfil(thread, u, c, chunk)
      PROVE  ClientSame(v)
  BY <1>1, <1>2 DEF Fulfil, ClientSame, Erasing
<1>3. CASE Arrive(u)
  BY <1>1, <1>3 DEF Arrive, GoTo, ClientSame, Erasing
<1>4. CASE HandlerGoesOn(u)
  <2>1. handler'[v] = handler[v]
    BY <1>1, <1>4 DEF HandlerGoesOn, Begin, BeginFails, NextChunk, Write, WriteFails,
       WriteThrows, CreateContext, WaitResult, WaitResultAsync, Respond, RespondThrows,
       TakeResult, GoTo, GiveUp
  <2>2. ctx'[v] = ctx[v]
    BY <1>1, <1>4 DEF HandlerGoesOn, Begin, BeginFails, NextChunk, Write, WriteFails,
       WriteThrows, CreateContext, WaitResult, WaitResultAsync, Respond, RespondThrows,
       TakeResult, GiveUp
  <2>3. erasing' = erasing
    BY <1>4 DEF HandlerGoesOn, Begin, BeginFails, NextChunk, Write, WriteFails,
       WriteThrows, CreateContext, WaitResult, WaitResultAsync, Respond, RespondThrows,
       GiveUp, HandlerOnly
  <2> QED BY <2>1, <2>2, <2>3 DEF ClientSame, Erasing
<1>5. CASE TokenizeFails(u)
  <2>1. CASE ctx[u].exists
    BY <1>2, <1>5, <2>1 DEF TokenizeFails, Complete
  <2>2. CASE ~ctx[u].exists
    BY <1>5, <2>2 DEF TokenizeFails, Complete, clientVars, ClientSame, Erasing
  <2> QED BY <2>1, <2>2
<1>6. ASSUME NEW thread \in Threads, Erase(thread, u)
      PROVE  ClientSame(v)
  BY <1>1, <1>6 DEF Erase, ClientSame, Erasing
<1>7. CASE HandleReply /\ u = Head(decoding).uid
  <2>1. CASE ctx[u].exists
    BY <1>2, <1>7, <2>1 DEF HandleReply
  <2>2. CASE ~ctx[u].exists
    BY <1>7, <2>2 DEF HandleReply, clientVars, ClientSame, Erasing
  <2> QED BY <2>1, <2>2
<1> QED BY <1>3, <1>4, <1>5, <1>6, <1>7

LEMMA FlowInvNext ==
  ASSUME WakeInv, WakeInv', QueueInv, FlowInv, [Next]_vars
  PROVE  FlowInv'
<1> SUFFICES ASSUME NEW v \in Uids  PROVE AnswerInv(v)'
  BY DEF FlowInv
<1>1. /\ AnswerInv(v) /\ SubmittedOnce(v) /\ SubmittedOnce(v)' /\ StaysSettled(v)
      /\ QueueTypes' /\ sent'[v] \in Nat
  BY QueueStep DEF FlowInv, QueueInv, WakeInv, QueueTypes
<1>12. decoding' = decoding \/ decoding = <<>> => ~HandleReply
  <2> SUFFICES ASSUME decoding' = decoding, HandleReply  PROVE FALSE
    BY DEF HandleReply
  <2>1. decoding' = Tail(decoding) /\ decoding # <<>>
    BY DEF HandleReply
  <2>2. decoding \in Seq(Reply)
    BY DEF WakeInv, QueueTypes
  <2>3. Len(Tail(decoding)) = Len(decoding) - 1 /\ Len(decoding) \in Nat
    BY <2>1, <2>2, HeadTailProperties
  <2> QED BY <2>1, <2>3
<1>2. ASSUME ClientSame(v), HandleReply => Head(decoding).uid # v
      PROVE  AnswerInv(v)'
  BY <1>1, <1>2, AwaitsStep, AnswerKept
<1>3. ASSUME NEW u \in Uids, Arrive(u) \/ HandlerGoesOn(u)
      PROVE  AnswerInv(v)'
  <2>1. CASE u # v
    <3>1. ClientSame(v)
      BY <1>3, <2>1, OthersSame
    <3>2. decoding' = decoding
      BY <1>3 DEF Arrive, HandlerGoesOn, Begin, BeginFails, NextChunk, Write,
         WriteFails, WriteThrows, CreateContext, WaitResult, WaitResultAsync, Respond,
         RespondThrows, GiveUp, HandlerOnly, decodeVars
    <3> QED BY <1>2, <1>12, <3>1, <3>2
  <2>2. CASE Arrive(v)
    BY <1>1, <2>2, ArriveAnswers
  <2>3. ASSUME NEW pc, GiveUp(v, pc)
        PROVE  AnswerInv(v)'
    <3>1. handler'[v].gaveUp
      BY <2>3 DEF GiveUp, WakeInv, ClientInv, ClientTypes, Handlers
    <3> QED BY <3>1 DEF AnswerInv
  <2>4. CASE HandlerGoesOn(v)
    BY <1>1, <2>3, <2>4, NextChunkAnswers, WriteAnswers, TakeResultAnswers, StepsAnswer
       DEF HandlerGoesOn, BeginFails, WriteFails, WriteThrows, RespondThrows
  <2> QED BY <1>3, <2>1, <2>2, <2>4
<1>4. ASSUME NEW u \in Uids, NEW thread \in Threads, Erase(thread, u)
      PROVE  AnswerInv(v)'
  <2>1. CASE u # v
    <3>1. ClientSame(v)
      BY <1>4, <2>1, OthersSame
    <3>2. decoding' = decoding
      BY <1>4 DEF Erase, decodeVars
    <3> QED BY <1>2, <1>12, <3>1, <3>2
  <2>2. CASE u = v
    BY <1>1, <1>4, <2>2, EraseAnswers
  <2> QED BY <2>1, <2>2
<1>5. ASSUME NEW u \in Uids, TokenizeFails(u)
      PROVE  AnswerInv(v)'
  <2>1. CASE u # v
    <3>1. ClientSame(v)
      BY <1>5, <2>1, OthersSame
    <3>2. decoding' = decoding
      BY <1>5 DEF TokenizeFails, decodeVars
    <3> QED BY <1>2, <1>12, <3>1, <3>2
  <2>2. CASE u = v
    BY <1>1, <1>5, <2>2, TokenizeFailsAnswers
  <2> QED BY <2>1, <2>2
<1>6. CASE HandleReply
  <2> DEFINE u == Head(decoding).uid
  <2>1. u \in Uids
    <3>1. Head(decoding) \in Reply
      BY <1>6, HeadTailProperties DEF HandleReply, WakeInv, QueueTypes
    <3> QED BY <3>1 DEF Reply
  <2>2. CASE u # v
    BY <1>2, <1>6, <2>1, <2>2, OthersSame
  <2>3. CASE u = v
    BY <1>1, <1>6, <2>3, HandleReplyAnswers
  <2> QED BY <2>2, <2>3
<1>7. ASSUME UNCHANGED clientVars, decoding' = decoding \/ decoding = <<>>
      PROVE  AnswerInv(v)'
  <2>1. ClientSame(v)
    BY <1>7 DEF clientVars, ClientSame, Erasing
  <2> QED BY <1>2, <1>7, <1>12, <2>1
<1>8. CASE Encode
  <2>1. CASE TakeText \/ \E u \in Uids : CheckAborted(u) \/ SubmitTokens(u)
    BY <1>7, <2>1 DEF TakeText, CheckAborted, SubmitTokens, decodeVars
  <2>2. CASE \E u \in Uids : TokenizeFails(u) \/ Erase("encode", u)
    BY <1>4, <1>5, <2>2 DEF Threads
  <2> QED BY <1>8, <2>1, <2>2 DEF Encode
<1>9. CASE Run
  BY <1>7, <1>9 DEF Run, GatherCommands, Execute, BeginStep, Generate, EndStep, decodeVars
<1>10. CASE Decode
  <2>1. CASE TakeReplies
    BY <1>7, <2>1 DEF TakeReplies
  <2>2. CASE \E u \in Uids : Erase("decode", u)
    BY <1>4, <2>2 DEF Threads
  <2> QED BY <1>6, <1>10, <2>1, <2>2 DEF Decode
<1>11. CASE RequestStop \/ StopPool \/ UNCHANGED vars
  BY <1>7, <1>11 DEF RequestStop, StopPool, vars, decodeVars
<1> QED BY <1>3, <1>8, <1>9, <1>10, <1>11 DEF Next

LEMMA AnswersAlways == Spec => [](WakeInv /\ QueueInv /\ FlowInv)
<1>1. Init => QueueInv /\ FlowInv
  BY QueueInvInit, FlowInvInit
<1>2. WakeInv /\ WakeInv' /\ QueueInv /\ FlowInv /\ [Next]_vars => QueueInv' /\ FlowInv'
  BY QueueInvNext, FlowInvNext
<1> QED BY <1>1, <1>2, WakeAlways, PTL DEF Spec

LEMMA NumbersAre ==
  ASSUME NEW s \in Seq(Reply)
  PROVE  /\ Numbers(s) \in Seq(Nat) /\ Len(Numbers(s)) = Len(s)
         /\ \A i \in 1 .. Len(s) : Numbers(s)[i] = s[i].n
<1>1. /\ s \in [1 .. Len(s) -> Reply] /\ DOMAIN s = 1 .. Len(s) /\ Len(s) \in Nat
  OBVIOUS
<1> DEFINE n == Len(s)
<1> HIDE DEF n
<1>2. Numbers(s) = [i \in 1 .. n |-> s[i].n]
  BY <1>1 DEF Numbers, n
<1>3. \A i \in 1 .. n : s[i].n \in Nat
  BY <1>1 DEF Reply, n
<1>4. Numbers(s) \in [1 .. n -> Nat] /\ n \in Nat
  BY <1>1, <1>2, <1>3 DEF n
<1>5. Numbers(s) \in Seq(Nat) /\ Len(Numbers(s)) = n
  BY <1>4
<1> QED BY <1>2, <1>5 DEF n

\* a sequence that counts on where another one that counts from 1 ends
LEMMA ConcatCounts ==
  ASSUME NEW q \in Seq(Nat), NEW b \in Seq(Nat),
         \A i \in 1 .. Len(q) : q[i] = i, \A i \in 1 .. Len(b) : b[i] = Len(q) + i
  PROVE  /\ q \o b \in Seq(Nat) /\ Len(q \o b) = Len(q) + Len(b)
         /\ \A i \in 1 .. Len(q) + Len(b) : (q \o b)[i] = i
<1> DEFINE k == Len(q)
           n == Len(b)
<1>1. /\ q \o b \in Seq(Nat) /\ Len(q \o b) = k + n
      /\ \A i \in 1 .. k + n : (q \o b)[i] = IF i <= k THEN q[i] ELSE b[i - k]
      /\ \A i \in 1 .. k : q[i] = i
      /\ \A i \in 1 .. n : b[i] = k + i
      /\ k \in Nat /\ n \in Nat
  BY ConcatProperties
<1> HIDE DEF k, n
<1>2. ASSUME NEW i \in 1 .. k + n  PROVE (q \o b)[i] = i
  <2>1. CASE i <= k
    BY <1>1, <2>1
  <2>2. CASE i > k
    <3>1. i - k \in 1 .. n /\ k + (i - k) = i /\ ~(i <= k)
      BY <1>1, <2>2
    <3> QED BY <1>1, <3>1
  <2> QED BY <1>1, <2>1, <2>2
<1> QED BY <1>1, <1>2 DEF k, n

(* No token is lost, doubled or reordered on its way from the scheduler    *)
(* through the queues and the context to the handler of a stream.          *)
THEOREM NoTokenIsLost == Spec => []NoTokenLost
<1>1. ASSUME WakeInv, FlowInv  PROVE NoTokenLost
  <2> SUFFICES ASSUME NEW u \in Uids, ctx[u].exists, ~handler[u].gaveUp
               PROVE  LET c == ctx[u]
                          h == handler[u]
                      IN  /\ c.tokens = UpTo(Len(c.tokens)) /\ Len(c.tokens) <= sent[u]
                          /\ Holds(Batches, u, Len(c.tokens) + 1, sent[u])
                          /\ Kind[u] \in {"sse", "stream"} =>
                               h.got \o Numbers(h.chunk) \o Numbers(c.chunks) = c.tokens
    BY DEF NoTokenLost
  <2> DEFINE c == ctx[u]
             h == handler[u]
  <2>1. /\ h \in Handlers /\ c \in Contexts
        /\ ContextGets(u) /\ (Streamed(u) => StreamHas(u))
    BY <1>1, AnswerOf DEF FlowInv
  <2>2. /\ c.tokens = UpTo(Len(c.tokens)) /\ Len(c.tokens) <= sent[u]
        /\ Holds(Batches, u, Len(c.tokens) + 1, sent[u])
    BY <2>1 DEF ContextGets, Awaits
  <2>3. ASSUME Streamed(u)
        PROVE  h.got \o Numbers(h.chunk) \o Numbers(c.chunks) = c.tokens
    <3> DEFINE g == h.got
               w == h.chunk
               t == c.chunks
               r == c.tokens
    <3>1. /\ g \in Seq(Nat) /\ w \in Seq(Reply) /\ t \in Seq(Reply) /\ r \in Seq(Nat)
          /\ Len(g) \in Nat /\ Len(w) \in Nat /\ Len(t) \in Nat /\ Len(r) \in Nat
      BY <2>1 DEF Handlers, Contexts
    <3>2. /\ g = UpTo(Len(g)) /\ r = UpTo(Len(r))
          /\ Len(r) = Len(g) + Len(w) + Len(t)
          /\ \A i \in 1 .. Len(w) : w[i].n = Len(g) + i
          /\ \A i \in 1 .. Len(t) : t[i].n = Len(g) + Len(w) + i
      <4>1. /\ DOMAIN w = 1 .. Len(w) /\ DOMAIN t = 1 .. Len(t)
        BY <3>1
      <4>2. /\ g = UpTo(Len(g)) /\ r = UpTo(Len(r))
            /\ Len(r) = Len(g) + Len(w) + Len(t)
            /\ \A i \in DOMAIN w : w[i].n = Len(g) + i
            /\ \A i \in DOMAIN t : t[i].n = Len(g) + Len(w) + i
        BY <2>1, <2>2, <2>3 DEF StreamHas
      <4> HIDE DEF g, w, t, r
      <4> QED BY <4>1, <4>2
    <3> HIDE DEF g, w, t, r
    <3>3. /\ \A i \in 1 .. Len(g) : g[i] = i
          /\ \A i \in 1 .. Len(r) : r[i] = i
      BY <3>1, <3>2, UpToIs
    <3>4. /\ Numbers(w) \in Seq(Nat) /\ Len(Numbers(w)) = Len(w)
          /\ \A i \in 1 .. Len(w) : Numbers(w)[i] = Len(g) + i
      BY <3>1, <3>2, NumbersAre
    <3>5. /\ Numbers(t) \in Seq(Nat) /\ Len(Numbers(t)) = Len(t)
          /\ \A i \in 1 .. Len(t) : Numbers(t)[i] = Len(g) + Len(w) + i
      BY <3>1, <3>2, NumbersAre
    <3> DEFINE a == Numbers(w)
               b == Numbers(t)
    <3> HIDE DEF a, b
    <3>6. /\ g \o a \in Seq(Nat) /\ Len(g \o a) = Len(g) + Len(w)
          /\ \A i \in 1 .. Len(g) + Len(w) : (g \o a)[i] = i
      <4>1. a \in Seq(Nat) /\ Len(a) = Len(w) /\ \A i \in 1 .. Len(a) : a[i] = Len(g) + i
        BY <3>4 DEF a
      <4>2. /\ g \o a \in Seq(Nat) /\ Len(g \o a) = Len(g) + Len(a)
            /\ \A i \in 1 .. Len(g) + Len(a) : (g \o a)[i] = i
        BY <3>1, <3>3, <4>1, ConcatCounts
      <4> QED BY <4>1, <4>2
    <3> DEFINE q == g \o a
    <3> HIDE DEF q
    <3>7. /\ q \o b \in Seq(Nat) /\ Len(q \o b) = Len(r)
          /\ \A i \in 1 .. Len(r) : (q \o b)[i] = i
      <4>1. /\ q \in Seq(Nat) /\ Len(q) = Len(g) + Len(w) /\ \A i \in 1 .. Len(q) : q[i] = i
            /\ b \in Seq(Nat) /\ Len(b) = Len(t) /\ \A i \in 1 .. Len(b) : b[i] = Len(q) + i
        BY <3>5, <3>6 DEF q, b
      <4>2. Len(r) = Len(q) + Len(b)
        BY <3>2, <4>1
      <4> QED BY <4>1, <4>2, ConcatCounts
    <3>8. q \o b = r
      BY <3>1, <3>3, <3>7, SeqEqual
    <3> QED BY <3>8 DEF q, a, b, g, w, t, r
  <2> QED BY <2>2, <2>3 DEF Streamed
<1> QED BY <1>1, AnswersAlways, PTL

(* The client of a handler that was not interrupted gets all the tokens of *)
(* its request, and a stream has written just these.                       *)
THEOREM AnswersAreWhole == Spec => []AnswersWhole
<1>1. ASSUME WakeInv, FlowInv  PROVE AnswersWhole
  <2> SUFFICES ASSUME NEW u \in Uids, handler[u].pc \in {"respond", "done"},
                      ~handler[u].gaveUp
               PROVE  LET h == handler[u]
                      IN  /\ h.result = AllSent(u)
                          /\ phase[u] \in {"ended", "unknown"}
                          /\ Kind[u] \in {"sse", "stream"} => h.got = h.result
    BY DEF AnswersWhole
  <2>1. HandlerHas(u) /\ (Streamed(u) => StreamHas(u))
    BY <1>1, AnswerOf DEF FlowInv
  <2> QED BY <2>1 DEF HandlerHas, StreamHas, Settled, Streamed
<1> QED BY <1>1, AnswersAlways, PTL
=============================================================================
