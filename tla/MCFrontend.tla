----------------------------- MODULE MCFrontend -----------------------------
\* Small sets of requests for Frontend.
EXTENDS Frontend

\* a stream, an answer by a coroutine, an answer to a blocked thread
EachWay == [u \in Uids |-> CASE u = 1 -> "stream" [] u = 2 -> "async"
                             [] OTHER -> "tokens"]

\* the two kinds of streams, by a coroutine and by a blocked thread
Streams == [u \in Uids |-> IF u = 1 THEN "stream" ELSE "sse"]

\* texts, one answered by a coroutine, one to a blocked thread
Texts == [u \in Uids |-> IF u = 1 THEN "async" ELSE "text"]

TwoThenOne == [u \in Uids |-> IF u = 1 THEN 2 ELSE 1]
TwoEach    == [u \in Uids |-> 2]

AllValid == [u \in Uids |-> TRUE]
OnlyOne  == [u \in Uids |-> u = 1]
=============================================================================
