----------------------------- MODULE Generation -----------------------------
(***************************************************************************)
(* What the scheduler promises to whoever submits a request: its tokens    *)
(* come one by one and in order, at least one and at most Limit of them,   *)
(* the last one is marked, an abort ends them, and nothing follows an end  *)
(* or an abort. Scheduler implements this specification; Frontend is built *)
(* on it.                                                                  *)
(***************************************************************************)
EXTENDS Naturals

CONSTANTS Uids,   \* the requests, each submitted once
          Limit   \* Limit[u]: how many tokens u may get at most

VARIABLES phase,  \* where each request is
          sent    \* how many tokens each request was sent

vars == <<phase, sent>>

Init == /\ phase = [u \in Uids |-> "unknown"]
        /\ sent = [u \in Uids |-> 0]

Submit(u) ==
  /\ phase[u] = "unknown"
  /\ phase' = [phase EXCEPT ![u] = "live"]
  /\ UNCHANGED sent

Abort(u) ==
  /\ phase[u] = "live"
  /\ phase' = [phase EXCEPT ![u] = "aborted"]
  /\ UNCHANGED sent

\* the next token, the last one at the limit at the latest
Reply(u, last) ==
  /\ phase[u] = "live"
  /\ sent[u] + 1 = Limit[u] => last
  /\ sent' = [sent EXCEPT ![u] = @ + 1]
  /\ phase' = [phase EXCEPT ![u] = IF last THEN "ended" ELSE "live"]

Next == \E u \in Uids : \/ Submit(u) \/ Abort(u)
                        \/ \E last \in BOOLEAN : Reply(u, last)

Spec == Init /\ [][Next]_vars
=============================================================================
