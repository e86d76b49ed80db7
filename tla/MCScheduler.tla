---------------------------- MODULE MCScheduler ----------------------------
(* Workloads for Scheduler: prompts and limits of up to four requests.      *)
EXTENDS Scheduler

CONSTANTS r1, r2, r3, r4, a, b, c, d, eos

Workload(f) == [u \in Uids |-> f[u]]

\* prompts that share prefixes
SharedPrompt == Workload(r1 :> <<a, b, c>> @@ r2 :> <<a, b, d>>
                         @@ r3 :> <<a, c>> @@ r4 :> <<b, a>>)
\* nothing in common; r3 does not fit a prefill budget of two
DistinctPrompt == Workload(r1 :> <<a, b>> @@ r2 :> <<b>> @@ r3 :> <<c, a, b>>)
\* one prompt is a prefix of another
NestedPrompt == Workload(r1 :> <<a, b>> @@ r2 :> <<a, c>> @@ r3 :> <<a, b, c>>)

AllTwo == [u \in Uids |-> 2]
Mixed == Workload(r1 :> 3 @@ r2 :> 1 @@ r3 :> 2)
IgnoringEos == [u \in Uids |-> u = r1]
=============================================================================
