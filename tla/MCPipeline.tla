----------------------------- MODULE MCPipeline ------------------------------
(* Instances of Pipeline.                                                    *)
EXTENDS Pipeline

\* a batch padded to the smallest graph, and one too long for it
Shapes == {<<1, 2>>, <<2, 3>>}
==============================================================================
