---------------------------- MODULE MCRadixCache ----------------------------
(* Inputs that share prefixes of every length, so that walks end in the     *)
(* middle of nodes, at nodes and at the root, and nodes are split twice.    *)
EXTENDS RadixCache

MCInputs == {<<1, 2>>, <<1, 2, 3, 1>>, <<1, 3>>, <<2, 1>>}
=============================================================================
