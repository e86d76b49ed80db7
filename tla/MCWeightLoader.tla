---------------------------- MODULE MCWeightLoader ---------------------------
(* Models and checkpoints for WeightLoader.                                  *)
EXTENDS WeightLoader

Model(experts, bias, fp8, size) ==
  [heads |-> 4, kvHeads |-> 2, inter |-> 2, experts |-> experts, bias |-> bias,
   fp8 |-> fp8, size |-> size]

\* dense and with experts, of one rank and of two; biases of one rank only
Models == {Model(0, TRUE, FALSE, 1), Model(0, FALSE, TRUE, 2), Model(2, FALSE, TRUE, 2)}
BiasModel == {Model(0, TRUE, FALSE, 2)}

\* Each of q, k and v in a file of its own choice, the last one in two files
\* maybe, so that groups are split or repeated; a scale with its weight, the
\* experts in one file, the rest in file 2.
Scattered(c, names) ==
  {[n \in names |->
      IF n.kind = "weight" /\ n.slot \in {"q", "k", "v"} THEN where[n.slot]
      ELSE IF n.slot \in {"q", "k", "v"} THEN where["q"]
      ELSE IF n.slot \in {"gate", "up", "down"} THEN {mlp}
      ELSE {2}] :
     where \in [{"q", "k", "v"} -> {{1}, {2}, {1, 3}}], mlp \in {1, 2}}

OneFile(c, names) == {[n \in names |-> {1}]}
==============================================================================
