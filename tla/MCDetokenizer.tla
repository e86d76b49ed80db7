---------------------------- MODULE MCDetokenizer ----------------------------
(* Replies for Detokenizer.                                                  *)
EXTENDS Detokenizer

a   == <<"a">>
sp  == <<"a", " ">>
nl  == <<"\n">>
h   == <<"h1", "h2", "h3">>
eL  == <<"e1">>
eR  == <<"e2">>
eos == <<>>

\* runs of tokens that end complete, by whether a token ends within a character
Whole == {<<a>>, <<sp>>, <<h>>, <<nl>>}
Split == {<<eL, eR>>, <<<<"h1">>, <<"h2">>, <<"h3">>>>}

Texts(runs, n) == {FlattenSeq(t) : t \in UNION {[1 .. k -> runs] : k \in 1 .. n}}

\* a character is split only after a space or a Chinese character; the last
\* one may be cut off
SplitAfterBreak ==
  {b \o t \o f : b \in {<<sp>>, <<a, h>>, <<sp, a, sp>>},
                 t \in Split \cup {<<a, sp>>, <<h>>},
                 f \in {<<eos>>, <<nl>>, <<h, eL>>}}

\* any character may be split
AnySplit == Texts(Whole \cup Split, 2)
==============================================================================
