----------------------------- MODULE Detokenizer -----------------------------
(***************************************************************************)
(* HFDetokenizeManager (tokenizer/hf_tokenizer.cc): the texts of requests  *)
(* are decoded token by token, and of each only the part is sent that      *)
(* later tokens will not change.  Offsets count bytes and characters have  *)
(* one to three of them, so a text is a sequence of bytes.                 *)
(*                                                                         *)
(* Bytes: "a" (an ASCII letter), " " and "\n"; "e1" "e2" (a letter of two  *)
(* bytes); "h1" "h2" "h3" (a Chinese character); "f1" "f2" "f3" (U+FFFD,   *)
(* what the tokenizer library decodes an incomplete character to).  The    *)
(* last byte of a character tells which character it is.                   *)
(*                                                                         *)
(* A token may hold part of a character only, so the end of a text may be  *)
(* incomplete until the next token.                                        *)
(***************************************************************************)
EXTENDS Integers, Sequences, SequencesExt, FiniteSets

CONSTANTS
  Uids,     \* the requests
  Replies   \* texts as sequences of tokens, of which each request gets one

ASSUME UidsAssumption == IsFiniteSet(Uids)

ASSUME RepliesAssumption ==
  \A r \in Replies : r \in Seq(Seq(STRING)) /\ r # <<>>

VARIABLES
  decodeMap, \* decode_map_: uid -> the DecodeStatus of the request
  reply,     \* the reply the model generates for each request
  next,      \* the number of its tokens the detokenizer was given
  out,       \* what was handed out of its text so far
  failed     \* the requests of whose calls one threw

vars == <<decodeMap, reply, next, out, failed>>

------------------------------------------------------------------------------
(* The tokenizer library *)

Replacement == <<"f1", "f2", "f3">>

\* the length of the valid character bytes[i..], 0 if there is none
CharAt(bytes, i) ==
  IF bytes[i] \in {"a", " ", "\n"} THEN 1
  ELSE IF IsPrefix(<<"e1", "e2">>, SubSeq(bytes, i, Len(bytes))) THEN 2
  ELSE IF IsPrefix(<<"h1", "h2", "h3">>, SubSeq(bytes, i, Len(bytes))) THEN 3
  ELSE 0

\* the length of the part of a character at bytes[i..] that one U+FFFD replaces
BrokenAt(bytes, i) ==
  IF IsPrefix(<<"h1", "h2">>, SubSeq(bytes, i, Len(bytes))) THEN 2 ELSE 1

\* Decode: the text of tokens, with U+FFFD for what is no character
Decode(tokens) ==
  LET bytes == FlattenSeq(tokens)
      from[i \in 1 .. Len(bytes) + 1] ==
        IF i > Len(bytes) THEN <<>>
        ELSE IF CharAt(bytes, i) > 0
               THEN SubSeq(bytes, i, i + CharAt(bytes, i) - 1)
                      \o from[i + CharAt(bytes, i)]
               ELSE Replacement \o from[i + BrokenAt(bytes, i)]
  IN from[1]

------------------------------------------------------------------------------
(* The text that can be sent *)

EndsIncomplete(text) == IsSuffix(Replacement, text)

\* text without its last character, if that is complete
WithoutLast(text) ==
  SubSeq(text, 1, Len(text) - (CASE Last(text) \in {"h3", "f3"} -> 3
                                 [] Last(text) = "e2" -> 2
                                 [] OTHER -> 1))

EndsChinese(text) == text # <<>> /\ Last(text) = "h3"

Spaces(text) == {i \in DOMAIN text : text[i] = " "}

\* mutant: up to the last space whatever the text ends with
FindPrintableTextBySpaces(text) ==
  IF Spaces(text) # {}
    THEN SubSeq(text, 1, CHOOSE i \in Spaces(text) :
                           \A j \in Spaces(text) : j <= i)
    ELSE text

\* find_printable_text
FindPrintableText(text) ==
  IF text = <<>> \/ EndsChinese(text) THEN text
  ELSE IF Last(text) = "\n" THEN text
  ELSE IF EndsChinese(WithoutLast(text)) THEN WithoutLast(text)
  ELSE IF Spaces(text) # {}
         THEN SubSeq(text, 1, CHOOSE i \in Spaces(text) :
                                \A j \in Spaces(text) : j <= i)
  ELSE text

------------------------------------------------------------------------------
(* DecodeStatus *)

NewStatus == [ids |-> <<>>, str |-> <<>>, surr |-> 0, read |-> 0, sent |-> 0]

Status(uid) == IF uid \in DOMAIN decodeMap THEN decodeMap[uid] ELSE NewStatus

\* the text that the tokens after read_offset add
NewText(s) ==
  LET readStr == Decode(SubSeq(s.ids, s.surr + 1, Len(s.ids)))
      surrStr == Decode(SubSeq(s.ids, s.surr + 1, s.read))
  IN SubSeq(readStr, Len(surrStr) + 1, Len(readStr))

\* mutant: surr_offset is moved past the text it stands for
CommittedSkips(s) ==
  IF NewText(s) # <<>> /\ ~EndsIncomplete(NewText(s))
    THEN [s EXCEPT !.str = @ \o NewText(s), !.surr = Len(s.ids)]
    ELSE s

\* mutant: read_offset is not moved
CommittedRereads(s) ==
  IF NewText(s) # <<>> /\ ~EndsIncomplete(NewText(s))
    THEN [s EXCEPT !.str = @ \o NewText(s), !.surr = s.read]
    ELSE s

\* a text that ends complete becomes part of decoded_str
Committed(s) ==
  IF NewText(s) # <<>> /\ ~EndsIncomplete(NewText(s))
    THEN [s EXCEPT !.str = @ \o NewText(s), !.surr = s.read,
                   !.read = Len(s.ids)]
    ELSE s

\* output_str_full
FullOutput(s) ==
  IF EndsIncomplete(NewText(s))
    THEN FindPrintableText(s.str \o FindPrintableText(NewText(s)))
    ELSE Committed(s).str

\* substr throws when the printable text is shorter than what was sent
Throws(s) == s.sent > Len(FullOutput(s))

------------------------------------------------------------------------------
(* detokenize: a batch of messages, at most one of each request *)

\* the entries with the next token of each request of the batch
WithTokens(batch) ==
  [u \in DOMAIN decodeMap \cup ToSet(batch) |->
     IF u \in ToSet(batch)
       THEN [Status(u) EXCEPT !.ids = Append(@, reply[u][next[u] + 1])]
       ELSE decodeMap[u]]

\* mutant: one token too late
FinishedLate(uid) == next[uid] = Len(reply[uid])

Finished(uid) == next[uid] + 1 = Len(reply[uid])

\* the position of the first message that throws, 0 if there is none
FirstThrow(batch) ==
  LET bad == {i \in DOMAIN batch : Throws(WithTokens(batch)[batch[i]])}
  IN IF bad = {} THEN 0 ELSE CHOOSE i \in bad : \A j \in bad : i <= j

\* the requests that the second loop gets to the end of
Handled(batch) ==
  IF FirstThrow(batch) = 0 THEN ToSet(batch)
  ELSE ToSet(SubSeq(batch, 1, FirstThrow(batch) - 1))

AfterBatch(batch) ==
  LET map == WithTokens(batch)
      stopped == IF FirstThrow(batch) = 0 THEN {} ELSE {batch[FirstThrow(batch)]}
      gone == {u \in Handled(batch) : Finished(u)}
  IN [u \in DOMAIN map \ gone |->
        IF u \in Handled(batch)
          THEN [Committed(map[u]) EXCEPT !.sent = Len(FullOutput(map[u]))]
          ELSE IF u \in stopped THEN Committed(map[u]) ELSE map[u]]

\* the decode thread runs one task: a batch of next tokens; when it throws,
\* handle_detokenize gets nothing of the whole batch
Detokenize(batch) ==
  /\ decodeMap' = AfterBatch(batch)
  /\ next' = [u \in Uids |-> next[u] + IF u \in ToSet(batch) THEN 1 ELSE 0]
  /\ IF FirstThrow(batch) = 0
       THEN /\ out' = [u \in Uids |->
                 IF u \in ToSet(batch)
                   THEN LET s == WithTokens(batch)[u]
                        IN out[u] \o SubSeq(FullOutput(s), s.sent + 1,
                                            Len(FullOutput(s)))
                   ELSE out[u]]
            /\ UNCHANGED failed
       ELSE /\ failed' = failed \cup ToSet(batch)
            /\ UNCHANGED out
  /\ UNCHANGED reply

\* the batches of replies: requests in any order, each with a token to come
Batches ==
  {s \in UNION {SetToSeqs(S) : S \in SUBSET Uids \ {{}}} :
     \A i \in DOMAIN s : next[s[i]] < Len(reply[s[i]])}

Init ==
  /\ decodeMap = <<>>
  /\ reply \in [Uids -> Replies]
  /\ next = [u \in Uids |-> 0]
  /\ out = [u \in Uids |-> <<>>]
  /\ failed = {}

Next == \E batch \in Batches : Detokenize(batch)

Spec == Init /\ [][Next]_vars

------------------------------------------------------------------------------
Text(uid) == Decode(SubSeq(reply[uid], 1, next[uid]))

\* The type of the state; the offsets of an entry follow one another and lie
\* within its tokens.
TypeOK ==
  /\ DOMAIN decodeMap \subseteq Uids
  /\ \A u \in DOMAIN decodeMap :
       /\ decodeMap[u].ids = SubSeq(reply[u], 1, next[u])
       /\ 0 <= decodeMap[u].surr /\ decodeMap[u].surr <= decodeMap[u].read
       /\ decodeMap[u].read <= Len(decodeMap[u].ids)
  /\ next \in [Uids -> Nat]
  /\ failed \subseteq Uids

\* What a client got is the beginning of the text of its tokens, to the last
\* byte of it when the text ends complete: the incremental strings of
\* detokenize() add up.
IncrementsAddUp ==
  \A u \in Uids \ failed :
    /\ IsPrefix(out[u], Text(u))
    /\ EndsIncomplete(Text(u)) \/ out[u] = Text(u)

\* No text is lost to an exception: detokenize() returns the increment of
\* every message of its batch.
NoBatchLost == failed = {}

\* An entry is there from the first token of a request to its last; only when
\* a call threw may the entry of a request of its batch stay behind.
EntriesLive ==
  LET live == {u \in Uids : 0 < next[u] /\ next[u] < Len(reply[u])}
  IN live \subseteq DOMAIN decodeMap /\ DOMAIN decodeMap \subseteq live \cup failed
==============================================================================
