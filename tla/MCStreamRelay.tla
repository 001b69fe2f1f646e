--------------------------- MODULE MCStreamRelay ---------------------------
(***************************************************************************)
(* A short answer of two blocks, and every kind of header value in front of   *)
(* the headers the relay reads, its bytes zeros or sevens (a string tag).     *)
(* Conversations of up to three messages; ids are the places of the content.  *)
(***************************************************************************)
EXTENDS StreamRelay

Fill(n, byte) == [i \in 1..n |-> byte]

OddHeaders ==
  {<< >>}
    \cup { EncodeHeader(<<5>>, t, Fill(FixedWidth(t), byte)) : t \in (0..9) \ LengthPrefixed, byte \in {0, 7} }
    \cup { EncodeHeader(<<5, 5>>, t, <<7, 2>>) : t \in LengthPrefixed }
    \cup { EncodeHeader(<<5>>, 10, <<7>>) }
    \cup { EncodeHeader(EventType, StringType, <<7>>) \o EncodeHeader(MessageType, 0, << >>) }

Id(n) == <<"a", "b", "c", "d", "e", "f">>[n]

OpenAIKinds ==
  { [role |-> "system", says |-> TRUE, calls |-> 0], [role |-> "user", says |-> TRUE, calls |-> 0],
    [role |-> "user", says |-> FALSE, calls |-> 0], [role |-> "assistant", says |-> FALSE, calls |-> 2],
    [role |-> "assistant", says |-> TRUE, calls |-> 1], [role |-> "tool", says |-> TRUE, calls |-> 0],
    [role |-> "function", says |-> TRUE, calls |-> 0] }

OpenAIMessage(k, n) ==
  [role |-> k.role, text |-> IF k.says THEN Id(n) ELSE "",
   calls |-> [i \in 1..k.calls |-> Id(n + 3)], id |-> Id(n)]

AnthropicBlock == [kind : {"text", "toolUse", "toolResult", "image"}, id : {"a"}] \cup {Block("text", "")}
AnthropicMessage == [role : {"user", "assistant", "system"}, content : SeqOf(AnthropicBlock, 2)]

SmallAsks ==
  [ openai |-> { [i \in 1..Len(ks) |-> OpenAIMessage(ks[i], i)] : ks \in SeqOf(OpenAIKinds, 3) },
    anthropic |-> SeqOf(AnthropicMessage, 1)
       \cup { <<m, [role |-> "user", content |-> <<Block("text", "z")>>]>> : m \in AnthropicMessage },
    native |-> SeqOf([role : {"user", "system"}, text : {"", "a"}], 2) ]

AnswerItems == { [type |-> "message", ids |-> <<"a", "">>], [type |-> "message", ids |-> <<"b">>],
                 [type |-> "reasoning", ids |-> <<"d">>],
                 [type |-> "function_call", ids |-> <<"c">>] }

SmallAnswers ==
  { [status |-> st, output |-> out, items |-> items] :
      st \in {"completed", "incomplete"}, out \in {0, 5}, items \in SeqOf(AnswerItems, 3) }
  \cup { [status |-> st, output |-> 0, items |-> << >>] : st \in {"rejected", "failed", "cancelled", "garbled"} }
=============================================================================
