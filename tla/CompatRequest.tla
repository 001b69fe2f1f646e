--------------------------- MODULE CompatRequest ---------------------------
(***************************************************************************)
(* Translation of a client's conversation: OpenAI chat.completions and        *)
(* Anthropic messages into Converse messages, those into Mantle's Responses   *)
(* input, and the provider's buffered answer back.  A piece of content is a   *)
(* kind and an id; the id "" is a text with nothing in it.                    *)
(***************************************************************************)
EXTENDS Naturals, Sequences, SequencesExt

Block(kind, id) == [kind |-> kind, id |-> id]
Message(role, content) == [role |-> role, content |-> content]
NoText == ""
Said(block) == block.kind # "text" \/ block.id # NoText

\* The elements that Keep holds of, in order: SelectSeq, in a form that proofs can unfold.
Filter(seq, Keep(_)) == FlattenSeq([i \in 1..Len(seq) |-> IF Keep(seq[i]) THEN <<seq[i]>> ELSE << >>])

\* Roles the provider does not know speak for the user.
ProviderRole(role) == IF role \in {"user", "assistant"} THEN role ELSE "user"

-----------------------------------------------------------------------------
\* As if the results stayed in the buffer.
FlushToolResultsKept(acc) ==
  IF acc.results = << >> THEN acc
  ELSE [acc EXCEPT !.messages = Append(@, Message("user", acc.results))]

(***************************************************************************)
(* OpenAI: a message is a text and tool calls, or one tool's result.  The     *)
(* results of consecutive tool messages are kept back until a message that is *)
(* neither a tool's nor the system's, or the end.                             *)
(***************************************************************************)
FlushToolResults(acc) ==
  IF acc.results = << >> THEN acc
  ELSE [acc EXCEPT !.messages = Append(@, Message("user", acc.results)), !.results = << >>]

OpenAIBlocks(m) ==
  Filter(<<Block("text", m.text)>> \o [i \in 1..Len(m.calls) |-> Block("toolUse", m.calls[i])], Said)

OpenAIStep(acc, m) ==
  CASE m.role \in {"system", "developer"} ->
         IF m.text = NoText THEN acc ELSE [acc EXCEPT !.system = Append(@, m.text)]
    [] m.role = "tool" -> [acc EXCEPT !.results = Append(@, Block("toolResult", m.id))]
    [] OTHER ->
         LET flushed == FlushToolResults(acc)
         IN IF OpenAIBlocks(m) = << >> THEN flushed
            ELSE [flushed EXCEPT !.messages = Append(@, Message(ProviderRole(m.role), OpenAIBlocks(m)))]

OpenAIToConverse(messages) ==
  LET acc == FlushToolResults(
               FoldLeft(OpenAIStep, [messages |-> << >>, results |-> << >>, system |-> << >>], messages))
  IN [messages |-> acc.messages, system |-> acc.system]

(***************************************************************************)
(* Anthropic: content blocks one for one; images and empty texts are dropped, *)
(* and then messages with nothing left.                                       *)
(***************************************************************************)
AnthropicBlocks(content) ==
  Filter(content, LAMBDA b : b.kind \in {"text", "toolUse", "toolResult"} /\ Said(b))

AnthropicToConverse(messages, system) ==
  LET translated == [i \in 1..Len(messages) |->
                       Message(ProviderRole(messages[i].role), AnthropicBlocks(messages[i].content))]
  IN [messages |-> Filter(translated, LAMBDA m : m.content # << >>),
      system |-> IF system = NoText THEN << >> ELSE <<system>>]

(***************************************************************************)
(* The native chat request: one text a message.                               *)
(***************************************************************************)
ChatToConverse(messages) ==
  [messages |-> [i \in 1..Len(messages) |-> Message(messages[i].role, <<Block("text", messages[i].text)>>)],
   system |-> << >>]

ChatValid(messages) ==
  /\ messages # << >>
  /\ \A i \in 1..Len(messages) : messages[i].role \in {"user", "assistant"} /\ messages[i].text # NoText

\* ConverseRequest.isValid
ConverseValid(messages) ==
  /\ messages # << >>
  /\ \A i \in 1..Len(messages) : messages[i].role \in {"user", "assistant"} /\ messages[i].content # << >>

-----------------------------------------------------------------------------
(***************************************************************************)
(* Mantle: texts of a message gather into one item until a call, a result or  *)
(* the end of the message; a call and a result are items of their own.        *)
(***************************************************************************)
Item(type, role, ids) == [type |-> type, role |-> role, ids |-> ids]

FlushText(role, acc) ==
  IF acc.texts = << >> THEN acc.items ELSE Append(acc.items, Item("message", role, acc.texts))

ResponsesStep(role, acc, b) ==
  CASE b.kind = "text"       -> [acc EXCEPT !.texts = Append(@, b.id)]
    [] b.kind = "toolUse"    -> [items |-> Append(FlushText(role, acc), Item("function_call", NoText, <<b.id>>)),
                                 texts |-> << >>]
    [] b.kind = "toolResult" -> [items |-> Append(FlushText(role, acc), Item("function_call_output", NoText, <<b.id>>)),
                                 texts |-> << >>]

ResponsesItems(m) ==
  FlushText(m.role, FoldLeft(LAMBDA acc, b : ResponsesStep(m.role, acc, b),
                             [items |-> << >>, texts |-> << >>], m.content))

ConverseToResponsesInput(messages) ==
  FlattenSeq([i \in 1..Len(messages) |-> ResponsesItems(messages[i])])

-----------------------------------------------------------------------------
(***************************************************************************)
(* Tools: "none" drops them, otherwise the choice reaches the provider as a   *)
(* mode; an OpenAI choice that cannot be read is no choice.                   *)
(***************************************************************************)
OpenAIChoice == [absent |-> "absent", none |-> "drop", required |-> "any", auto |-> "auto",
                 function |-> "tool", unreadable |-> "absent"]
AnthropicChoice == [absent |-> "absent", none |-> "drop", any |-> "any", auto |-> "auto", tool |-> "tool"]

\* toolConfig.toolChoice of Converse, tool_choice of Responses.
ConverseChoice(mode) == IF mode \in {"any", "tool", "absent", "drop"} THEN mode ELSE "auto"
ResponsesChoice(mode) ==
  CASE mode = "any"    -> "required"
    [] mode = "tool"   -> "function"
    [] mode \in {"absent", "drop"} -> mode
    [] OTHER           -> "auto"

-----------------------------------------------------------------------------
(***************************************************************************)
(* The buffered answer: Mantle's output items as Converse content, and the    *)
(* content as an OpenAI message (all texts, then all calls) or an Anthropic   *)
(* one (in order).                                                            *)
(***************************************************************************)
OfKind(content, kind) == Filter(content, LAMBDA b : b.kind = kind)

\* A function call, the texts of a message, or an item nobody reads.
OutputContent(item) ==
  CASE item.type = "function_call" -> <<Block("toolUse", item.ids[1])>>
    [] item.type = "message" -> Filter([i \in 1..Len(item.ids) |-> Block("text", item.ids[i])], Said)
    [] OTHER -> << >>

ResponsesContent(items) == FlattenSeq([i \in 1..Len(items) |-> OutputContent(items[i])])

ResponsesStopReason(items, status, reason) ==
  CASE status = "incomplete" /\ reason = "max" -> "max_tokens"
    [] \E i \in 1..Len(items) : items[i].type = "function_call" -> "tool_use"
    [] OTHER -> "end_turn"

OpenAIAnswer(content) == OfKind(content, "text") \o OfKind(content, "toolUse")
AnthropicAnswer(content) == Filter(content, LAMBDA b : b.kind \in {"text", "toolUse"} /\ Said(b))

FinishReason(stop) ==
  CASE stop = "tool_use"   -> "tool_calls"
    [] stop = "max_tokens" -> "length"
    [] stop \in {"content_filtered", "guardrail_intervened"} -> "content_filter"
    [] OTHER -> "stop"

AnthropicStop(stop) ==
  CASE stop \in {"tool_use", "max_tokens", "stop_sequence"} -> stop
    [] stop \in {"content_filtered", "guardrail_intervened"} -> "refusal"
    [] OTHER -> "end_turn"
=============================================================================
