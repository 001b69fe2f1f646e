---------------------------- MODULE StreamSinks ----------------------------
(***************************************************************************)
(* The three StreamSinks of a streamed call: what each writes to the client   *)
(* for one ConverseStream frame and on Close.  A frame, like an event on the  *)
(* wire, is a kind and the content block it is about.  A sink's flags change  *)
(* before it writes.                                                          *)
(***************************************************************************)
EXTENDS Integers, Sequences

Dialects == {"native", "openai", "anthropic"}

NoBlock == -1

Frame(kind, block) == [kind |-> kind, block |-> block]

FrameKinds == {"messageStart", "contentBlockStart", "textDelta", "toolDelta",
               "contentBlockStop", "messageStop", "metadata", "error"}

\* opened: blocks announced to the client (toolIndexByBlock, started);
\* greeted: roleSent; over: finished, closed; errored: errored.
NewSink == [opened |-> {}, greeted |-> FALSE, over |-> FALSE, errored |-> FALSE]

-----------------------------------------------------------------------------
(***************************************************************************)
(* OpenAI chat.completion chunks.                                             *)
(***************************************************************************)
WithRole(sink, chunks) ==
  IF sink.greeted THEN chunks ELSE <<Frame("role", NoBlock)>> \o chunks

OpenAIWrites(sink, f, includeUsage) ==
  CASE f.kind = "messageStart"      -> <<Frame("role", NoBlock)>>
    [] f.kind = "contentBlockStart" -> WithRole(sink, <<Frame("toolCall", f.block)>>)
    [] f.kind = "textDelta"         -> WithRole(sink, <<Frame("text", NoBlock)>>)
    [] f.kind = "toolDelta" /\ f.block \in sink.opened
                                    -> WithRole(sink, <<Frame("arguments", f.block)>>)
    [] f.kind = "messageStop"       -> <<Frame("finish", NoBlock)>>
    [] f.kind = "metadata" /\ includeUsage -> <<Frame("usage", NoBlock)>>
    [] OTHER                        -> << >>

OpenAISink(sink, f) ==
  [sink EXCEPT
     !.opened  = IF f.kind = "contentBlockStart" THEN @ \cup {f.block} ELSE @,
     !.greeted = @ \/ f.kind \in {"messageStart", "contentBlockStart", "textDelta"}
                   \/ (f.kind = "toolDelta" /\ f.block \in sink.opened),
     !.over    = @ \/ f.kind = "messageStop"]

\* Close ends the choice with "stop" after a failure too.
OpenAIClose(sink) ==
  (IF sink.over THEN << >> ELSE <<Frame("finish", NoBlock)>>) \o <<Frame("DONE", NoBlock)>>

-----------------------------------------------------------------------------
(***************************************************************************)
(* Anthropic Messages events.                                                 *)
(***************************************************************************)
Finish == <<Frame("message_delta", NoBlock), Frame("message_stop", NoBlock)>>

\* As if every delta opened its block.
LazyStartAgain(sink, block) == <<Frame("content_block_start", block)>>

\* Bedrock announces only tool blocks: a text block is opened by its first delta.
LazyStart(sink, block) ==
  IF block \in sink.opened THEN << >> ELSE <<Frame("content_block_start", block)>>

AnthropicWrites(sink, f) ==
  CASE f.kind = "messageStart"      -> <<Frame("message_start", NoBlock)>>
    [] f.kind = "contentBlockStart" -> <<Frame("content_block_start", f.block)>>
    [] f.kind = "textDelta"         -> LazyStart(sink, f.block) \o <<Frame("text", f.block)>>
    [] f.kind = "toolDelta"         -> <<Frame("arguments", f.block)>>
    [] f.kind = "contentBlockStop" /\ f.block \in sink.opened
                                    -> <<Frame("content_block_stop", f.block)>>
    [] f.kind = "metadata" /\ ~sink.over -> Finish
    [] f.kind = "error"             -> <<Frame("error", NoBlock)>>
    [] OTHER                        -> << >>

AnthropicSink(sink, f) ==
  [sink EXCEPT
     !.opened  = IF f.kind \in {"contentBlockStart", "textDelta"} THEN @ \cup {f.block} ELSE @,
     !.over    = @ \/ f.kind = "metadata",
     !.errored = @ \/ f.kind = "error"]

AnthropicClose(sink) == IF sink.over \/ sink.errored THEN << >> ELSE Finish

-----------------------------------------------------------------------------
\* The native route relays every frame as it is.
Writes(dialect, includeUsage, sink, f) ==
  CASE dialect = "native"    -> <<f>>
    [] dialect = "openai"    -> OpenAIWrites(sink, f, includeUsage)
    [] dialect = "anthropic" -> AnthropicWrites(sink, f)

SinkAfter(dialect, sink, f) ==
  CASE dialect = "native"    -> sink
    [] dialect = "openai"    -> OpenAISink(sink, f)
    [] dialect = "anthropic" -> AnthropicSink(sink, f)

CloseWrites(dialect, sink) ==
  CASE dialect = "native"    -> << >>
    [] dialect = "openai"    -> OpenAIClose(sink)
    [] dialect = "anthropic" -> AnthropicClose(sink)
=============================================================================
