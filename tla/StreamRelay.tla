---------------------------- MODULE StreamRelay ----------------------------
(***************************************************************************)
(* One dispatched call, from the client's conversation to the bytes it gets   *)
(* back and to the outcome that is billed.  A buffered call translates one    *)
(* body each way.  In a streamed one Bedrock's frames are relayed one by one; *)
(* Mantle's Responses events go through an adapter that makes the same frames *)
(* of them.  A step reads one frame or event, or delivers one frame to the    *)
(* sink; a write may fail half-way and the client may leave at any time.      *)
(***************************************************************************)
EXTENDS EventStream, StreamSinks, CompatRequest

CONSTANTS
  MaxBlocks,   \* content blocks the provider sends (bound)
  MaxDeltas,   \* deltas of a block (bound)
  Reported,    \* output tokens a usage report may name
  Extras,      \* header blocks Bedrock may send before the ones the relay reads
  Asks,        \* conversations of a dialect
  Answers      \* buffered answers, as Mantle output items

VARIABLES
  provider,    \* "bedrock" or "mantle"
  dialect, includeUsage,
  body,        \* the request or the buffered answer in the handler's hands
  upstream,    \* where the provider is in its own answer
  adapter,     \* responsesStreamAdapter
  pending,     \* frames made of the last event, still to be delivered
  failed,      \* streamErr of relayBedrockStream, adapter.failed
  streamed,    \* text deltas gathered for an estimate
  output,      \* output tokens
  sink, wire,
  client,      \* "here" or "gone"
  cause,       \* history: why the relay ended, "" while it runs
  result       \* ChatResult, once the relay has ended

choice == <<provider, dialect, includeUsage>>
vars == <<choice, body, upstream, adapter, pending, failed, streamed, output, sink, wire, client, cause, result>>

NoResult == [status |-> 0, cancelled |-> FALSE, output |-> 0]
NoBody == [stage |-> "none"]
Running == cause = ""

\* The provider: not called yet, at the start, between two blocks, in one, past the stop; or it
\* gave up with an exception, or in the middle of a frame.
Upstream == [at : {"idle", "buffered", "start", "between", "text", "tool", "stopped", "over", "aborted", "cut"},
             block : 0..MaxBlocks, deltas : 0..MaxDeltas]

\* index: the block of each function call; lookupTool falls back on last, then 1.
NewAdapter == [started |-> FALSE, next |-> 0, last |-> 0,
               index |-> [b \in 1..MaxBlocks |-> 0], open |-> {}]

Init ==
  /\ provider \in {"bedrock", "mantle"}
  /\ dialect \in Dialects
  /\ includeUsage \in BOOLEAN /\ (includeUsage => dialect = "openai")
  /\ upstream = [at |-> "idle", block |-> 0, deltas |-> 0]
  /\ body = NoBody
  /\ adapter = NewAdapter
  /\ pending = << >> /\ failed = FALSE
  /\ streamed = 0 /\ output = 0
  /\ sink = NewSink /\ wire = << >>
  /\ client = "here" /\ cause = "" /\ result = NoResult

-----------------------------------------------------------------------------
(***************************************************************************)
(* The request and, for a buffered call, the answer.                          *)
(***************************************************************************)
ToConverse(messages) ==
  CASE dialect = "openai"    -> OpenAIToConverse(messages)
    [] dialect = "anthropic" -> AnthropicToConverse(messages, NoText)
    [] dialect = "native"    -> ChatToConverse(messages)

Valid(messages) ==
  IF dialect = "native" THEN ChatValid(messages) ELSE ConverseValid(ToConverse(messages).messages)

relayState == <<adapter, pending, failed, streamed, output, sink, wire>>

TakeRequest ==
  /\ upstream.at = "idle" /\ body = NoBody /\ Running
  /\ \E messages \in Asks[dialect] : body' = [stage |-> "request", messages |-> messages]
  /\ UNCHANGED <<choice, upstream, relayState, client, cause, result>>

\* ErrInvalid: nothing is sent.
RejectRequest ==
  /\ body.stage = "request" /\ ~Valid(body.messages)
  /\ cause' = "invalid" /\ result' = [NoResult EXCEPT !.status = 400]
  /\ body' = NoBody
  /\ UNCHANGED <<choice, upstream, relayState, client>>

\* The provider accepts a stream with a 200.
SendRequest ==
  /\ body.stage = "request" /\ Valid(body.messages)
  /\ body' = NoBody
  /\ \E at \in {"start", "buffered"} : upstream' = [upstream EXCEPT !.at = at]
  /\ UNCHANGED <<choice, relayState, client, cause, result>>

\* A buffered answer, or the error body of a call that was not accepted.
ReceiveAnswer ==
  /\ upstream.at = "buffered" /\ body = NoBody /\ Running
  /\ \E answer \in Answers : body' = [stage |-> "answer", answer |-> answer]
  /\ UNCHANGED <<choice, upstream, relayState, client, cause, result>>

BufferedStatus(answer) ==
  CASE answer.status = "rejected" -> 429
    [] provider = "mantle" /\ answer.status \in {"failed", "cancelled", "garbled"} -> 502
    [] OTHER -> 200

ReturnAnswer ==
  /\ body.stage = "answer"
  /\ cause' = "buffered"
  /\ result' = [status |-> BufferedStatus(body.answer), cancelled |-> FALSE, output |-> body.answer.output]
  /\ body' = NoBody
  /\ UNCHANGED <<choice, upstream, relayState, client>>

\* The call itself fails: no answer, an error, and the hold is released.
CallFails ==
  /\ upstream.at \in {"start", "buffered"} /\ body = NoBody /\ Running /\ wire = << >> /\ pending = << >>
  /\ cause' = "error"
  /\ UNCHANGED <<choice, body, upstream, relayState, client, result>>

-----------------------------------------------------------------------------
\* As if a client that left hid the failure of the provider.
BedrockFailsUnlessGone(why, err) == client = "here" /\ (err \/ why \in {"broken", "writeError"})

(***************************************************************************)
(* The end of a relay.  The tokens streamed stand in for a report that never  *)
(* came; Close writes what it still can.                                      *)
(***************************************************************************)
\* relayBedrockStream
BedrockFails(why, err) == err \/ why \in {"broken", "writeError"}
BedrockCancels(why, err) == ~err /\ why \in {"canceled", "abort"}

\* relayResponsesStream
MantleFails(why, err) == err \/ why \in {"broken", "writeError"}
MantleCancels(why, err) == ~err /\ why \in {"canceled", "abort"}

\* As if only a report counted.
EstimatedNever(tokens, deltas) == tokens

Estimated(tokens, deltas) == IF tokens = 0 THEN deltas ELSE tokens

Ended(why, err, tokens, deltas) ==
  LET streamErr == IF provider = "bedrock" THEN BedrockFails(why, err) ELSE MantleFails(why, err)
      cancelled == IF provider = "bedrock" THEN BedrockCancels(why, err) ELSE MantleCancels(why, err)
  IN [status |-> IF streamErr THEN 502 ELSE 200,
      cancelled |-> cancelled /\ ~streamErr,
      output |-> Estimated(tokens, deltas)]

\* A broken connection takes any number of the events written to it.
Sendings(events, broken) ==
  { SubSeq(events, 1, n) : n \in (IF broken THEN 0..Len(events) ELSE {Len(events)}) }

End(why, err, deltas, snk, before) ==
  /\ cause' = why
  /\ result' = Ended(why, err, output, deltas)
  /\ output' = result'.output
  /\ streamed' = deltas
  /\ failed' = err
  /\ sink' = snk
  /\ \E closing \in Sendings(CloseWrites(dialect, snk), client = "gone" \/ why = "writeError") : wire' = before \o closing
  /\ pending' = << >>

-----------------------------------------------------------------------------
(***************************************************************************)
(* What the provider says next (external).                                    *)
(***************************************************************************)
Says ==
  LET u == upstream
      opens == u.at \in {"start", "between"} /\ u.block < MaxBlocks
      inBlock == u.at \in {"text", "tool"}
  IN (IF u.at = "start" THEN {"messageStart"} ELSE {})
     \cup (IF u.at = "between" /\ opens THEN {"toolStart", "textDelta"} ELSE {})
     \cup (IF inBlock /\ u.deltas < MaxDeltas THEN {IF u.at = "text" THEN "textDelta" ELSE "toolDelta"} ELSE {})
     \cup (IF inBlock THEN {"blockStop"} ELSE {})
     \cup (IF u.at = "between" THEN {"messageStop"} ELSE {})
     \cup (IF u.at = "stopped" THEN {"metadata"} ELSE {})
     \cup (IF u.at \in {"start", "between", "text", "tool", "stopped"} THEN {"exception"} ELSE {})

Advance(said) ==
  LET u == upstream
  IN CASE said = "messageStart" -> [u EXCEPT !.at = "between"]
       [] said = "toolStart"    -> [at |-> "tool", block |-> u.block + 1, deltas |-> 0]
       [] said = "textDelta" /\ u.at = "between" -> [at |-> "text", block |-> u.block + 1, deltas |-> 1]
       [] said \in {"textDelta", "toolDelta"} /\ u.at # "between" -> [u EXCEPT !.deltas = @ + 1]
       [] said = "blockStop"    -> [u EXCEPT !.at = "between"]
       [] said = "messageStop"  -> [u EXCEPT !.at = "stopped"]
       [] said = "metadata"     -> [u EXCEPT !.at = "over"]
       [] said = "exception"    -> [u EXCEPT !.at = "aborted"]

-----------------------------------------------------------------------------
(***************************************************************************)
(* Bedrock: one binary frame, whose headers say what it is.                   *)
(***************************************************************************)
EventType == <<1>>
MessageType == <<2>>
EventNames == <<"messageStart", "toolStart", "textDelta", "toolDelta", "blockStop", "messageStop", "metadata">>
FrameOf == [messageStart |-> "messageStart", toolStart |-> "contentBlockStart", textDelta |-> "textDelta",
            toolDelta |-> "toolDelta", blockStop |-> "contentBlockStop", messageStop |-> "messageStop",
            metadata |-> "metadata"]

\* An exception frame has no :event-type.
HeaderBlock(said, extra) ==
  extra \o (IF said = "exception" THEN EncodeHeader(MessageType, StringType, <<99>>)
            ELSE EncodeHeader(MessageType, StringType, <<98>>)
                   \o EncodeHeader(EventType, StringType, <<CHOOSE i \in DOMAIN EventNames : EventNames[i] = said>>))

HeaderValue(headers, name) == IF name \in DOMAIN headers THEN headers[name] ELSE << >>

IsException(headers) == HeaderValue(headers, MessageType) = <<99>>

FrameKind(headers) ==
  IF IsException(headers) THEN "error"
  ELSE IF HeaderValue(headers, EventType) = << >> THEN "message"
  ELSE FrameOf[EventNames[HeaderValue(headers, EventType)[1]]]

\* In front there may be any well-formed headers, or one of a type that nobody knows.
StartsUnknown(b) == b # << >> /\ TypeAt(b, 1) <= Len(b) /\ b[TypeAt(b, 1)] \notin 0..9
ASSUME HeadersAssumption ==
  \A extra \in Extras : extra \in Seq(Bytes) /\ (ParseHeaders(extra).ok \/ StartsUnknown(extra))

ASSUME RelayAssumption == MaxBlocks \in Nat /\ MaxDeltas \in Nat /\ Reported \subseteq Nat

\* What a client may ask, and what Mantle may answer: a call has one id.
BlockKinds == {"text", "toolUse", "toolResult", "image"}
ASSUME ConversationsAssumption ==
  /\ Asks["openai"] \subseteq Seq([role : STRING, text : STRING, calls : Seq(STRING), id : STRING])
  /\ Asks["anthropic"] \subseteq Seq([role : STRING, content : Seq([kind : BlockKinds, id : STRING])])
  /\ Asks["native"] \subseteq Seq([role : STRING, text : STRING])
  /\ \A answer \in Answers :
       /\ answer.items \in Seq([type : STRING, ids : Seq(STRING)])
       /\ \A i \in 1..Len(answer.items) : answer.items[i].type = "function_call" => Len(answer.items[i].ids) = 1

ReadBedrock ==
  /\ provider = "bedrock" /\ Running /\ pending = << >>
  /\ \E said \in Says, extra \in Extras :
       LET parsed == ParseHeaders(HeaderBlock(said, extra))
           block == IF said \in {"toolStart", "textDelta", "toolDelta", "blockStop"}
                      THEN Advance(said).block - 1 ELSE NoBlock
       IN /\ upstream' = Advance(said)
          /\ IF parsed.ok
               THEN /\ failed' = (failed \/ IsException(parsed.headers))
                    /\ pending' = <<Frame(FrameKind(parsed.headers), block)>>
                    /\ UNCHANGED <<streamed, output, sink, wire, cause, result>>
               ELSE End("broken", failed, streamed, sink, wire)
  /\ UNCHANGED <<choice, body, adapter, client>>

-----------------------------------------------------------------------------
(***************************************************************************)
(* Mantle: one Responses event, and the ConverseStream frames made of it.     *)
(* Text is block 0; each function call gets the next index from 1.            *)
(***************************************************************************)
EnsureStarted(a) == [a EXCEPT !.started = TRUE, !.next = IF a.started THEN @ ELSE 1]
StartFrames(a) == IF a.started THEN << >> ELSE <<Frame("messageStart", NoBlock)>>

LookupTool(a, item) ==
  IF item > 0 /\ a.index[item] > 0 THEN a.index[item]
  ELSE IF a.last > 0 THEN a.last ELSE 1

AddTool(a, item) ==
  LET b == EnsureStarted(a)
      idx == IF b.next = 0 THEN 1 ELSE b.next
  IN [b EXCEPT !.next = idx + 1, !.last = idx, !.index[item] = idx, !.open = @ \cup {idx}]

\* The blocks still open are closed in index order: they are sorted first.
ByIndex(open) ==
  CHOOSE s \in SetToSeqs(open) : \A i, j \in 1..Cardinality(open) : i < j => s[i] < s[j]
CloseFrames(open) == [i \in 1..Cardinality(open) |-> Frame("contentBlockStop", ByIndex(open)[i])]

\* item is 0 when a delta names no known call.
AdapterAfter(a, said, item) ==
  CASE said = "textDelta" -> [EnsureStarted(a) EXCEPT !.open = @ \cup {0}]
    [] said = "toolStart" -> AddTool(a, item)
    [] said = "toolDelta" -> [a EXCEPT !.open = @ \cup {LookupTool(a, item)}]
    [] said = "completed" -> [EnsureStarted(a) EXCEPT !.open = {}]
    [] OTHER              -> a

AdapterFrames(a, said, item) ==
  CASE said = "textDelta" -> StartFrames(a) \o <<Frame("textDelta", 0)>>
    [] said = "toolStart" -> StartFrames(a) \o <<Frame("contentBlockStart", AddTool(a, item).last)>>
    [] said = "toolDelta" -> <<Frame("toolDelta", LookupTool(a, item))>>
    [] said = "completed" -> StartFrames(a) \o CloseFrames(a.open)
                               \o <<Frame("messageStop", NoBlock), Frame("metadata", NoBlock)>>
    [] said = "exception" -> <<Frame("error", NoBlock)>>
    [] OTHER              -> << >>

\* Mantle names the end of its answer once: messageStop and metadata in one event.
MantleSays(said) == IF said = "messageStop" THEN "completed" ELSE said

ReadMantle ==
  /\ provider = "mantle" /\ Running /\ pending = << >>
  /\ \E said \in Says \ {"metadata"} :
       LET u == Advance(said)
       IN \E item \in {0, u.block}, tokens \in Reported :
            /\ said = "toolStart" => item = u.block
            /\ said # "toolDelta" => item = u.block
            /\ upstream' = IF said = "messageStop" THEN [u EXCEPT !.at = "over"] ELSE u
            /\ failed' = (failed \/ said = "exception")
            /\ adapter' = AdapterAfter(adapter, MantleSays(said), item)
            /\ pending' = AdapterFrames(adapter, MantleSays(said), item)
            /\ output' = IF said = "messageStop" THEN tokens ELSE output
  /\ UNCHANGED <<choice, body, streamed, sink, wire, client, cause, result>>

-----------------------------------------------------------------------------
(***************************************************************************)
(* One frame handed to the sink.  A failed write ends the relay; the usage of *)
(* a Bedrock metadata frame is read after it is delivered.                    *)
(***************************************************************************)
Gathered(f) == streamed + (IF f.kind = "textDelta" THEN 1 ELSE 0)

Deliver ==
  /\ Running /\ pending # << >>
  /\ LET f == Head(pending)
     IN /\ wire' = wire \o Writes(dialect, includeUsage, sink, f)
        /\ sink' = SinkAfter(dialect, sink, f)
        /\ streamed' = Gathered(f)
        /\ pending' = Tail(pending)
        /\ IF f.kind = "metadata" /\ provider = "bedrock"
             THEN output' \in Reported
             ELSE UNCHANGED output
  /\ UNCHANGED <<choice, body, upstream, adapter, failed, client, cause, result>>

WriteFails ==
  /\ Running /\ pending # << >>
  /\ LET f == Head(pending)
         events == Writes(dialect, includeUsage, sink, f)
     IN \E why \in {"writeError"} \cup (IF client = "gone" THEN {"abort"} ELSE {}), n \in 0..(Len(events) - 1) :
          End(why, failed, Gathered(f), SinkAfter(dialect, sink, f),
              wire \o SubSeq(events, 1, n))
  /\ UNCHANGED <<choice, body, upstream, adapter, client>>

(***************************************************************************)
(* The read of the next frame fails: the body ends, between two frames or in  *)
(* one; the connection is reset or our timeout fires; the client has hung up. *)
(***************************************************************************)
BodyEnds ==
  /\ Running /\ pending = << >> /\ upstream.at \notin {"idle", "buffered"}
  /\ \E avail \in {0, 5, PreludeLen, PreludeLen + 1} :
       /\ provider = "mantle" => avail = 0
       /\ LET why == ReadFrame([avail |-> avail, total |-> 64, headers |-> 40, preludeOK |-> TRUE, messageOK |-> TRUE])
          IN End(why, failed, streamed, sink, wire)
       /\ upstream' = IF avail = 0 THEN upstream ELSE [upstream EXCEPT !.at = "cut"]
  /\ UNCHANGED <<choice, body, adapter, client>>

ReadFails ==
  /\ Running /\ pending = << >> /\ upstream.at \notin {"idle", "buffered"}
  /\ \E why \in {"broken"} \cup (IF client = "gone" THEN {"canceled"} ELSE {}) :
       End(why, failed, streamed, sink, wire)
  /\ UNCHANGED <<choice, body, upstream, adapter, client>>

\* Before the call is sent a hang-up makes it fail (CallFails).
HangUp ==
  /\ Running /\ client = "here" /\ upstream.at # "idle"
  /\ client' = "gone"
  /\ UNCHANGED <<choice, body, upstream, adapter, pending, failed, streamed, output, sink, wire, cause, result>>

Finished == ~Running /\ UNCHANGED vars

Next ==
  \/ TakeRequest \/ RejectRequest \/ SendRequest \/ ReceiveAnswer \/ ReturnAnswer \/ CallFails
  \/ ReadBedrock \/ ReadMantle \/ Deliver \/ WriteFails \/ BodyEnds \/ ReadFails \/ HangUp \/ Finished

Spec == Init /\ [][Next]_vars

-----------------------------------------------------------------------------
(***************************************************************************)
(* The relay's variables hold values of their types.                          *)
(***************************************************************************)
TypeOK ==
  /\ upstream \in Upstream
  /\ adapter.open \subseteq 0..MaxBlocks /\ adapter.last \in 0..MaxBlocks
  /\ failed \in BOOLEAN
  /\ streamed \in Nat /\ output \in Nat
  /\ client \in {"here", "gone"}
  /\ result.status \in (IF Running \/ cause = "error" THEN {0} ELSE {200, 400, 429, 502})

StreamEnded == ~Running /\ cause \notin {"invalid", "error", "buffered"}

(***************************************************************************)
(* What RecordUsage settles is what happened: a provider that failed, by an   *)
(* exception frame or a broken read, is refunded even when the client left    *)
(* too or an odd header came first, and only a client that left is billed as  *)
(* cancelled ("a provider failure always wins over a later client hang-up").  *)
(***************************************************************************)
OutcomeIsTrue ==
  StreamEnded =>
    /\ upstream.at = "aborted" \/ cause = "broken" => result.status = 502
    /\ result.cancelled => client = "gone" /\ result.status = 200
    /\ result.status = 200 => cause = "eof" \/ client = "gone"
    /\ cause \in {"canceled", "abort"} /\ upstream.at # "aborted" => result.cancelled

Landed(kinds) == \E i \in 1..Len(wire) : wire[i].kind \in kinds

(***************************************************************************)
(* A call that is charged and whose client got some text has output tokens,   *)
(* reported or estimated: whatever cut it off, the text is not free.          *)
(***************************************************************************)
TextIsBilled ==
  result.status = 200 /\ Landed({"text", "textDelta"}) => result.output > 0

(***************************************************************************)
(* What the client reads is a stream of its dialect: content only in a block  *)
(* announced before and not ended yet, each block announced once, the role    *)
(* before everything in an OpenAI stream, and nothing after the end, which is *)
(* there unless the connection broke.                                         *)
(***************************************************************************)
Before(i, kind, block) == \E j \in 1..(i - 1) : wire[j] = Frame(kind, block)
Terminal == [native |-> {}, openai |-> {"DONE"}, anthropic |-> {"message_stop", "error"}]

WireWellFormed ==
  dialect # "native" =>
  /\ \A i \in 1..Len(wire) :
       LET e == wire[i]
           announcement == IF dialect = "openai" THEN "toolCall" ELSE "content_block_start"
       IN /\ e.kind \in {"text", "arguments", "content_block_stop"} /\ e.block # NoBlock =>
               /\ Before(i, announcement, e.block)
               /\ ~Before(i, "content_block_stop", e.block)
          /\ e.kind \in {announcement, "message_stop", "finish", "role"} => ~Before(i, e.kind, e.block)
          /\ dialect = "openai" /\ e.kind \in {"text", "toolCall", "arguments"} => Before(i, "role", NoBlock)
          /\ e.kind \in Terminal[dialect] => i = Len(wire)
  /\ StreamEnded /\ client = "here" /\ cause # "writeError" =>
       wire # << >> /\ Last(wire).kind \in Terminal[dialect]

(***************************************************************************)
(* Nothing of a conversation is lost, doubled or moved on its way through the *)
(* translations, neither asked nor answered, except what the code says it     *)
(* drops; the results of one set of parallel tool calls share a message; and  *)
(* every message is one the provider accepts.                                 *)
(***************************************************************************)
Contents(messages) == FlattenSeq([i \in 1..Len(messages) |-> messages[i].content])
ItemIds(items) == FlattenSeq([i \in 1..Len(items) |-> items[i].ids])
Ids(content) == [i \in 1..Len(content) |-> content[i].id]

\* What the client said, in order: OpenAI's parts of a message, Anthropic's blocks.
AskedIds(messages) ==
  CASE dialect = "openai" ->
         FlattenSeq([i \in 1..Len(messages) |->
           LET m == messages[i]
           IN CASE m.role = "tool" -> <<m.id>>
                [] m.role \in {"system", "developer"} -> << >>
                [] OTHER -> (IF m.text = NoText THEN << >> ELSE <<m.text>>) \o m.calls])
    [] dialect = "anthropic" -> Ids(Filter(Contents(messages), LAMBDA b : b.kind # "image" /\ Said(b)))
    [] dialect = "native" -> [i \in 1..Len(messages) |-> messages[i].text]

\* What the provider said: the texts of its messages, save empty ones, and its calls.
AnsweredIds(items) ==
  FlattenSeq([i \in 1..Len(items) |->
    CASE items[i].type = "function_call" -> items[i].ids
      [] items[i].type = "message" -> Filter(items[i].ids, LAMBDA id : id # NoText)
      [] OTHER -> << >>])

AllResults(m) == \A i \in 1..Len(m.content) : m.content[i].kind = "toolResult"

ConversationKept ==
  /\ body.stage = "request" /\ Valid(body.messages) =>
       LET sent == ToConverse(body.messages).messages
       IN /\ Ids(Contents(sent)) = AskedIds(body.messages)
          /\ ItemIds(ConverseToResponsesInput(sent)) = AskedIds(body.messages)
          /\ ConverseValid(sent)
          /\ dialect = "openai" /\ (\A i \in 1..Len(body.messages) : body.messages[i].role = "tool" \/ OpenAIBlocks(body.messages[i]) # << >>) =>
               \A i \in 1..(Len(sent) - 1) : ~(AllResults(sent[i]) /\ AllResults(sent[i + 1]))
  /\ body.stage = "answer" =>
       LET content == ResponsesContent(body.answer.items)
           said == AnsweredIds(body.answer.items)
       IN /\ Ids(AnthropicAnswer(content)) = said
          /\ ToSet(Ids(OpenAIAnswer(content))) = ToSet(said) /\ Len(OpenAIAnswer(content)) = Len(said)

(***************************************************************************)
(* A body that ends inside a frame is a provider failure: readAWSEventStream- *)
(* Frame "returns io.EOF (unwrapped) only when the stream ends cleanly        *)
(* between frames".                                                           *)
(***************************************************************************)
TruncationRefunded == upstream.at = "cut" => result.status = 502

(***************************************************************************)
(* A caller that hung up pays for what it got: "tokens that already landed    *)
(* should still be billed", the arguments of a tool call too.                 *)
(***************************************************************************)
LandedIsBilled ==
  result.cancelled /\ Landed({"text", "textDelta", "arguments", "toolDelta"}) => result.output > 0
=============================================================================
