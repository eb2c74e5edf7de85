--------------------------- MODULE ProviderStream ---------------------------
(***************************************************************************)
(* What the agent loop hears of a model (crate libre-cr-review, provider/).  *)
(*                                                                         *)
(* A turn asks its provider for a reply at most MaxToolTurns times with      *)
(* tools and once without them (agent/loop_.rs).  Each time the provider     *)
(* converts the conversation into the format of its service (build_body) and *)
(* turns the events of the answer into StreamEvents.  The three services cut *)
(* a reply differently, and each can stop in the middle, break, or report an  *)
(* error in the middle.  A text is one piece, a tool call is announced, then  *)
(* its arguments arrive in pieces that parse as JSON only when all are there. *)
(***************************************************************************)
EXTENDS Requests

CONSTANTS
  Scripts,       \* what a mock provider may be given to play
  MaxPieces      \* bound: pieces of the arguments of a call

ASSUME StreamBounds == {MaxToolTurns, MaxTexts, MaxCalls, MaxPieces} \subseteq Nat

ASSUME WireNames == Wires \subseteq {"anthropic", "openai_compat", "chatgpt", "mock"}

VARIABLE script  \* MockProvider.queue

vars == <<wire, loop, messages, body, service, parse, queue, script, billed>>

-----------------------------------------------------------------------------
(* StreamEvents.  A call is identified by its number in the reply: the index of
   its block or its call, or the rank of its item id for ChatGPT, which keeps a
   reply's calls by item id and hands all of them on at its end.  Until then they
   do not touch each other, so that they may be announced in this order. *)

Text(n) == [type |-> "text", n |-> n]
Done(in, out) == [type |-> "done", input_tokens |-> in, output_tokens |-> out]
ErrorEvent == [type |-> "error"]   \* the service's own words
ParseError == [type |-> "err"]     \* Err(..): broken transport, data or arguments

(* What a mock provider plays are StreamEvents. *)
Scripted ==
  [type : {"text"}, n : Nat] \cup [type : {"tool_use"}, n : Nat, input : {"empty", "whole"}]
    \cup [type : {"done"}, input_tokens : Nat, output_tokens : Nat] \cup {ErrorEvent}

ASSUME ScriptsAssumption == \A s \in Scripts : s \in Seq(Scripted)

Calls == {c \in [total : 0..MaxPieces, good : BOOLEAN] : c.total = 0 => c.good}

(* Mutant of ToolUse: pieces are parsed as they come. *)
ToolUsePiecewise(n, call, held) ==
  IF held = 0 THEN [type |-> "tool_use", n |-> n, input |-> "empty"]
  ELSE [type |-> "tool_use", n |-> n, input |-> "whole"]

(* The buffered arguments of a call: none stand for {}; a part of an object
   does not parse. *)
ToolUse(n, call, held) ==
  IF held = 0 THEN [type |-> "tool_use", n |-> n, input |-> "empty"]
  ELSE IF held = call.total /\ call.good THEN [type |-> "tool_use", n |-> n, input |-> "whole"]
  ELSE ParseError

NewParse == [bufs |-> <<>>, in |-> 0, out |-> 0, done_sent |-> FALSE]

(* bufs[n]: how many pieces of call n are held, whether its name is known, and
   whether it still is in the table. *)
Buffered(p) == {n \in DOMAIN p.bufs : p.bufs[n].open}

Emptied(p) == [p EXCEPT !.bufs = [n \in DOMAIN @ |-> [@[n] EXCEPT !.open = FALSE]]]

(* A set of numbers, in order. *)
Ordered(S) ==
  CHOOSE f \in [1..Cardinality(S) -> S] : \A i, k \in DOMAIN f : i < k => f[i] < f[k]

(* Every buffered call in order; a ChatGPT call without a name is skipped. *)
Flushed(p) ==
  LET ns == Ordered({n \in Buffered(p) : wire = "chatgpt" => p.bufs[n].named})
  IN  [i \in DOMAIN ns |-> ToolUse(ns[i], service.calls[ns[i]], p.bufs[ns[i]].held)]

(* emit_done: once. *)
FinalDone(p) == IF p.done_sent THEN <<>> ELSE <<Done(p.in, p.out)>>

-----------------------------------------------------------------------------
(* The conversation and its three forms. *)

(* Before the first round: the system prompt, an old answer, the question. *)
Opening ==
  <<[role |-> "system", content |-> <<Piece("text", 0, 0)>>],
    [role |-> "assistant", content |-> <<Piece("text", 0, 1)>>],
    [role |-> "user", content |-> <<Piece("text", 0, 2)>>]>>

(* make_assistant_message, make_user_tool_results *)
Assistant(r, t) ==
  [role |-> "assistant",
   content |-> (IF t.texts = <<>> THEN <<>> ELSE <<Piece("text", r, 0)>>)
               \o [i \in DOMAIN t.calls |-> Piece("use", r, t.calls[i].n)]]
ToolResults(r, t) ==
  [role |-> "user", content |-> [i \in DOMAIN t.calls |-> Piece("result", r, t.calls[i].n)]]

NoMoreTools == [role |-> "user", content |-> <<Piece("text", 0, 3)>>]

IsResult(c) == c.kind = "result"

(* Anthropic: system apart, every other message as it is. *)
AnthropicBody(ms) == Spoken(ms)

ResultsIn(content) ==
  FlattenSeq([k \in DOMAIN content |-> IF IsResult(content[k]) THEN <<content[k]>> ELSE <<>>])

(* Mutant of OpenAiBody: one message for all results, with the first id. *)
OpenAiBodyOneResult(ms) ==
  FlattenSeq([i \in DOMAIN ms |->
    IF ResultsIn(ms[i].content) # <<>> THEN <<Head(ResultsIn(ms[i].content))>>
    ELSE ms[i].content])

(* OpenAI: a message that holds results becomes one message per result, and
   its texts are left out; any other keeps its text and its calls. *)
OpenAiBody(ms) ==
  FlattenSeq([i \in DOMAIN ms |->
    IF ResultsIn(ms[i].content) # <<>> THEN ResultsIn(ms[i].content) ELSE ms[i].content])

(* ChatGPT: instructions apart, every block an item of its own. *)
ChatGptBody(ms) == Spoken(ms)

Body(ms) ==
  CASE wire = "anthropic" -> AnthropicBody(ms)
    [] wire = "openai_compat" -> OpenAiBody(ms)
    [] wire = "chatgpt" -> ChatGptBody(ms)
    [] wire = "mock" -> <<>>

-----------------------------------------------------------------------------
NoReply == [stage |-> "none", texts |-> 0, calls |-> <<>>]

Init ==
  /\ wire \in Wires
  /\ loop = [state |-> "ask", round |-> 1, texts |-> <<>>, calls |-> <<>>,
             usage |-> [in |-> 0, out |-> 0]]
  /\ messages = Opening
  /\ body = <<>>
  /\ service = NoReply
  /\ parse = NewParse
  /\ queue = <<>>
  /\ script \in [play : Scripts, at : {0}]
  /\ billed = 0

End(s) == [loop EXCEPT !.state = s]

(* MockProvider::stream: the events up to and including the next terminator;
   a spent script is played again. *)
Burst ==
  LET at == IF script.at = Len(script.play) THEN 0 ELSE script.at
      rest == SubSeq(script.play, at + 1, Len(script.play))
      ends == {i \in DOMAIN rest : rest[i].type \in {"done", "error"}}
      len == IF ends = {} THEN Len(rest) ELSE CHOOSE i \in ends : \A k \in ends : i <= k
  IN  [events |-> SubSeq(rest, 1, len), at |-> at + len]

(* The request leaves with the conversation as its body. *)
Ask(outcome) ==
  /\ loop.state = "ask"
  /\ body' = Body(messages)
  /\ loop' = [loop EXCEPT !.state = outcome, !.texts = <<>>, !.calls = <<>>]
  /\ parse' = NewParse
  /\ UNCHANGED <<wire, messages, billed>>

(* What a status other than 200 means to the loop. *)
HttpError(status) ==
  CASE status = 401 -> "unauthorized" [] status = 429 -> "rate_limited" [] OTHER -> "internal"

Statuses == {200, 401, 429, 500}

Answered(status) ==
  /\ Ask(IF status = 200 THEN "reading" ELSE HttpError(status))
  /\ service' = [NoReply EXCEPT !.stage = IF status = 200 THEN "body" ELSE "none"]
  /\ queue' = <<>>
  /\ UNCHANGED script

AnthropicStream(status) == wire = "anthropic" /\ Answered(status)

OpenAiStream(status) == wire = "openai_compat" /\ Answered(status)

(* ChatGPT needs an access token first; without one the user is signed out. *)
ChatGptStream(signed_in, status) ==
  wire = "chatgpt" /\ Answered(IF signed_in THEN status ELSE 401)

MockStream ==
  /\ wire = "mock"
  /\ Ask("reading")
  /\ service' = [NoReply EXCEPT !.stage = "closed"]
  /\ queue' = Burst.events
  /\ script' = [script EXCEPT !.at = Burst.at]

-----------------------------------------------------------------------------
(* The parsers.  The loop polls: the next event of the service is parsed when
   nothing is queued. *)

Polled == loop.state = "reading" /\ queue = <<>>

Parsed(p, out) ==
  /\ Polled
  /\ parse' = p
  /\ queue' = out
  /\ UNCHANGED <<wire, loop, messages, body, script>>

(* Calls of which the service still owes a piece or an end. *)
Owed == {n \in DOMAIN service.calls : ~service.calls[n].over}

Talking == service.stage \in {"body", "finished", "usage"}

MoreText ==
  /\ service.stage = "body" /\ service.texts < MaxTexts
  /\ service' = [service EXCEPT !.texts = @ + 1]
  /\ UNCHANGED billed

MoreCalls(call) ==
  /\ service.stage = "body" /\ Len(service.calls) < MaxCalls
  /\ service' = [service EXCEPT !.calls =
                   Append(@, [total |-> call.total, good |-> call.good, sent |-> 0, over |-> FALSE])]
  /\ UNCHANGED billed

MorePieces(n) ==
  /\ service.stage = "body" /\ n \in Owed
  /\ service.calls[n].sent < service.calls[n].total
  /\ service' = [service EXCEPT !.calls[n].sent = @ + 1]
  /\ UNCHANGED billed

(* A reply that reaches its limit of tokens ends inside its arguments. *)
CallOver(n) ==
  /\ service.stage = "body" /\ n \in Owed
  /\ service' = [service EXCEPT !.calls[n].over = TRUE]
  /\ UNCHANGED billed

NewBuffer(named) == [parse EXCEPT !.bufs = Append(@, [held |-> 0, named |-> named, open |-> TRUE])]
Longer(n) == [parse EXCEPT !.bufs[n].held = @ + 1]

(* Anthropic: blocks come one after another; content_block_stop hands a call
   over. *)
BlockTextDelta ==
  wire = "anthropic" /\ Owed = {} /\ MoreText /\ Parsed(parse, <<Text(service.texts + 1)>>)

ContentBlockStart(call) ==
  wire = "anthropic" /\ Owed = {} /\ MoreCalls(call) /\ Parsed(NewBuffer(TRUE), <<>>)

InputJsonDelta(n) ==
  wire = "anthropic" /\ MorePieces(n) /\ Parsed(Longer(n), <<>>)

ContentBlockStop(n) ==
  /\ wire = "anthropic" /\ CallOver(n)
  /\ Parsed([parse EXCEPT !.bufs[n].open = FALSE],
            <<ToolUse(n, service.calls[n], parse.bufs[n].held)>>)

(* message_start and message_delta, taken together: usage. *)
MessageDelta ==
  /\ wire = "anthropic" /\ service.stage = "body" /\ Owed = {}
  /\ service' = [service EXCEPT !.stage = "usage"]
  /\ Parsed([parse EXCEPT !.in = 1, !.out = @ + 1], <<>>)
  /\ billed' = billed + 1

MessageStop ==
  /\ wire = "anthropic" /\ service.stage = "usage"
  /\ service' = [service EXCEPT !.stage = "over"]
  /\ Parsed(parse, <<Done(parse.in, parse.out)>>)
  /\ UNCHANGED billed

(* OpenAI: chunks of any call, until a finish_reason flushes them all. *)
ContentChunk ==
  wire = "openai_compat" /\ MoreText /\ Parsed(parse, <<Text(service.texts + 1)>>)

FirstToolCallChunk(call) ==
  wire = "openai_compat" /\ MoreCalls(call) /\ Parsed(NewBuffer(TRUE), <<>>)

ToolCallChunk(n) ==
  wire = "openai_compat" /\ MorePieces(n) /\ Parsed(Longer(n), <<>>)

(* OpenAI: a chunk with a finish_reason flushes the calls; Done waits. *)
FinishReason ==
  /\ wire = "openai_compat" /\ service.stage = "body"
  /\ service' = [service EXCEPT !.stage = "finished"]
  /\ Parsed(Emptied(parse), Flushed(parse))
  /\ billed' = billed + 1

(* The chunk without choices that follows the finish_reason. *)
UsageChunk ==
  /\ wire = "openai_compat" /\ service.stage = "finished"
  /\ service' = [service EXCEPT !.stage = "usage"]
  /\ Parsed([parse EXCEPT !.in = 1, !.out = 1], <<>>)
  /\ UNCHANGED billed

(* [DONE] *)
DoneSentinel ==
  /\ wire = "openai_compat" /\ service.stage = "usage"
  /\ service' = [service EXCEPT !.stage = "over"]
  /\ Parsed([Emptied(parse) EXCEPT !.done_sent = TRUE], Flushed(parse) \o FinalDone(parse))
  /\ UNCHANGED billed

(* ChatGPT: items of any call; the end of an item repeats its arguments, and
   names it if it was not announced; the end of the response flushes them. *)
OutputTextDelta ==
  wire = "chatgpt" /\ MoreText /\ Parsed(parse, <<Text(service.texts + 1)>>)

OutputItemAdded(call) ==
  wire = "chatgpt" /\ MoreCalls(call) /\ Parsed(NewBuffer(TRUE), <<>>)

FirstArgumentsDelta(call) ==
  /\ wire = "chatgpt" /\ MoreCalls(call)
  /\ Parsed(NewBuffer(FALSE), <<>>)

FunctionCallArgumentsDelta(n) ==
  wire = "chatgpt" /\ MorePieces(n) /\ Parsed(Longer(n), <<>>)

OutputItemDone(n) ==
  /\ wire = "chatgpt" /\ CallOver(n)
  /\ Parsed([parse EXCEPT !.bufs[n] = [@ EXCEPT !.held = service.calls[n].sent, !.named = TRUE]],
            <<>>)

(* response.completed and response.incomplete *)
ResponseCompleted ==
  /\ wire = "chatgpt" /\ service.stage = "body" /\ Owed = {}
  /\ service' = [service EXCEPT !.stage = "over"]
  /\ LET p == [parse EXCEPT !.in = 1, !.out = 1]
     IN  Parsed([Emptied(p) EXCEPT !.done_sent = TRUE], Flushed(p) \o FinalDone(p))
  /\ billed' = billed + 1

(* OpenAI's usage is due after the finish_reason, and lost if the stream stops
   between the two. *)
Unreported == billed' = IF service.stage = "finished" THEN billed - 1 ELSE billed

(* An error in the middle of a reply.  OpenAI's parser finds no choices in
   the chunk and returns. *)
Fails(out) ==
  /\ Talking
  /\ service' = [service EXCEPT !.stage = "failed"]
  /\ Parsed(parse, out)
  /\ Unreported

ErrorFrame == wire = "anthropic" /\ Fails(<<ErrorEvent>>)

ErrorChunk == wire = "openai_compat" /\ Fails(<<>>)

ResponseFailed == wire = "chatgpt" /\ Fails(<<ErrorEvent>>)

(* The transport breaks, or data does not parse. *)
Broken ==
  /\ Talking
  /\ service' = [service EXCEPT !.stage = "broken"]
  /\ Parsed(parse, <<ParseError>>)
  /\ Unreported

(* The stream ends, where it should or before: what is buffered is flushed,
   and two of the parsers send Done. *)
Cut ==
  /\ Talking \/ service.stage = "failed"
  /\ service' = [service EXCEPT !.stage = IF @ = "failed" THEN "cut_failed" ELSE "cut"]
  /\ Unreported

AnthropicEof == wire = "anthropic" /\ Cut /\ Parsed(Emptied(parse), Flushed(parse))

OpenAiEof ==
  /\ wire = "openai_compat" /\ Cut
  /\ Parsed([Emptied(parse) EXCEPT !.done_sent = TRUE], Flushed(parse) \o FinalDone(parse))

ResponsesEof ==
  /\ wire = "chatgpt" /\ Cut
  /\ Parsed([Emptied(parse) EXCEPT !.done_sent = TRUE], Flushed(parse) \o FinalDone(parse))

-----------------------------------------------------------------------------
(* The loop takes what was parsed. *)

Taken(t) ==
  /\ loop.state = "reading" /\ queue # <<>>
  /\ queue' = Tail(queue)
  /\ loop' = t
  /\ UNCHANGED <<wire, body, service, parse, script, billed>>

TakeText ==
  /\ queue # <<>> /\ Head(queue).type = "text"
  /\ Taken([loop EXCEPT !.texts = Append(@, Head(queue).n)])
  /\ UNCHANGED messages

(* The last round was given no tools and takes no calls. *)
TakeToolUse ==
  /\ queue # <<>> /\ Head(queue).type = "tool_use"
  /\ Taken(IF Forced THEN loop ELSE [loop EXCEPT !.calls = Append(@, Head(queue))])
  /\ UNCHANGED messages

(* A reply without calls is the answer; else the calls are dispatched, all of
   them answered, and the model is asked again. *)
TakeDone ==
  /\ queue # <<>> /\ Head(queue).type = "done"
  /\ LET t == [loop EXCEPT !.usage = [in |-> @.in + Head(queue).input_tokens,
                                      out |-> @.out + Head(queue).output_tokens]]
     IN  IF Forced \/ loop.calls = <<>>
         THEN Taken([t EXCEPT !.state = "ok"]) /\ UNCHANGED messages
         ELSE /\ Taken([t EXCEPT !.state = "ask", !.round = @ + 1])
              /\ messages' = messages \o <<Assistant(loop.round, loop), ToolResults(loop.round, loop)>>
                   \o (IF loop.round = MaxToolTurns THEN <<NoMoreTools>> ELSE <<>>)

TakeError ==
  /\ queue # <<>> /\ Head(queue).type \in {"error", "err"}
  /\ Taken(End("internal"))
  /\ UNCHANGED messages

(* The stream gives no more: a round needs its Done, the last one does not. *)
Exhausted ==
  /\ Polled /\ service.stage \in {"cut", "cut_failed", "closed"}
  /\ loop' = End(IF Forced THEN "ok" ELSE "internal")
  /\ UNCHANGED <<wire, messages, body, service, parse, queue, script, billed>>

Ended == loop.state \notin {"ask", "reading"}

Anthropic ==
  \/ \E status \in Statuses : AnthropicStream(status)
  \/ \E call \in Calls : ContentBlockStart(call)
  \/ \E n \in DOMAIN service.calls : InputJsonDelta(n) \/ ContentBlockStop(n)
  \/ BlockTextDelta \/ MessageDelta \/ MessageStop \/ ErrorFrame \/ AnthropicEof

OpenAi ==
  \/ \E status \in Statuses : OpenAiStream(status)
  \/ \E call \in Calls : FirstToolCallChunk(call)
  \/ \E n \in DOMAIN service.calls : ToolCallChunk(n)
  \/ ContentChunk \/ FinishReason \/ UsageChunk \/ DoneSentinel \/ ErrorChunk \/ OpenAiEof

ChatGpt ==
  \/ \E signed_in \in BOOLEAN, status \in Statuses : ChatGptStream(signed_in, status)
  \/ \E call \in Calls : OutputItemAdded(call) \/ FirstArgumentsDelta(call)
  \/ \E n \in DOMAIN service.calls : FunctionCallArgumentsDelta(n) \/ OutputItemDone(n)
  \/ OutputTextDelta \/ ResponseCompleted \/ ResponseFailed \/ ResponsesEof

Next ==
  \/ Anthropic \/ OpenAi \/ ChatGpt \/ MockStream \/ Broken
  \/ TakeText \/ TakeToolUse \/ TakeDone \/ TakeError \/ Exhausted
  \/ Ended /\ UNCHANGED vars

Spec == Init /\ [][Next]_vars
=============================================================================
