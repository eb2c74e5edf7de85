------------------------------ MODULE Replies ------------------------------
(***************************************************************************)
(* A model's replies as its service sends them, as the parser holds them,   *)
(* and as the agent loop hears them; and how the three must agree.          *)
(***************************************************************************)
EXTENDS TurnLimits, Naturals, Sequences

CONSTANTS
  Wires,         \* kinds of provider: anthropic, openai_compat, chatgpt, mock
  MaxTexts,      \* bound: texts of one reply
  MaxCalls       \* bound: tool calls of one reply

VARIABLES
  wire,      \* the kind of the turn's provider
  loop,      \* the agent loop: its round, and what it heard in it
  service,   \* the service's side of the reply (external)
  parse,     \* the parser: buffered calls, usage, whether Done was sent
  queue,     \* events the parser has produced and the loop has not taken
  billed     \* rounds whose usage the service reports (no state of the code)

(* The round after the last one with tools. *)
Forced == loop.round > MaxToolTurns

Stages == {"none", "body", "finished", "usage", "over", "failed", "broken",
           "cut", "cut_failed", "closed"}

RepliesTyped ==
  /\ wire \in Wires
  /\ loop.state \in {"ask", "reading", "ok", "unauthorized", "rate_limited", "internal"}
  /\ loop.round \in 1..(MaxToolTurns + 1)
  /\ loop.usage.in \in Nat /\ loop.usage.out \in Nat
  /\ service.stage \in Stages
  /\ service.texts \in 0..MaxTexts /\ Len(service.calls) <= MaxCalls
  /\ Len(parse.bufs) = Len(service.calls)
  /\ \A n \in DOMAIN parse.bufs : parse.bufs[n].held <= service.calls[n].sent
  /\ \A i \in DOMAIN queue : queue[i].type \in {"text", "tool_use", "done", "error", "err"}
  /\ billed \in 0..(MaxToolTurns + 1)

(* The round that was read last ended as it should: the service had said all,
   and the loop had not withheld the tools. *)
RoundWhole ==
  /\ service.stage = "over"
  /\ (loop.state = "ask" /\ loop.round > 1) \/ (loop.state = "ok" /\ ~Forced)

(* Whatever the service's format and wherever its stream stops, the loop hears
   the texts in order, no call twice, calls in the order of their numbers, and
   each with the arguments that were sent for it, never a part of them ("a
   single well-formed ToolUse, never per-fragment", 04-review-daemon.md:466);
   a whole reply is heard whole. *)
HeardIsSaid ==
  wire # "mock" =>
    /\ Len(loop.texts) <= service.texts
    /\ \A i \in DOMAIN loop.texts : loop.texts[i] = i
    /\ \A i, k \in DOMAIN loop.calls : i < k => loop.calls[i].n < loop.calls[k].n
    /\ \A i \in DOMAIN loop.calls :
         LET c == loop.calls[i]
             said == service.calls[c.n]
         IN  IF said.sent = 0 THEN c.input = "empty"
             ELSE c.input = "whole" /\ said.sent = said.total /\ said.good
    /\ RoundWhole => Len(loop.texts) = service.texts /\ Len(loop.calls) = Len(service.calls)

(* The usage a turn reports is what the service reported in its rounds, once
   each, although it comes apart from the end of the reply and in another
   place in each format ("Token usage is real", 04-review-daemon.md:285). *)
UsageIsReal ==
  wire # "mock" =>
    /\ loop.usage.in <= billed /\ loop.usage.in = loop.usage.out
    /\ loop.state = "ok" /\ service.stage # "cut" => loop.usage.in = billed

(* What the loop hears of a reply, and reports of it, is what the service said
   in it, wherever the stream stopped. *)
RepliesAreTrue == RepliesTyped /\ HeardIsSaid /\ UsageIsReal
=============================================================================
