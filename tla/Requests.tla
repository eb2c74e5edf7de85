------------------------------ MODULE Requests ------------------------------
(***************************************************************************)
(* A model is asked with the whole conversation: what is in it, what of it   *)
(* a service is sent, and how the two must agree.  A conversation is made of *)
(* pieces: texts, tool calls and their results.                              *)
(***************************************************************************)
EXTENDS Replies, SequencesExt

VARIABLES
  messages,  \* the conversation the loop asks with: [role, content]
  body       \* what the service was sent, as a sequence of pieces

Piece(kind, r, n) == [kind |-> kind, round |-> r, n |-> n]

(* What is said in a conversation, beside the system prompt. *)
Spoken(ms) ==
  FlattenSeq([i \in DOMAIN ms |-> IF ms[i].role = "system" THEN <<>> ELSE ms[i].content])

Before(c, d) == \E i, k \in DOMAIN body : i < k /\ body[i] = c /\ body[k] = d

(* Whatever its format, a request holds every text and every call of the
   conversation, in order, behind the system prompt where that is a message
   like others, and each call's result once and after it: services refuse a
   call without a result, and a result without its call. *)
RequestIsWhole ==
  wire # "mock" /\ loop.state = "reading" =>
    /\ body = (IF wire = "openai_compat" THEN <<Piece("text", 0, 0)>> ELSE <<>>) \o Spoken(messages)
    /\ \A r \in 1..MaxToolTurns, n \in 1..MaxCalls :
         Piece("use", r, n) \in ToSet(body) \/ Piece("result", r, n) \in ToSet(body)
           => Before(Piece("use", r, n), Piece("result", r, n))
=============================================================================
