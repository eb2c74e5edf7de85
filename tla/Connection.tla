------------------------------ MODULE Connection ------------------------------
(***************************************************************************)
(* A connection to the code daemon as its client sees it (mcp/server.rs):  *)
(* the lines it has sent and the answers it was written, each with the     *)
(* place of the line it answers; and what the daemon promises of them.     *)
(***************************************************************************)
EXTENDS Naturals, Sequences

VARIABLES
  input,       \* the lines of the history
  sent         \* answers written, in order

Method(i)     == input[i].method
IsTool(i, tool) ==
  input[i].form = "request" /\ Method(i) = "tools/call" /\ input[i].tool = tool
WantsReply(i) == input[i].form = "request" /\ input[i].id

Places == {sent[k].to : k \in DOMAIN sent}

\* A request is answered at most once and a notification never, and nothing read after a
\* handshake is answered before it (server.rs:7-9, 112-114).
AnsweredOnce ==
  /\ \A k, l \in DOMAIN sent : sent[k].to = sent[l].to => k = l
  /\ \A k \in DOMAIN sent : input[sent[k].to].form = "garbage" \/ WantsReply(sent[k].to)
  /\ \A i \in DOMAIN input, l \in DOMAIN sent :
       i < sent[l].to /\ WantsReply(i) /\ Method(i) = "initialize" => i \in Places
=============================================================================
