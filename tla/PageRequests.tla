----------------------------- MODULE PageRequests -----------------------------
(***************************************************************************)
(* What the settings page (/config, server/routes.rs) asks of the daemon,  *)
(* beside what the daemon has stored; and what neither may ever hold.      *)
(***************************************************************************)
EXTENDS Naturals, Sequences

CONSTANT Typed  \* a cap the reviewer types

VARIABLES
  requests,     \* under way: [what, arg, st, ans]
  stored        \* the daemon's configuration

Sent(what) == {requests[k].arg : k \in {j \in DOMAIN requests : requests[j].what = what}}
OwnEndpoint(provider) == provider.endpoint \in {"", provider.kind}

\* Whatever order answers and clicks come in, one provider is never pointed at the endpoint of
\* another, neither in a list of models asked for nor in what is saved (routes.rs:1258-1261).
EndpointOfKind ==
  /\ \A body \in Sent("models") : OwnEndpoint(body)
  /\ \A body \in Sent("save") : OwnEndpoint(body.provider)
  /\ OwnEndpoint(stored.provider)

\* The daemon refuses nothing the page filled in by itself: only a cap the reviewer typed.  The
\* ranges and the formulas are written in two files (config.rs:342, routes.rs:530).
SuggestionsFit ==
  \A k \in DOMAIN requests :
    requests[k].what = "save" /\ requests[k].st = "refused"
      => requests[k].arg.limits.max_tool_result_chars = Typed
=============================================================================
