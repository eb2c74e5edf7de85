------------------------------ MODULE MCRoutes ------------------------------
EXTENDS Routes

CONSTANTS s1, s2

MCSlots == {s1, s2}

Load1(ops) == [o \in Ops |-> IF o \in DOMAIN ops THEN ops[o] ELSE 0]

\* Two posts at once; a pairing beside a post; guesses; turns; a turn and another instance; logins.
MCHistories ==
  {Load1(h) : h \in {[post |-> 3], [post |-> 1, issue |-> 1, pair |-> 1],
                     [issue |-> 1, pair |-> 3], [issue |-> 2, pair |-> 2],
                     [turn |-> 3], [turn |-> 2, login |-> 1], [turn |-> 1, validate |-> 1, post |-> 1],
                     [turn |-> 1, models |-> 1],
                     [login |-> 3]}}

ChatGpt == [Config0 EXCEPT !.provider.kind = "chatgpt"]
MCFiles == {NoFile, File("ok", ChatGpt)}

\* A provider switch, a typo'd kind, caps derived from a window and a cap out of range, and
\* a max_tokens that does not fit its width.
MCBodies ==
  {[provider |-> [kind |-> "anthropic", api_key |-> "k1"]],
   [provider |-> [kind |-> "chatgpt"]],
   [provider |-> [kind |-> "antropic"]],
   [provider |-> [max_tokens |-> 70000]],
   [limits |-> DeriveLimits(2048)],
   [limits |-> DeriveLimits(8000000)],
   [limits |-> [max_tool_turns |-> 0]]}
=============================================================================
