---------------------------- MODULE ReviewConfig ----------------------------
(***************************************************************************)
(* The pure part of the review daemon's configuration: what review.toml    *)
(* holds, how a request patches it, which configurations make a provider,  *)
(* and the caps derived from a context window (config.rs, the patch        *)
(* functions of server/routes.rs, provider/mod.rs).                        *)
(*                                                                         *)
(* Abstractions.  A patch is a function on the fields the body names; the  *)
(* fields no handler reads back (paths, code daemon, mock, instructions)   *)
(* are left out.  Temperature is left out: it is a float nothing decides   *)
(* on.  An encrypted key is the key.  Derived caps are computed exactly,   *)
(* where the code rounds an f64.                                           *)
(***************************************************************************)
EXTENDS Naturals, Sequences

CONSTANT Width      \* bits of provider.max_tokens: 32 in the code

ASSUME WidthAssumption == Width \in Nat \ {0}

-----------------------------------------------------------------------------
(* The configuration. *)

DefaultProvider ==
  [kind |-> "mock", api_key |-> "", model |-> "mock-model", max_tokens |-> 8192, endpoint |-> ""]

DefaultLimits ==
  [max_tool_turns |-> 25, max_history_messages |-> 30, session_idle_evict_days |-> 90,
   max_tool_result_chars |-> 20000, max_turn_tool_chars |-> 120000,
   replay_full_turns |-> 2, replay_max_full_turns |-> 5,
   replay_result_chars |-> 20000, replay_turn_chars |-> 40000]

Config0 == [provider |-> DefaultProvider, limits |-> DefaultLimits, origin |-> ""]

File(st, cfg) == [st |-> st, cfg |-> cfg]
NoFile == File("missing", Config0)
Torn   == File("torn", Config0)

\* Config::load: no file is the default configuration; a file cut short does not parse.
Loads(file) == file.st # "torn"
Load(file)  == file.cfg

-----------------------------------------------------------------------------
(* Patches: the `provider` and `limits` objects of a request body. *)

Has(body, part) == part \in DOMAIN body

\* `max_tokens` is cut to its width; an empty api_key clears the stored one.
ApplyProviderPatch(cfg, body) ==
  LET Patched(f) == IF f = "max_tokens" THEN body.provider[f] % 2 ^ Width ELSE body.provider[f]
  IN  IF Has(body, "provider")
      THEN [cfg EXCEPT !.provider = [f \in DOMAIN cfg.provider |->
              IF f \in DOMAIN body.provider THEN Patched(f) ELSE cfg.provider[f]]]
      ELSE cfg

\* From lo to hi: an operator, because tlapm lists the numbers of a range it can see.
Within(lo, hi) == lo .. hi

LimitRange ==
  [max_tool_turns |-> Within(1, 100), max_history_messages |-> Within(1, 200),
   session_idle_evict_days |-> Within(1, 3650), max_tool_result_chars |-> Within(1000, 1000000),
   max_turn_tool_chars |-> Within(1000, 4000000), replay_full_turns |-> Within(0, 50),
   replay_max_full_turns |-> Within(0, 50), replay_result_chars |-> Within(0, 1000000),
   replay_turn_chars |-> Within(0, 4000000)]

LimitsFit(body) ==
  Has(body, "limits") =>
    \A f \in DOMAIN body.limits \cap DOMAIN LimitRange : body.limits[f] \in LimitRange[f]

ApplyLimitsPatch(cfg, body) ==
  IF Has(body, "limits")
  THEN [cfg EXCEPT !.limits = [f \in DOMAIN cfg.limits |->
          IF f \in DOMAIN body.limits THEN body.limits[f] ELSE cfg.limits[f]]]
  ELSE cfg

Candidate(cfg, body) == ApplyLimitsPatch(ApplyProviderPatch(cfg, body), body)

\* GET /v1/config: the key is never shown.
GetConfig(cfg) ==
  [provider |-> [f \in DOMAIN cfg.provider \ {"api_key"} |-> cfg.provider[f]], limits |-> cfg.limits]

-----------------------------------------------------------------------------
(* Providers. *)

MockCapabilities      == [api_key |-> FALSE, endpoint |-> FALSE]
AnthropicCapabilities == [api_key |-> TRUE,  endpoint |-> TRUE]
OpenAICapabilities    == [api_key |-> TRUE,  endpoint |-> TRUE]
ChatGptCapabilities   == [api_key |-> FALSE, endpoint |-> TRUE]

ProviderCapabilities ==
  [mock |-> MockCapabilities, anthropic |-> AnthropicCapabilities,
   openai_compat |-> OpenAICapabilities, chatgpt |-> ChatGptCapabilities]

Kinds == DOMAIN ProviderCapabilities

\* stored_or_env_key: the stored key wins, the environment's is the fallback.
ResolveApiKey(cfg, env) == IF cfg.provider.api_key # "" THEN cfg.provider.api_key ELSE env[cfg.provider.kind]

Builds(cfg) == cfg.provider.kind \in Kinds
BuildProvider(cfg, env) ==
  [cfg |-> cfg.provider,
   key |-> IF ProviderCapabilities[cfg.provider.kind].api_key THEN ResolveApiKey(cfg, env) ELSE ""]

-----------------------------------------------------------------------------
(* Model lists: what list_models makes of the service's catalogue, a       *)
(* sequence of [id, context, output] with 0 for what is not stated.        *)

Model(id, context, output) == [id |-> id, context |-> context, output |-> output]

MockModels(catalogue)      == <<Model("mock-fast", 0, 0), Model("mock-smart", 0, 0)>>
AnthropicModels(catalogue) == [i \in DOMAIN catalogue |-> Model(catalogue[i].id, 0, 0)]
OpenAIModels(catalogue)    == catalogue
ChatGptModels(catalogue)   == [i \in DOMAIN catalogue |-> [catalogue[i] EXCEPT !.output = 0]]

ListModels(kind, catalogue) ==
  CASE kind = "mock"          -> MockModels(catalogue)
    [] kind = "anthropic"     -> AnthropicModels(catalogue)
    [] kind = "openai_compat" -> OpenAIModels(catalogue)
    [] kind = "chatgpt"       -> ChatGptModels(catalogue)

\* An empty list from the ChatGPT backend is an error, not a list.
ListsModels(kind, catalogue) == kind = "chatgpt" => catalogue # <<>>

-----------------------------------------------------------------------------
(* Caps for a context window: 3.5 characters a token, fractions and floors. *)

AtLeast(a, b) == IF a > b THEN a ELSE b
AtMost(a, b)  == IF a < b THEN a ELSE b

SuggestedMaxTokens(context, cap) ==
  LET want  == AtMost(AtLeast((context * 2) \div 25, 8192), 32768)
      half  == AtMost(want, AtLeast(context \div 2, 1))
  IN  AtLeast(IF cap > 0 THEN AtMost(half, cap) ELSE half, 1)

\* Mutant: no floors.
DeriveUnfloored(context) ==
  [max_tool_result_chars |-> (context * 7) \div 100, max_turn_tool_chars |-> (context * 91) \div 200,
   replay_result_chars |-> (context * 7) \div 100, replay_turn_chars |-> (context * 63) \div 400]
DeriveLimits(context) ==
  [max_tool_result_chars |-> AtLeast((context * 7) \div 100, 4000),
   max_turn_tool_chars   |-> AtLeast((context * 91) \div 200, 20000),
   replay_result_chars   |-> AtLeast((context * 7) \div 100, 4000),
   replay_turn_chars     |-> AtLeast((context * 63) \div 400, 8000)]
=============================================================================
