----------------------------- MODULE ConfigPage -----------------------------
(***************************************************************************)
(* The page on which the reviewer sets the provider and the caps           *)
(* (/config, the script in server/routes.rs): a form filled by answers     *)
(* that may come late and in any order, while the reviewer goes on         *)
(* clicking; the daemon behind it; and the polling of a ChatGPT sign-in.   *)
(*                                                                         *)
(* Abstractions.  An endpoint is the kind whose service it is, or "".      *)
(* Hints, labels and messages are left out, and so are the temperature,    *)
(* the checkbox that clears the key, and the caps that nothing computes.   *)
(* A status question that is not answered yet is not asked again.          *)
(***************************************************************************)
EXTENDS ReviewConfig, PageRequests, SequencesExt

CONSTANTS
  Shown,        \* the kinds the reviewer chooses from
  Configs,      \* what the daemon has stored
  Catalogue,    \* the models of each kind's service
  Env,          \* the key of each kind in the daemon's environment, or ""
  MaxClicks,    \* what the reviewer does in a history
  MaxFaults     \* requests that fail

ASSUME ConfigPageAssumption == Shown \subseteq Kinds /\ MaxClicks \in Nat /\ MaxFaults \in Nat

\* What is stored makes a provider, with its own endpoint or none, and its caps are in range.
ASSUME ConfigsAssumption ==
  \A c \in Configs :
    /\ c = [provider |-> c.provider, limits |-> c.limits, origin |-> c.origin]
    /\ DOMAIN c.provider = DOMAIN DefaultProvider /\ DOMAIN c.limits = DOMAIN DefaultLimits
    /\ Builds(c) /\ OwnEndpoint(c.provider)
    /\ LimitsFit([limits |-> c.limits])

\* A service lists its models with the window and the ceiling of each; 0 is one it leaves out.
ASSUME CatalogueAssumption ==
  \A kind \in Kinds : \A i \in DOMAIN Catalogue[kind] :
    LET m == Catalogue[kind][i] IN
    m = Model(m.id, m.context, m.output) /\ m.context \in Nat /\ m.output \in Nat

VARIABLES
  form,         \* what the fields show; `limits` holds the caps that are filled in
  options,      \* the models in the list
  known,        \* modelContext and modelMaxOutput: the models they were filled from
  ceiling,      \* the `max` of the field max_tokens; 0: none
  polling,      \* is the sign-in polled?
  arrived,      \* have the capabilities arrived?
  signIn,       \* the daemon's sign-in: "out", "pending" or "in"
  clicks, faults

vars == <<form, options, known, ceiling, polling, arrived, requests, stored, signIn, clicks, faults>>
fields   == <<form, options, known, ceiling>>
daemon   == <<stored, signIn>>
counters == <<clicks, faults>>

Request(what, arg) == [what |-> what, arg |-> arg, st |-> "sent", ans |-> 0]
Ask(what, arg)     == requests' = Append(requests, Request(what, arg))

\* The caps the page edits.
LIMIT_KEYS == DOMAIN LimitRange \ {"session_idle_evict_days"}

Blank == [kind |-> "mock", model |-> "", endpoint |-> "", api_key |-> "", max_tokens |-> 0,
          limits |-> << >>]

Init ==
  /\ form = Blank /\ options = {} /\ known = {} /\ ceiling = 0
  /\ polling = FALSE /\ arrived = FALSE
  /\ requests = <<Request("capabilities", 0), Request("config", 0)>>
  /\ stored \in Configs
  /\ signIn = "out"
  /\ clicks = 0 /\ faults = 0

-----------------------------------------------------------------------------
(* What the fetched models say of the model in the form; 0: nothing. *)

Of(f, models, part) ==
  LET same == {m \in models : m.id = f.model} IN
  IF same = {} THEN 0 ELSE (CHOOSE m \in same : TRUE)[part]

\* applyModelMaxOutput(false): a value over the model's ceiling is cut to it.
Clamped(f, models) ==
  LET cap == Of(f, models, "output") IN
  /\ form' = [f EXCEPT !.max_tokens = IF cap > 0 /\ @ > cap THEN cap ELSE @]
  /\ ceiling' = cap

\* apiKeyPatch: a blank field keeps the stored key.
ProviderPatch(f) ==
  [key \in {"kind", "endpoint"} \cup (IF f.api_key = "" THEN {} ELSE {"api_key"}) |-> f[key]]
SavedPatch(f) == [key \in DOMAIN ProviderPatch(f) \cup {"model", "max_tokens"} |-> f[key]]

\* The caps that are given are filled in, the others stay.
FillLimits(caps, limits) ==
  [key \in DOMAIN caps \cup DOMAIN limits |-> IF key \in DOMAIN caps THEN caps[key] ELSE limits[key]]

-----------------------------------------------------------------------------
(* The reviewer. *)

Click == clicks < MaxClicks /\ clicks' = clicks + 1
Offers(part) == ~arrived \/ ProviderCapabilities[form.kind][part]

\* What belonged to the kind before is cleared.
\* Mutant: its endpoint is kept.
SwitchKeepsEndpoint(kind) ==
  /\ Click /\ kind # form.kind
  /\ form' = [form EXCEPT !.kind = kind, !.model = "", !.api_key = ""]
  /\ options' = {} /\ known' = {}
  /\ IF kind = "chatgpt" THEN Ask("status", 0) ELSE UNCHANGED requests
  /\ UNCHANGED <<ceiling, polling, arrived, daemon, faults>>
Switch(kind) ==
  /\ Click /\ kind # form.kind
  /\ form' = [form EXCEPT !.kind = kind, !.endpoint = "", !.model = "", !.api_key = ""]
  /\ options' = {} /\ known' = {}
  /\ IF kind = "chatgpt" THEN Ask("status", 0) ELSE UNCHANGED requests
  /\ UNCHANGED <<ceiling, polling, arrived, daemon, faults>>

Types(field, value) ==
  /\ Click
  /\ form' = [form EXCEPT ![field] = value]
  /\ UNCHANGED <<options, known, ceiling, polling, arrived, requests, daemon, faults>>
TypesEndpoint == Offers("endpoint") /\ Types("endpoint", form.kind)
TypesKey      == Offers("api_key") /\ Types("api_key", "typed")
TypesCap      == Types("limits", FillLimits([max_tool_result_chars |-> Typed], form.limits))

TypesModel(id) ==
  /\ Click
  /\ Clamped([form EXCEPT !.model = id], known)
  /\ UNCHANGED <<options, known, polling, arrived, requests, daemon, faults>>

\* The numbers of the list before are dropped when the new one is asked for.
FetchModels ==
  /\ Click
  /\ known' = {}
  /\ Ask("models", ProviderPatch(form))
  /\ UNCHANGED <<form, options, ceiling, polling, arrived, daemon, faults>>

DeriveQuery(f) == [context |-> Of(f, known, "context"), output |-> Of(f, known, "output")]

\* Picking a model asks for its headroom (suggestMaxTokens).
Pick(m) ==
  LET f == [form EXCEPT !.model = m.id]  q == DeriveQuery(f) IN
  /\ Click
  /\ form' = f
  /\ IF q.context = 0 /\ q.output = 0 THEN UNCHANGED requests
     ELSE Ask("suggest", [q EXCEPT !.context = IF @ = 0 THEN 32768 ELSE @])
  /\ UNCHANGED <<options, known, ceiling, polling, arrived, daemon, faults>>

Derive ==
  /\ Click
  /\ DeriveQuery(form).context > 0
  /\ Ask("derive", DeriveQuery(form))
  /\ UNCHANGED <<fields, polling, arrived, daemon, faults>>

\* The browser refuses a value over the field's `max`.
Save ==
  /\ Click
  /\ ceiling > 0 => form.max_tokens <= ceiling
  /\ Ask("save", [provider |-> SavedPatch(form), limits |-> form.limits])
  /\ UNCHANGED <<fields, polling, arrived, daemon, faults>>

Login ==
  /\ Click /\ form.kind = "chatgpt"
  /\ Ask("login", 0)
  /\ UNCHANGED <<fields, polling, arrived, daemon, faults>>

-----------------------------------------------------------------------------
(* The daemon. *)

\* provider_models: the stored key serves the stored endpoint only; a service refuses a request
\* without a key or a sign-in.
ModelsOf(body) ==
  LET patched == ApplyProviderPatch(stored, [provider |-> body])
      moved   == body.endpoint # stored.provider.endpoint /\ "api_key" \notin DOMAIN body
      cand    == IF moved THEN [patched EXCEPT !.provider.api_key = ""] ELSE patched
      kind    == cand.provider.kind
  IN  [ok  |-> /\ ProviderCapabilities[kind].api_key => BuildProvider(cand, Env).key # ""
               /\ kind = "chatgpt" => signIn = "in"
               /\ ListsModels(kind, Catalogue[kind]),
       val |-> ListModels(kind, Catalogue[kind])]

\* What the daemon answers; ok is the HTTP status.
Answer(r) ==
  CASE r.what = "models" -> ModelsOf(r.arg)
    [] r.what = "save"   -> [ok |-> LimitsFit(r.arg), val |-> 0]
    [] r.what = "config" -> [ok |-> TRUE, val |-> GetConfig(stored)]
    [] r.what = "status" -> [ok |-> TRUE, val |-> signIn]
    [] r.what \in {"suggest", "derive"} ->
         [ok |-> TRUE, val |-> [limits     |-> DeriveLimits(r.arg.context),
                                max_tokens |-> SuggestedMaxTokens(r.arg.context, r.arg.output)]]
    [] OTHER             -> [ok |-> TRUE, val |-> 0]

Serve(k) ==
  LET r == requests[k]  ans == Answer(r) IN
  /\ r.st = "sent"
  /\ requests' = [requests EXCEPT ![k].st = IF ans.ok THEN "answered" ELSE "refused",
                                  ![k].ans = ans.val]
  /\ stored' = IF r.what = "save" /\ ans.ok THEN Candidate(stored, r.arg) ELSE stored
  /\ signIn' = IF r.what = "login" THEN "pending" ELSE signIn
  /\ UNCHANGED <<fields, polling, arrived, counters>>

\* The daemon is away, or the sign-in's port is taken.
Fails(k) ==
  /\ requests[k].st = "sent" /\ faults < MaxFaults
  /\ faults' = faults + 1
  /\ requests' = [requests EXCEPT ![k].st = "lost"]
  /\ UNCHANGED <<fields, polling, arrived, daemon, clicks>>

\* The browser comes back, or does not.
SignInSettles ==
  /\ signIn = "pending"
  /\ signIn' \in {"in", "out"}
  /\ UNCHANGED <<fields, polling, arrived, requests, stored, counters>>

-----------------------------------------------------------------------------
(* Answers. *)

Answered(k, what) ==
  /\ requests[k].what \in what /\ requests[k].st = "answered"
  /\ requests' = RemoveAt(requests, k)

ShowsCapabilities(k) ==
  /\ Answered(k, {"capabilities"})
  /\ arrived' = TRUE
  /\ UNCHANGED <<fields, polling, daemon, counters>>

\* The form is overwritten with what is stored, whatever was chosen meanwhile; the typed key is
\* left.
ShowsConfig(k) ==
  LET p == requests[k].ans.provider IN
  /\ requests[k].what = "config" /\ requests[k].st = "answered"
  /\ requests' = RemoveAt(requests, k)
                   \o (IF p.kind = "chatgpt" THEN <<Request("status", 0)>> ELSE << >>)
  /\ form' = [form EXCEPT !.kind = p.kind, !.model = p.model, !.endpoint = p.endpoint,
                !.max_tokens = IF p.max_tokens = 0 THEN 4096 ELSE p.max_tokens,
                !.limits = [key \in LIMIT_KEYS |-> requests[k].ans.limits[key]]]
  /\ UNCHANGED <<options, known, ceiling, polling, arrived, daemon, counters>>

ShowsModels(k) ==
  LET models == requests[k].ans IN
  /\ Answered(k, {"models"})
  /\ options' = ToSet(models) /\ known' = ToSet(models)
  /\ Clamped(form, ToSet(models))
  /\ UNCHANGED <<polling, arrived, daemon, counters>>

ShowsDerived(k) ==
  LET ans == requests[k].ans IN
  /\ Answered(k, {"suggest", "derive"})
  /\ Clamped([form EXCEPT !.max_tokens = ans.max_tokens,
                !.limits = IF requests[k].what = "derive" THEN FillLimits(ans.limits, @) ELSE @], known)
  /\ UNCHANGED <<options, known, polling, arrived, daemon, counters>>

\* The key field is emptied, also of what was typed since.
ShowsSaved(k) ==
  /\ Answered(k, {"save"})
  /\ form' = [form EXCEPT !.api_key = ""]
  /\ UNCHANGED <<options, known, ceiling, polling, arrived, daemon, counters>>

ShowsLogin(k) ==
  /\ Answered(k, {"login"})
  /\ polling' = TRUE
  /\ UNCHANGED <<fields, arrived, daemon, counters>>

\* Mutant: only a sign-in that succeeded ends the polling.
ShowsStatusSignedIn(k) ==
  /\ Answered(k, {"status"})
  /\ polling' = (polling /\ requests[k].ans # "in")
  /\ UNCHANGED <<fields, arrived, daemon, counters>>
\* Polling stops once the sign-in settles either way.
ShowsStatus(k) ==
  /\ Answered(k, {"status"})
  /\ polling' = (polling /\ requests[k].ans = "pending")
  /\ UNCHANGED <<fields, arrived, daemon, counters>>

\* Every failure is only a message.
ShowsFailure(k) ==
  /\ requests[k].st \in {"refused", "lost"}
  /\ requests' = RemoveAt(requests, k)
  /\ UNCHANGED <<fields, polling, arrived, daemon, counters>>

Poll ==
  /\ polling
  /\ \A k \in DOMAIN requests : requests[k].what # "status"
  /\ Ask("status", 0)
  /\ UNCHANGED <<fields, polling, arrived, daemon, counters>>

-----------------------------------------------------------------------------
Reviewer ==
  \/ \E kind \in Shown : Switch(kind)
  \/ TypesEndpoint \/ TypesKey \/ TypesCap \/ FetchModels \/ Derive \/ Save \/ Login
  \/ \E m \in options : Pick(m) \/ TypesModel(m.id)

Shows(k) ==
  \/ ShowsCapabilities(k) \/ ShowsConfig(k) \/ ShowsModels(k) \/ ShowsDerived(k)
  \/ ShowsSaved(k) \/ ShowsLogin(k) \/ ShowsStatus(k) \/ ShowsFailure(k)

Progress == Poll \/ \E k \in DOMAIN requests : Serve(k) \/ Shows(k)

Next == Reviewer \/ Progress \/ SignInSettles \/ \E k \in DOMAIN requests : Fails(k)

\* The daemon and the page handle what has come in; a sign-in comes back or times out.
Spec == Init /\ [][Next]_vars /\ WF_vars(Progress) /\ WF_vars(SignInSettles)

-----------------------------------------------------------------------------
\* Polling the sign-in comes to an end, whether it succeeds, is given up, or is not reached for
\* a while (routes.rs:1197).
PollEnds == polling ~> ~polling
=============================================================================
