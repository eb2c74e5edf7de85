------------------------------- MODULE SignIn -------------------------------
(***************************************************************************)
(* The ChatGPT sign-in and its token (provider/chatgpt.rs access,          *)
(* provider/chatgpt_auth.rs, the route /v1/provider/chatgpt/login): each   *)
(* provider instance keeps the token behind a mutex of its own, all of     *)
(* them share chatgpt-auth.json, and the service accepts a refresh token   *)
(* once.                                                                   *)
(*                                                                         *)
(* Abstractions.  A token is the number of the grant it came from; 0 is no *)
(* token.  Access tokens expire together: all those granted so far are     *)
(* within the margin of their expiry at once (Expire).  The service is     *)
(* modelled by what post_token makes of its answers.                       *)
(***************************************************************************)
EXTENDS Settings

CONSTANTS
  MaxGrants,     \* tokens the service grants in a history
  MaxFaults,     \* answers lost, writes that fail
  MaxInstances   \* provider instances in a history

ASSUME SignInAssumption ==
  MaxGrants \in Nat \ {0} /\ MaxFaults \in Nat /\ MaxInstances \in Nat \ {0}

VARIABLES
  auth,       \* chatgpt-auth.json: a token, NoToken, or Cut while it is written
  held,       \* each instance: the token in memory (NoToken: None)
  mutex,      \* each instance: the slot that holds its mutex, or Free
  grants,     \* tokens granted so far
  live,       \* the tokens whose refresh token the service still accepts
  expired,    \* tokens up to this one need a refresh
  port,       \* the sign-in attempts that hold a listener on the callback port
  pending,    \* the static PENDING
  faults

signInVars == <<auth, held, mutex, grants, live, expired, port, pending, faults>>

NoToken == 0
Cut     == MaxGrants + 1
Instances == 1 .. MaxInstances

SignInInit ==
  /\ auth \in {NoToken, 1}
  /\ held = [i \in Instances |-> NoToken]
  /\ mutex = [i \in Instances |-> Free]
  /\ grants = 1 /\ live = {1}
  /\ expired = 0
  /\ port = {} /\ pending = FALSE /\ faults = 0

Fault == faults < MaxFaults /\ faults' = faults + 1
NeedsRefresh(t) == t <= expired
AccessOps == {"turn", "validate", "models"}
AtAccess(s, pc) == job[s].op \in AccessOps /\ job[s].pc = pc /\ up

-----------------------------------------------------------------------------
(* A turn uses the running instance; validating a candidate, or listing    *)
(* its models, builds one of its own.                                      *)

TurnArrives(s) ==
  /\ provider.of.kind = "chatgpt"
  /\ Arrive(s, "turn", [Idle EXCEPT !.op = "turn", !.pc = "lock", !.inst = provider.inst])
  /\ UNCHANGED <<settingsVars, up, signInVars>>

\* Nothing of the candidate is kept; only one of kind chatgpt touches what is shared.
Ephemeral(s, op) ==
  /\ configLock = Free
  /\ \E b \in Bodies :
       IF ApplyProviderPatch(config, b).provider.kind = "chatgpt"
       THEN /\ built' = built + 1
            /\ Arrive(s, op, [Idle EXCEPT !.op = op, !.pc = "lock", !.inst = built'])
       ELSE Arrive(s, op, Idle) /\ UNCHANGED built
  /\ UNCHANGED <<config, configLock, file, tmp, provider, crashes, up, signInVars>>

ValidateArrives(s) == Ephemeral(s, "validate")
ModelsArrives(s)   == Ephemeral(s, "models")

\* ChatGptProvider::access.  One request at a time per instance.
\* Mutant: no mutex.
EnterUnlocked(i) == TRUE
MayEnter(i) == mutex[i] = Free

Enter(s) ==
  /\ AtAccess(s, "lock")
  /\ MayEnter(job[s].inst)
  /\ mutex' = [mutex EXCEPT ![job[s].inst] = s]
  /\ Step(s, "load")
  /\ UNCHANGED <<todo, settingsVars, up, auth, held, grants, live, expired, port, pending, faults>>

Leave(s) == mutex' = [mutex EXCEPT ![job[s].inst] = Free] /\ Done(s)

\* The file is read only when nothing is in memory; signed out, or cut short, is an error.
LoadToken(s) ==
  /\ AtAccess(s, "load")
  /\ LET i == job[s].inst
         t == IF held[i] = NoToken THEN auth ELSE held[i] IN
     IF t \in {NoToken, Cut}
     THEN Leave(s) /\ UNCHANGED held
     ELSE /\ held' = [held EXCEPT ![i] = t]
          /\ IF NeedsRefresh(t)
             THEN /\ job' = [job EXCEPT ![s].pc = "refresh", ![s].arg = t]
                  /\ UNCHANGED mutex
             ELSE Leave(s)
  /\ UNCHANGED <<todo, settingsVars, up, auth, grants, live, expired, port, pending, faults>>

\* tokens_from_response: what is live once `new` is granted for `old`; an answer without a
\* refresh token means the old one is kept.
Granted(old, new) == {(live \ {old}) \cup {new}, live \cup {new}}

\* The service rotates the refresh token, or says to keep it.
Refresh(s) ==
  /\ AtAccess(s, "refresh")
  /\ job[s].arg \in live
  /\ grants < MaxGrants
  /\ grants' = grants + 1
  /\ live' \in Granted(job[s].arg, grants')
  /\ \/ job' = [job EXCEPT ![s].pc = "truncate", ![s].arg = grants'] /\ UNCHANGED faults
     \/ Fault /\ Step(s, "forget")
  /\ UNCHANGED <<todo, settingsVars, up, auth, held, mutex, expired, port, pending>>

\* Refused, or never answered.
RefreshFails(s) ==
  /\ AtAccess(s, "refresh")
  /\ IF job[s].arg \in live THEN Fault ELSE UNCHANGED faults
  /\ Step(s, "forget")
  /\ UNCHANGED <<todo, settingsVars, up, auth, held, mutex, grants, live, expired, port, pending>>

\* Any failed refresh is a sign-out: clear_tokens, and nothing in memory.
\* A save under way goes on writing to the file that was removed.
SignOut(s) ==
  /\ AtAccess(s, "forget")
  /\ auth' = NoToken
  /\ held' = [held EXCEPT ![job[s].inst] = NoToken]
  /\ mutex' = [mutex EXCEPT ![job[s].inst] = Free]
  /\ job' = [t \in Slots |-> IF t = s THEN Idle
               ELSE [job[t] EXCEPT !.handle = IF @ = "auth" THEN "gone" ELSE @]]
  /\ UNCHANGED <<todo, settingsVars, up, grants, live, expired, port, pending, faults>>

-----------------------------------------------------------------------------
(* save_tokens: the file is truncated, then written. *)

Truncate(s) ==
  /\ up /\ job[s].pc = "truncate"
  /\ auth' = Cut
  /\ job' = [job EXCEPT ![s].pc = "save", ![s].handle = "auth"]
  /\ UNCHANGED <<todo, settingsVars, up, held, mutex, grants, live, expired, port, pending, faults>>

Saved(s) == IF job[s].handle = "auth" THEN job[s].arg ELSE auth

SaveRefreshed(s) ==
  /\ AtAccess(s, "save")
  /\ auth' = Saved(s)
  /\ held' = [held EXCEPT ![job[s].inst] = job[s].arg]
  /\ Leave(s)
  /\ UNCHANGED <<todo, settingsVars, up, grants, live, expired, port, pending, faults>>

\* The token in memory stays the one that was just spent.
SaveFails(s) ==
  /\ \E pc \in {"truncate", "save"} : AtAccess(s, pc)
  /\ Fault
  /\ Leave(s)
  /\ UNCHANGED <<todo, settingsVars, up, auth, held, grants, live, expired, port, pending>>

-----------------------------------------------------------------------------
(* Signing in: a listener on the callback port, the redirect, the exchange *)
(* of the code for a token.                                                *)

\* begin_callback: the port is bound before the URL is handed out, or the request fails.
BeginCallback(s, attempt, refused) ==
  IF port = {} THEN port' = {s} /\ pending' = TRUE /\ attempt
               ELSE UNCHANGED <<port, pending>> /\ refused

LoginArrives(s) ==
  /\ BeginCallback(s, Arrive(s, "login", [Idle EXCEPT !.op = "login", !.pc = "callback"]),
                      Arrive(s, "login", Idle))
  /\ UNCHANGED <<settingsVars, up, auth, held, mutex, grants, live, expired, faults>>

\* The redirect with the expected state; anything else but a stray request ends the attempt.
Callback(s) ==
  /\ At(s, "login", "callback")
  /\ Step(s, "exchange")
  /\ UNCHANGED <<todo, settingsVars, up, signInVars>>

CallbackFails(s) ==
  /\ At(s, "login", "callback")
  /\ port' = port \ {s}
  /\ Step(s, "clear")
  /\ UNCHANGED <<todo, settingsVars, up, auth, held, mutex, grants, live, expired, pending, faults>>

\* exchange_code; the listeners are dropped whatever it returns.
Exchange(s) ==
  /\ At(s, "login", "exchange")
  /\ grants < MaxGrants
  /\ grants' = grants + 1
  /\ live' = live \cup {grants'}
  /\ port' = port \ {s}
  /\ job' = [job EXCEPT ![s].pc = "truncate", ![s].arg = grants']
  /\ UNCHANGED <<todo, settingsVars, up, auth, held, mutex, expired, pending, faults>>

ExchangeFails(s) ==
  /\ At(s, "login", "exchange")
  /\ Fault
  /\ port' = port \ {s}
  /\ Step(s, "clear")
  /\ UNCHANGED <<todo, settingsVars, up, auth, held, mutex, grants, live, expired, pending>>

SaveSignIn(s) ==
  /\ At(s, "login", "save")
  /\ auth' = Saved(s)
  /\ Step(s, "clear")
  /\ UNCHANGED <<todo, settingsVars, up, held, mutex, grants, live, expired, port, pending, faults>>

SignInNotSaved(s) ==
  /\ \E pc \in {"truncate", "save"} : At(s, "login", pc)
  /\ Fault
  /\ Step(s, "clear")
  /\ UNCHANGED <<todo, settingsVars, up, auth, held, mutex, grants, live, expired, port, pending>>

ClearPending(s) ==
  /\ At(s, "login", "clear")
  /\ pending' = FALSE
  /\ Done(s)
  /\ UNCHANGED <<todo, settingsVars, up, auth, held, mutex, grants, live, expired, port, faults>>

\* The access tokens granted so far come near their expiry, where a request can see it.
Expire ==
  /\ expired < grants
  /\ \E o \in AccessOps : todo[o] > 0 \/ \E s \in Slots : job[s].op = o
  /\ expired' = grants
  /\ UNCHANGED <<todo, job, settingsVars, up, auth, held, mutex, grants, live, port, pending, faults>>
=============================================================================
