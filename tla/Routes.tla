------------------------------- MODULE Routes -------------------------------
(***************************************************************************)
(* The routes of the review daemon that change what outlives a request:    *)
(* the configuration, the pairing codes and the ChatGPT sign-in, under     *)
(* concurrent requests and crashes of the daemon.  A pairing writes the    *)
(* configuration; a configuration that selects chatgpt builds the provider *)
(* instance that holds the sign-in's token.                                *)
(***************************************************************************)
EXTENDS Pairing, SignIn

vars == <<todo, job, up, settingsVars, pairingVars, signInVars>>

Init == SettingsInit /\ PairingInit /\ SignInInit

SettingsStep(s) ==
  /\ \/ PostArrives(s) \/ PostChecks(s) \/ PostOpens(s) \/ PostWrites(s) \/ PostRenames(s)
     \/ PostPersistFails(s) \/ PostCommits(s) \/ PostSwaps(s)
     \/ PairSetsOrigin(s) \/ PairOpens(s) \/ PairWrites(s) \/ PairRenames(s)
     \/ PairPersistFails(s)
  /\ UNCHANGED <<pairingVars, signInVars>>

PairingStep(s) ==
  /\ Issue(s) \/ PairArrives(s) \/ PairChecks(s) \/ Redeem(s) \/ PairFails(s) \/ PairSucceeds(s)
  /\ UNCHANGED signInVars

SignInStep(s) ==
  /\ \/ TurnArrives(s) \/ ValidateArrives(s) \/ ModelsArrives(s) \/ Enter(s) \/ LoadToken(s) 
     \/ Refresh(s) \/ RefreshFails(s) \/ SignOut(s) \/ Truncate(s) \/ SaveRefreshed(s) \/ SaveFails(s)
     \/ LoginArrives(s) \/ Callback(s) \/ CallbackFails(s) \/ Exchange(s) \/ ExchangeFails(s)
     \/ SaveSignIn(s) \/ SignInNotSaved(s) \/ ClearPending(s)
  /\ UNCHANGED pairingVars

\* The process is gone with all it had in memory; the files stay as they are.
Crash ==
  /\ up
  /\ crashes < MaxCrashes
  /\ crashes' = crashes + 1
  /\ up' = FALSE
  /\ job' = [s \in Slots |-> Idle]
  /\ configLock' = Free
  /\ codes' = << >>
  /\ ledger' = NoFailures
  /\ held' = [i \in Instances |-> NoToken]
  /\ mutex' = [i \in Instances |-> Free]
  /\ port' = {}
  /\ pending' = FALSE
  /\ UNCHANGED <<todo, config, file, tmp, provider, built, issued, clock, redeemed,
                 auth, grants, live, expired, faults>>

\* run_serve: the configuration is read and its provider built, or there is no daemon.
Boot ==
  /\ ~up
  /\ Loads(file)
  /\ Builds(Load(file))
  /\ up' = TRUE
  /\ config' = Load(file)
  /\ built' = built + 1
  /\ provider' = ProviderOf(config', built')
  /\ UNCHANGED <<todo, job, configLock, file, tmp, crashes, pairingVars, signInVars>>

Next ==
  \/ \E s \in Slots : SettingsStep(s) \/ PairingStep(s) \/ SignInStep(s)
  \/ Tick /\ UNCHANGED signInVars
  \/ Expire /\ UNCHANGED pairingVars
  \/ Crash
  \/ Boot

Spec == Init /\ [][Next]_vars

-----------------------------------------------------------------------------
TypeOK ==
  /\ \A s \in Slots : job[s].op \in Ops \cup {"none"} /\ job[s].inst \in 0 .. built
  /\ configLock \in Slots \cup {Free}
  /\ file.st \in {"missing", "torn", "ok"} /\ tmp.st \in {"missing", "torn", "ok"}
  /\ DOMAIN codes \subseteq 1 .. Len(issued)
  /\ auth \in NoToken .. Cut /\ \A i \in Instances : held[i] \in NoToken .. MaxGrants
  /\ \A i \in Instances : mutex[i] # Free => job[mutex[i]].inst = i

\* At work on review.toml: a post while it holds the lock, a pairing from its snapshot on.
Saver(t) == \/ job[t].op = "post" /\ job[t].pc \in {"open", "write", "rename", "commit"}
            \/ job[t].op = "pair" /\ job[t].pc \in {"open", "write", "rename"}

\* No pairing saves beside another request: nothing in the code sees to it (routes.rs:884-892).
SavesApart == \A s, t \in Slots : Saver(s) /\ Saver(t) /\ job[s].op = "pair" => s = t

\* Whatever pairings and posts do to each other's temporary file, and wherever the daemon
\* dies, the configuration in memory and a review.toml that parses build a provider and have
\* their limits in range: the daemon never boots on one it would have refused, and what a
\* post merges into is one it accepted (routes.rs:564-587).
EveryFileIsAccepted ==
  \A cfg \in {config} \cup {Load(f) : f \in {g \in {file} : Loads(g)}} :
    Builds(cfg) /\ LimitsFit([limits |-> cfg.limits])

\* What the daemon answered for is what it runs on and what it will boot on: wherever two posts
\* interleave, a save fails or the daemon dies, review.toml parses and builds a provider, its
\* limits are in range, and once no post is under way it is the configuration in memory
\* (routes.rs:564-568).
AcceptedSurvives ==
  /\ Loads(file)
  /\ Builds(Load(file))
  /\ LimitsFit([limits |-> Load(file).limits])
  /\ up /\ configLock = Free =>
       [Load(file) EXCEPT !.origin = ""] = [config EXCEPT !.origin = ""]

\* So it is as long as no pairing saves beside another request.  Otherwise a pairing may truncate or
\* rename the temporary file of a post (EveryFileIsAccepted says what still holds).
AcceptedIfApart == []SavesApart => []AcceptedSurvives

\* Whatever the interleaving of issues, guesses and expiries, a code pairs one extension,
\* within its lifetime, and a source that overlaps its guesses gains one failure for each
\* request it had under way, no more (pairing.rs:123-166).
CodesAreOneTime ==
  /\ \A i \in DOMAIN redeemed :
       /\ redeemed[i][2] <= issued[redeemed[i][1]] + TTL
       /\ \A j \in DOMAIN redeemed : redeemed[i][1] = redeemed[j][1] => i = j
  /\ ledger.count <= MaxFailures + Cardinality(Slots) - 1

\* Two turns at once on one provider never spend the refresh token twice: with one instance,
\* no lost answer and no crash, nobody is signed out, and the token in the file is one the
\* service still accepts (chatgpt.rs:53-54).
TurnsKeepSignIn ==
  faults = 0 /\ crashes = 0 /\ built = 1 =>
    /\ \A s \in Slots : job[s].pc # "forget"
    /\ (\A s \in Slots : job[s].pc \notin {"truncate", "save"}) => auth \in live \cup {NoToken}
=============================================================================
