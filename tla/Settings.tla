------------------------------ MODULE Settings ------------------------------
(***************************************************************************)
(* The review daemon's configuration under concurrent requests             *)
(* (server/routes.rs, server/state.rs, the boot of cli.rs): the copy in    *)
(* memory behind its mutex, review.toml and review.toml.tmp on the disk,   *)
(* and the provider built from it.  The daemon may crash at any step and   *)
(* boots from the file.                                                    *)
(*                                                                         *)
(* Abstractions.  std::fs::write is an open that truncates and a write, to *)
(* the file the handle was opened on wherever a rename moved it since.  A  *)
(* request is a job in a slot; a history starts with the requests it will  *)
(* make (`todo`), and the ones of one kind are interchangeable.            *)
(***************************************************************************)
EXTENDS ReviewConfig, FiniteSets

CONSTANTS
  Slots,         \* requests under way at once
  Histories,     \* the requests a history may make: functions from Ops to Nat
  Files,         \* review.toml as a history finds it
  Bodies,        \* bodies of POST /v1/config
  MaxCrashes     \* crashes of the daemon in a history

Free == "free"

ASSUME SettingsAssumption ==
  /\ MaxCrashes \in Nat
  /\ IsFiniteSet(Slots) /\ Free \notin Slots

\* The daemon is running at first: it has booted from the file, whose limits are in range.
ASSUME FilesAssumption ==
  \A f \in Files :
    /\ Loads(f) /\ Builds(Load(f)) /\ LimitsFit([limits |-> Load(f).limits])
    /\ Load(f) = [provider |-> Load(f).provider, limits |-> Load(f).limits, origin |-> Load(f).origin]

Ops == {"post", "pair", "validate", "models", "turn", "login", "issue"}

VARIABLES
  todo,        \* requests still to come, by kind
  job,         \* each slot: the request it handles and where it stands
  config,      \* ConfigStore
  configLock,  \* the slot that holds its mutex, or Free
  file,        \* review.toml
  tmp,         \* review.toml.tmp
  provider,    \* ProviderHandle: what it was built from, and its instance
  built,       \* provider instances built so far
  up,          \* is the daemon running?
  crashes

settingsVars == <<config, configLock, file, tmp, provider, built, crashes>>

\* A slot's job.  `cand` is a clone of the configuration, `handle` the file an open handle
\* is on, `inst` the provider instance the request built or
\* uses (0: none), `arg` what else it carries.
Idle == [op |-> "none", pc |-> "idle", cand |-> Config0, handle |-> "none",
         inst |-> 0, arg |-> 0]

At(s, op, pc) == up /\ job[s].op = op /\ job[s].pc = pc
Step(s, pc)   == job' = [job EXCEPT ![s].pc = pc]
Done(s)       == job' = [job EXCEPT ![s] = Idle]

\* A new request of kind op takes slot s at pc.
Arrive(s, op, new) ==
  /\ up
  /\ job[s].pc = "idle"
  /\ todo[op] > 0
  /\ todo' = [todo EXCEPT ![op] = @ - 1]
  /\ job' = [job EXCEPT ![s] = new]

\* A pairing sets its origin once its code was accepted, and saves the configuration.
Persists == {"origin", "open", "write", "rename"}
ProviderOf(cfg, n) == [of |-> cfg.provider, inst |-> n]

SettingsInit ==
  /\ file \in Files
  /\ config = Load(file)
  /\ configLock = Free
  /\ tmp = NoFile
  /\ provider = ProviderOf(config, 1)
  /\ built = 1
  /\ crashes = 0
  /\ todo \in Histories
  /\ job = [s \in Slots |-> Idle]
  /\ up = TRUE

-----------------------------------------------------------------------------
(* persist_config_atomic: write <path>.tmp, rename it over the target.     *)

\* Mutant: the file is written in place.
InPlace == "file"
\* The file a write goes to.
Target == "tmp"

Open(s, op) ==
  /\ At(s, op, "open")
  /\ file' = IF Target = "file" THEN Torn ELSE file
  /\ tmp' = IF Target = "tmp" THEN Torn ELSE tmp
  /\ job' = [job EXCEPT ![s].pc = "write", ![s].handle = Target]
  /\ UNCHANGED <<todo, config, configLock, provider, built, up, crashes>>

Write(s, op) ==
  /\ At(s, op, "write")
  /\ LET whole == File("ok", job[s].cand) IN
     /\ tmp' = IF job[s].handle = "tmp" THEN whole ELSE tmp
     /\ file' = IF job[s].handle = "file" THEN whole ELSE file
  /\ job' = [job EXCEPT ![s].pc = "rename", ![s].handle = "none"]
  /\ UNCHANGED <<todo, config, configLock, provider, built, up, crashes>>

\* A handle on the temporary file is on the target after the rename, one on the old target
\* on nothing.
Moved(s, next) ==
  job' = [t \in Slots |->
    [(IF t = s THEN next ELSE job[t]) EXCEPT
                   !.handle = CASE @ = "tmp" -> "file" [] @ = "file" -> "gone" [] OTHER -> @]]

Rename(s, op, next) ==
  /\ At(s, op, "rename")
  /\ IF Target = "tmp" THEN file' = tmp /\ tmp' = NoFile /\ tmp # NoFile
                       ELSE UNCHANGED <<file, tmp>>
  /\ Moved(s, next)
  /\ UNCHANGED <<todo, config, configLock, provider, built, up, crashes>>

-----------------------------------------------------------------------------
(* POST /v1/config. *)

PostArrives(s) ==
  /\ \E b \in Bodies : Arrive(s, "post", [Idle EXCEPT !.op = "post", !.pc = "lock", !.arg = b])
  /\ UNCHANGED <<settingsVars, up>>

\* Mutant: the provider is not built before the candidate is saved.
Unproved(body, cand) == LimitsFit(body)
Accepted(body, cand) == LimitsFit(body) /\ (Has(body, "provider") => Builds(cand))

\* Under the lock: patch a clone, check the limits, build the provider; else 400.
PostChecks(s) ==
  /\ At(s, "post", "lock")
  /\ configLock = Free
  /\ LET body == job[s].arg  cand == Candidate(config, body) IN
     IF Accepted(body, cand)
     THEN /\ configLock' = s
          /\ built' = IF Has(body, "provider") THEN built + 1 ELSE built
         /\ job' = [job EXCEPT ![s] = [Idle EXCEPT !.op = "post", !.pc = "open", !.cand = cand,
                      !.inst = IF Has(body, "provider") THEN built' ELSE 0]]
     ELSE Done(s) /\ UNCHANGED <<configLock, built>>
  /\ UNCHANGED <<todo, config, file, tmp, provider, up, crashes>>

PostOpens(s)   == Open(s, "post")
PostWrites(s)  == Write(s, "post")
PostRenames(s) == Rename(s, "post", [job[s] EXCEPT !.pc = "commit"])

\* The temporary file is gone, or the disk refuses: 500, nothing applied.
PostPersistFails(s) ==
  /\ \E pc \in {"open", "write", "rename"} : At(s, "post", pc)
  /\ configLock' = Free
  /\ Done(s)
  /\ UNCHANGED <<todo, config, file, tmp, provider, built, up, crashes>>

PostCommits(s) ==
  /\ At(s, "post", "commit")
  /\ config' = job[s].cand
  /\ configLock' = Free
  /\ IF job[s].inst # 0 THEN Step(s, "swap") ELSE Done(s)
  /\ UNCHANGED <<todo, file, tmp, provider, built, up, crashes>>

\* ProviderHandle::set, after the lock was released.
PostSwaps(s) ==
  /\ At(s, "post", "swap")
  /\ provider' = ProviderOf(job[s].cand, job[s].inst)
  /\ Done(s)
  /\ UNCHANGED <<todo, config, configLock, file, tmp, built, up, crashes>>

-----------------------------------------------------------------------------
(* The tail of POST /v1/pair, once the code was accepted. *)

\* The origin is set under the lock; the snapshot is written after it is released.
PairSetsOrigin(s) ==
  /\ At(s, "pair", "origin")
  /\ configLock = Free
  /\ config' = [config EXCEPT !.origin = "extension"]
  /\ job' = [job EXCEPT ![s].pc = "open", ![s].cand = config']
  /\ UNCHANGED <<todo, configLock, file, tmp, provider, built, up, crashes>>

PairOpens(s)   == Open(s, "pair")
PairWrites(s)  == Write(s, "pair")
PairRenames(s) == Rename(s, "pair", Idle)

\* Best effort: the pairing is answered all the same.
PairPersistFails(s) ==
  /\ \E pc \in {"open", "write", "rename"} : At(s, "pair", pc)
  /\ Done(s)
  /\ UNCHANGED <<todo, config, configLock, file, tmp, provider, built, up, crashes>>
=============================================================================
