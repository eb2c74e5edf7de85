------------------------------ MODULE Launcher ------------------------------
(***************************************************************************)
(* The commands of `libre-cr` that start and stop the review daemon, the   *)
(* supervisor that `start` becomes, and the daemons it spawns              *)
(* (src/crates/libre-cr-cli, and the boot of libre-cr-review).  A command  *)
(* and a daemon are processes; they meet in three files: supervisor.pid,   *)
(* review.pid and endpoint.  Any process may be killed at any step.        *)
(*                                                                         *)
(* Abstractions.  Pids are never reused.  A daemon has no handler for      *)
(* SIGTERM, so the signal is one of the reasons for which Exits may happen *)
(* (or not happen, which is what the timeouts are for); only the signals   *)
(* sent to supervisors are kept.  SIGKILL takes effect.  Each step of a    *)
(* supervisor but the wait for its child takes less than the 5 s of `stop`.*)
(***************************************************************************)
EXTENDS Naturals, Sequences, FiniteSets

CONSTANTS
  MaxRuns,        \* invocations of libre-cr
  MaxDaemons,     \* processes of libre-cr-review
  MaxRestarts,    \* RestartPolicy.max_restarts
  Window,         \* RestartPolicy.window, in ticks of the clock
  MaxClock,       \* bound of the clock
  Overlap,        \* may two commands be under way at once?
  WritesFail      \* may the write of a pid file fail?  (The code goes on.)

ASSUME LauncherAssumption ==
  /\ {MaxRuns, MaxDaemons, MaxRestarts, Window, MaxClock} \subseteq Nat
  /\ {Overlap, WritesFail} \subseteq BOOLEAN

Runs    == 1 .. MaxRuns
Daemons == MaxRuns + 1 .. MaxRuns + MaxDaemons
NoPid   == 0

VARIABLES
  cmd,         \* each run: its kind, where it stands, the process it deals with
  daemon,      \* each daemon: where it stands, the run that spawned it
  supPid,      \* run/supervisor.pid
  revPid,      \* run/review.pid
  endpoint,    \* the endpoint file: whose it is, the starts it is newer than
  portFixed,   \* is server.port configured, or ephemeral?
  termed,      \* the runs that were sent SIGTERM or SIGINT
  tracker,     \* each supervisor's RestartTracker
  announced,   \* the daemon whose endpoint a start printed
  clock

files == <<supPid, revPid, endpoint>>
vars  == <<cmd, daemon, files, portFixed, termed, tracker, announced, clock>>

Starting    == {"resolve", "orphan", "waitOrphan", "unlink", "recordSelf"}
Stopping    == {"readPids", "waitSup", "readRev", "waitRev", "removeFiles", "wipe"}
Supervising == {"spawn", "record", "waiting", "stopping", "backoff", "leave"}
Ended       == {"done", "killed"}

At(r, pc)   == cmd[r].pc = pc
Go(r, pc)   == cmd' = [cmd EXCEPT ![r].pc = pc]
Deal(r, pc, p) == cmd' = [cmd EXCEPT ![r].pc = pc, ![r].of = p]
Alive(p) ==
  \/ p \in Runs /\ cmd[p].pc \notin Ended \cup {"idle"}
  \/ p \in Daemons /\ daemon[p].st \in {"booting", "bound", "serving"}
LivePid(p) == IF Alive(p) THEN p ELSE NoPid

\* A process that ends takes its memory with it.
Forget(r) ==
  /\ termed' = termed \ {r}
  /\ tracker' = [tracker EXCEPT ![r] = <<>>]
  /\ announced' = [announced EXCEPT ![r] = NoPid]

Supervisors == {r \in Runs : cmd[r].pc \in Supervising}
\* What a supervisor killed between the spawn and the write of review.pid
\* leaves behind: no file names it.
Lost == {cmd[r].of : r \in {r \in Runs : At(r, "killed")}}
LiveDaemons == {d \in Daemons : Alive(d)}

NoEndpoint == [of |-> NoPid, newer |-> {}]

Init ==
  /\ cmd = [r \in Runs |-> [kind |-> "none", pc |-> "idle", of |-> NoPid]]
  /\ daemon = [d \in Daemons |-> [st |-> "unborn", parent |-> NoPid]]
  /\ supPid = NoPid /\ revPid = NoPid /\ endpoint = NoEndpoint
  /\ portFixed \in BOOLEAN
  /\ termed = {} /\ clock = 0
  /\ tracker = [r \in Runs |-> <<>>]
  /\ announced = [r \in Runs |-> NoPid]

-----------------------------------------------------------------------------
(* The command line.  A start is under way until supervisor.pid names it.  *)

UnderWay == {r \in Runs : cmd[r].pc \in Starting \cup Stopping}

Dispatch(r) ==
  /\ At(r, "idle") /\ \A q \in Runs : q < r => ~At(q, "idle")
  /\ Overlap \/ UnderWay = {}
  /\ \E k \in {"start", "stop", "restart", "uninstall"} :
       cmd' = [cmd EXCEPT ![r] =
                 [kind |-> k, pc |-> IF k = "start" THEN "resolve" ELSE "readPids", of |-> NoPid]]
  /\ UNCHANGED <<daemon, files, portFixed, termed, tracker, announced, clock>>

-----------------------------------------------------------------------------
(* resolve_existing: is there an install, is there an orphan?  A kill in   *)
(* here clears what the last run left.                                     *)

Resolve(r) ==
  /\ At(r, "resolve")
  /\ IF LivePid(supPid) # NoPid
       THEN Go(r, "done") /\ UNCHANGED supPid
       ELSE Go(r, "orphan") /\ supPid' = NoPid
  /\ UNCHANGED <<daemon, revPid, endpoint, portFixed, termed, tracker, announced, clock>>

ResolveOrphanNoWait(r) ==
  /\ At(r, "orphan") /\ Go(r, "unlink")
  /\ revPid' = NoPid
  /\ UNCHANGED <<daemon, supPid, endpoint, portFixed, termed, tracker, announced, clock>>

ResolveOrphan(r) ==
  /\ At(r, "orphan")
  /\ IF LivePid(revPid) # NoPid
       THEN Deal(r, "waitOrphan", revPid) /\ UNCHANGED revPid
       ELSE Go(r, "unlink") /\ revPid' = NoPid
  /\ UNCHANGED <<daemon, supPid, endpoint, portFixed, termed, tracker, announced, clock>>

OrphanGone(r) ==
  /\ At(r, "waitOrphan") /\ ~Alive(cmd[r].of)
  /\ revPid' = NoPid
  /\ Deal(r, "unlink", NoPid)
  /\ UNCHANGED <<daemon, supPid, endpoint, portFixed, termed, tracker, announced, clock>>

(* terminate_and_wait: after the timeout, SIGKILL.                         *)
KillDaemon(d) ==
  /\ daemon' = [daemon EXCEPT ![d].st = "unclean"]
  /\ UNCHANGED <<cmd, termed, tracker, announced>>

KillRun(r) ==
  /\ cmd' = [cmd EXCEPT ![r] = [kind |-> "none", pc |-> "killed",
                                of |-> IF At(r, "record") THEN @.of ELSE NoPid]]
  /\ Forget(r)
  /\ UNCHANGED daemon

TimeoutKill(r) ==
  /\ Alive(cmd[r].of)
  /\ \/ cmd[r].pc \in {"waitOrphan", "waitRev"} /\ KillDaemon(cmd[r].of)
     \/ At(r, "waitSup") /\ At(cmd[r].of, "stopping") /\ KillRun(cmd[r].of)
  /\ UNCHANGED <<files, portFixed, clock>>

(* run: the stale endpoint goes (unless that fails), then the supervisor   *)
(* is on record; only a file newer than this moment will be announced.     *)
RemoveEndpoint(r) ==
  /\ At(r, "unlink") /\ Go(r, "recordSelf")
  /\ endpoint' \in {NoEndpoint, endpoint}
  /\ UNCHANGED <<daemon, supPid, revPid, portFixed, termed, tracker, announced, clock>>

\* write_pid_file(..).ok(): a file that cannot be written stays as it was.
Written(file, pid) == {pid} \cup {old \in {file} : WritesFail}

RecordSelf(r) ==
  /\ At(r, "recordSelf") /\ Go(r, "spawn")
  /\ supPid' \in Written(supPid, r)
  /\ UNCHANGED <<daemon, revPid, endpoint, portFixed, termed, tracker, announced, clock>>

FreshForAnyAge(r) == endpoint.of # NoPid
FreshFor(r) == r \in endpoint.newer

Announce(r) ==
  /\ r \in Supervisors /\ ~At(r, "leave") /\ announced[r] = NoPid
  /\ FreshFor(r)
  /\ announced' = [announced EXCEPT ![r] = endpoint.of]
  /\ UNCHANGED <<cmd, daemon, files, portFixed, termed, tracker, clock>>

Leave(r) ==
  /\ At(r, "leave") /\ cmd' = [cmd EXCEPT ![r] = [kind |-> "none", pc |-> "done", of |-> NoPid]]
  /\ supPid' = NoPid
  /\ Forget(r)
  /\ UNCHANGED <<daemon, revPid, endpoint, portFixed, clock>>

-----------------------------------------------------------------------------
(* Supervisor::run.                                                        *)

Spawn(r) ==
  /\ At(r, "spawn")
  /\ \E d \in Daemons :
       /\ daemon[d].st = "unborn"
       /\ \A e \in Daemons : e < d => daemon[e].st # "unborn"
       /\ daemon' = [daemon EXCEPT ![d] = [st |-> "booting", parent |-> r]]
       /\ Deal(r, "record", d)
  /\ UNCHANGED <<files, portFixed, termed, tracker, announced, clock>>

SpawnFailed(r) ==
  /\ At(r, "spawn") /\ Go(r, "leave")
  /\ UNCHANGED <<daemon, files, portFixed, termed, tracker, announced, clock>>

RecordChild(r) ==
  /\ At(r, "record") /\ Go(r, "waiting")
  /\ revPid' \in Written(revPid, cmd[r].of)
  /\ UNCHANGED <<daemon, supPid, endpoint, portFixed, termed, tracker, announced, clock>>

ChildIs(r, st) == daemon[cmd[r].of].st = st

\* RestartTracker: prune drops what is older than the window.
Prune(events, now) == SelectSeq(events, LAMBDA t : now - t <= Window)
WouldExceed(events, now) == Len(Prune(events, now)) + 1 > MaxRestarts

CleanExit(r) ==
  /\ At(r, "waiting") /\ ChildIs(r, "clean") /\ Go(r, "leave")
  /\ revPid' = NoPid
  /\ UNCHANGED <<daemon, supPid, endpoint, portFixed, termed, tracker, announced, clock>>

BudgetExhausted(r) ==
  /\ At(r, "waiting") /\ ChildIs(r, "unclean") /\ WouldExceed(tracker[r], clock)
  /\ Go(r, "leave")
  /\ revPid' = NoPid
  /\ tracker' = [tracker EXCEPT ![r] = Prune(@, clock)]
  /\ UNCHANGED <<daemon, supPid, endpoint, portFixed, termed, announced, clock>>

UncleanExit(r) ==
  /\ At(r, "waiting") /\ ChildIs(r, "unclean") /\ ~WouldExceed(tracker[r], clock)
  /\ Go(r, "backoff")
  /\ revPid' = NoPid
  /\ tracker' = [tracker EXCEPT ![r] = Prune(Append(@, clock), clock)]
  /\ UNCHANGED <<daemon, supPid, endpoint, portFixed, termed, announced, clock>>

\* The sleep does not listen: a signal waits for the next child.
BackoffOver(r) ==
  /\ At(r, "backoff") /\ Go(r, "spawn")
  /\ UNCHANGED <<daemon, files, portFixed, termed, tracker, announced, clock>>

Cancelled(r) ==
  /\ At(r, "waiting") /\ r \in termed /\ Go(r, "stopping")
  /\ UNCHANGED <<daemon, files, portFixed, termed, tracker, announced, clock>>

KillChildForgotten(r) == At(r, "stopping") /\ FALSE /\ UNCHANGED vars

KillChild(r) ==
  /\ At(r, "stopping") /\ Alive(cmd[r].of)
  /\ KillDaemon(cmd[r].of)
  /\ UNCHANGED <<files, portFixed, clock>>

StoppedChild(r) ==
  /\ At(r, "stopping") /\ ~Alive(cmd[r].of) /\ Go(r, "leave")
  /\ revPid' = NoPid
  /\ UNCHANGED <<daemon, supPid, endpoint, portFixed, termed, tracker, announced, clock>>

-----------------------------------------------------------------------------
(* stop_files; restart goes on with a start, uninstall removes the         *)
(* directories the files are in.                                           *)

AfterStop(r) ==
  CASE cmd[r].kind = "restart"   -> "resolve"
    [] cmd[r].kind = "uninstall" -> "wipe"
    [] OTHER                     -> "done"

ReadPids(r) ==
  /\ At(r, "readPids")
  /\ LET sup == LivePid(supPid)
         rev == LivePid(revPid)
     IN  /\ termed' = IF sup = NoPid THEN termed ELSE termed \cup {sup}
         /\ CASE sup # NoPid -> Deal(r, "waitSup", sup)
              [] sup = NoPid /\ rev # NoPid -> Go(r, "readRev")
              [] OTHER -> Go(r, "removeFiles")
  /\ UNCHANGED <<daemon, files, portFixed, tracker, announced, clock>>

SupervisorGone(r) ==
  /\ At(r, "waitSup") /\ ~Alive(cmd[r].of)
  /\ Deal(r, "readRev", NoPid)
  /\ UNCHANGED <<daemon, files, portFixed, termed, tracker, announced, clock>>

ReadReviewNotAgain(r) ==
  /\ At(r, "readRev") /\ Go(r, "removeFiles")
  /\ UNCHANGED <<daemon, files, portFixed, termed, tracker, announced, clock>>

ReadReview(r) ==
  /\ At(r, "readRev")
  /\ IF LivePid(revPid) # NoPid THEN Deal(r, "waitRev", revPid) ELSE Go(r, "removeFiles")
  /\ UNCHANGED <<daemon, files, portFixed, termed, tracker, announced, clock>>

ReviewGone(r) ==
  /\ At(r, "waitRev") /\ ~Alive(cmd[r].of)
  /\ Deal(r, "removeFiles", NoPid)
  /\ UNCHANGED <<daemon, files, portFixed, termed, tracker, announced, clock>>

RemoveFiles(r) ==
  /\ At(r, "removeFiles") /\ Go(r, AfterStop(r))
  /\ supPid' = NoPid /\ revPid' = NoPid
  /\ UNCHANGED <<daemon, endpoint, portFixed, termed, tracker, announced, clock>>

Wipe(r) ==
  /\ At(r, "wipe") /\ Go(r, "done")
  /\ supPid' = NoPid /\ revPid' = NoPid /\ endpoint' = NoEndpoint
  /\ UNCHANGED <<daemon, portFixed, termed, tracker, announced, clock>>

-----------------------------------------------------------------------------
(* The review daemon: run_serve binds, then writes the endpoint.           *)

PortTaken(d) == portFixed /\ \E e \in Daemons \ {d} : daemon[e].st \in {"bound", "serving"}

Bind(d) ==
  /\ daemon[d].st = "booting" /\ ~PortTaken(d)
  /\ daemon' = [daemon EXCEPT ![d].st = "bound"]
  /\ UNCHANGED <<cmd, files, portFixed, termed, tracker, announced, clock>>

WriteEndpoint(d) ==
  /\ daemon[d].st = "bound"
  /\ daemon' = [daemon EXCEPT ![d].st = "serving"]
  /\ endpoint' = [of |-> d, newer |-> {r \in Runs : cmd[r].pc \in Supervising}]
  /\ UNCHANGED <<cmd, supPid, revPid, portFixed, termed, tracker, announced, clock>>

\* It crashes, cannot boot or is signalled; once it serves it may end well.
Exits(d) ==
  /\ Alive(d)
  /\ \E how \in {"unclean"} \cup IF daemon[d].st = "serving" THEN {"clean"} ELSE {} :
       daemon' = [daemon EXCEPT ![d].st = how]
  /\ UNCHANGED <<cmd, files, portFixed, termed, tracker, announced, clock>>

-----------------------------------------------------------------------------
(* The environment: Ctrl-C, kill -9, time.                                 *)

Interrupt(r) ==
  /\ r \in Supervisors /\ r \notin termed
  /\ termed' = termed \cup {r}
  /\ UNCHANGED <<cmd, daemon, files, portFixed, tracker, announced, clock>>

RunKilled(r) ==
  /\ Alive(r) /\ KillRun(r)
  /\ UNCHANGED <<files, portFixed, clock>>

Tick ==
  /\ clock < MaxClock
  /\ clock' = clock + 1
  /\ UNCHANGED <<cmd, daemon, files, portFixed, termed, tracker, announced>>

Supervise(r) ==
  \/ Spawn(r) \/ SpawnFailed(r) \/ RecordChild(r) \/ CleanExit(r) \/ BudgetExhausted(r)
  \/ UncleanExit(r) \/ BackoffOver(r) \/ Cancelled(r) \/ KillChild(r) \/ StoppedChild(r)
  \/ Leave(r)

Command(r) ==
  \/ Resolve(r) \/ ResolveOrphan(r) \/ OrphanGone(r) \/ RemoveEndpoint(r) \/ RecordSelf(r)
  \/ ReadPids(r) \/ SupervisorGone(r) \/ ReadReview(r) \/ ReviewGone(r) \/ TimeoutKill(r)
  \/ RemoveFiles(r) \/ Wipe(r)

Next ==
  \/ \E r \in Runs : \/ Dispatch(r) \/ Command(r) \/ Supervise(r) \/ Announce(r)
                     \/ Interrupt(r) \/ RunKilled(r)
  \/ \E d \in Daemons : Bind(d) \/ WriteEndpoint(d) \/ Exits(d)
  \/ Tick

Spec == Init /\ [][Next]_vars

\* A process that can take a step takes it; nothing is assumed of the daemon.
\* The wait for a child is raced with the signal, so the signal is not passed
\* over for ever.
Fairness ==
  \A r \in Runs : WF_vars(Command(r) \/ Supervise(r)) /\ SF_vars(Cancelled(r))

FairSpec == Spec /\ Fairness

-----------------------------------------------------------------------------
TypeOK ==
  /\ cmd \in [Runs -> [kind : {"none", "start", "stop", "restart", "uninstall"},
                       pc : {"idle"} \cup Starting \cup Stopping \cup Supervising \cup Ended,
                       of : Runs \cup Daemons \cup {NoPid}]]
  /\ daemon \in [Daemons -> [st : {"unborn", "booting", "bound", "serving", "clean", "unclean"},
                             parent : Runs \cup {NoPid}]]
  /\ supPid \in Runs \cup {NoPid} /\ revPid \in Daemons \cup {NoPid}
  /\ endpoint \in [of : Daemons \cup {NoPid}, newer : SUBSET Runs]
  /\ portFixed \in BOOLEAN /\ termed \subseteq Runs /\ clock \in 0 .. MaxClock
  /\ \A r \in Runs : tracker[r] \in Seq(Nat)
  /\ announced \in [Runs -> Daemons \cup {NoPid}]

(* The child its supervisor deals with.  *)
ChildOf(r, d) == cmd[r].pc \in {"record", "waiting", "stopping"} /\ cmd[r].of = d

(* However commands race and whatever pid file could not be written: a     *)
(* daemon that is alive is the child its supervisor waits for, or what a   *)
(* kill of that supervisor left, one of each.  A supervisor that ends by   *)
(* itself leaves no daemon behind, and none has two.                       *)
ChildrenAreOwned ==
  /\ \A d \in LiveDaemons :
       LET r == daemon[d].parent IN r \in Runs /\ (ChildOf(r, d) \/ At(r, "killed"))
  /\ \A d, e \in LiveDaemons : daemon[d].parent = daemon[e].parent => d = e

(* With one command at a time and pid files that are written, there is one *)
(* install and the files tell of it: a supervisor is the one on record, at *)
(* most one daemon is alive, and it is on record (or about to be, or lost  *)
(* to a kill in between); what `status` calls running is a daemon under    *)
(* the supervisor it names.                                                *)
OneInstall ==
  /\ \A r \in Supervisors : supPid = r
  /\ Cardinality(LiveDaemons \ Lost) <= 1
  /\ \A d \in LiveDaemons \ Lost : revPid = d \/ At(daemon[d].parent, "record")
  /\ Alive(supPid) /\ Alive(revPid) => daemon[revPid].parent = supPid

(* Of commands one at a time: a stop that has ended leaves nothing that it *)
(* could have found, neither a supervisor nor a daemon, whoever was killed *)
(* on the way.                                                             *)
StopStops ==
  [][\A r \in Runs :
       (cmd[r].pc \in {"removeFiles", "wipe"} /\ cmd'[r].pc \in {"done", "resolve"})
         => Supervisors' = {} /\ LiveDaemons' \subseteq Lost']_vars

(* The endpoint a start prints is that of a daemon it spawned, though the  *)
(* file of an earlier one could not be removed.                            *)
AnnouncedIsOwn ==
  \A r \in Runs : announced[r] # NoPid => daemon[announced[r]].parent = r \/ announced[r] \in Lost

(* A command ends, and a signalled supervisor with it.                     *)
CommandsSettle ==
  \A r \in Runs :
    /\ cmd[r].pc \in Starting \cup Stopping ~> cmd[r].pc \in Ended \cup Supervising
    /\ r \in termed ~> cmd[r].pc \in Ended

=============================================================================
