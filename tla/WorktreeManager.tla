--------------------------- MODULE WorktreeManager ---------------------------
(***************************************************************************)
(* The code daemon's worktrees (repo/worktree.rs, tools/worktree_tools.rs,  *)
(* the `worktrees` table of repo/registry.rs): one checkout per ref of a     *)
(* clone, prepared under a flight lock per (clone, ref) and evicted, least   *)
(* recently used first, by a background sweep that takes no lock.            *)
(*                                                                         *)
(* Three things have three extents: a flight lock is of a ref, a checkout of *)
(* a directory, whose name is the ref with all but letters, digits, `-`,     *)
(* `.` and `_` made `_`, and FETCH_HEAD of a clone.  Refs of one clone share *)
(* FETCH_HEAD, and those spelt alike share a checkout, but never a lock.     *)
(*                                                                         *)
(* Each git command and each lock is an await: another request may run       *)
(* before and after it.  Any git command may fail.  A commit is <<ref, n>>,  *)
(* the n-th tip of a ref; a ref only moves forward.                          *)
(***************************************************************************)
EXTENDS Naturals, Sequences

CONSTANTS
  Jobs,        \* prepare_worktree requests
  Refs,        \* refs, each of one clone
  CloneOf,     \* the clone a ref belongs to
  DirOf,       \* the checkout directory of a ref: sanitize_ref, under its clone's
  RefOf,       \* the ref a request is for
  NoLock,      \* no flight lock
  Earlier,     \* what may be left of earlier runs: the refs prepared, in order
  MaxPushes,   \* bound: the last tip of each ref
  MayEvict     \* TRUE: the worktrees may outgrow max_total_bytes

ASSUME RefsAssumption ==
  /\ RefOf \in [Jobs -> Refs] /\ DOMAIN CloneOf = Refs /\ DOMAIN DirOf = Refs
  /\ \A r, s \in Refs : DirOf[r] = DirOf[s] => CloneOf[r] = CloneOf[s]
ASSUME EarlierAssumption == Earlier \subseteq Seq(Refs)
ASSUME NoLockAssumption == NoLock \notin Jobs
ASSUME WorktreeBounds == MaxPushes \in Nat \ {0} /\ MayEvict \in BOOLEAN

Clones == {CloneOf[r] : r \in Refs}
Dirs == {DirOf[r] : r \in Refs}
Commits == Refs \X (1..MaxPushes)
NoCommit == <<>>

VARIABLES
  origin,     \* the tip of each ref at the remote
  fetchHead,  \* FETCH_HEAD of each clone
  tree,       \* HEAD of each checkout, NoCommit if there is none
  lru,        \* rows of table `worktrees`, least recently used first
  flight,     \* WorktreeManager.flight: the lock of each ref, by the job that made it
  at,         \* where each request is
  lock,       \* the Arc of a flight lock that a request holds
  want,       \* its expected_sha, set by its caller
  got,        \* the FETCH_HEAD it resolved, in the end the head_sha it reports
  sweep,      \* checkouts that evict() still has to remove
  removed     \* the first of them is off the disk, its row is not deleted yet

disk == <<fetchHead, tree, lru>>
eviction == <<sweep, removed>>
jobs == <<flight, at, lock, want, got>>
manager == <<origin, disk, jobs, eviction>>

(* Where a request holds its flight lock. *)
Critical == {"compare", "fetch", "fetchNew", "resolve", "reset", "add", "register"}
Running == Critical \cup {"lock", "head"}

ManagerInit ==
  /\ origin = [r \in Refs |-> 1]
  /\ \E left \in Earlier :
       /\ lru = [i \in DOMAIN left |-> DirOf[left[i]]]
       /\ tree = [d \in Dirs |->
                   IF \E i \in DOMAIN left : DirOf[left[i]] = d
                   THEN <<CHOOSE r \in Refs : DirOf[r] = d /\ \E i \in DOMAIN left : left[i] = r, 1>>
                   ELSE NoCommit]
  /\ fetchHead = [c \in Clones |-> NoCommit]
  /\ flight = [r \in Refs |-> NoLock]
  /\ at = [j \in Jobs |-> "idle"]
  /\ lock = [j \in Jobs |-> NoLock]
  /\ want = [j \in Jobs |-> NoCommit]
  /\ got = [j \in Jobs |-> NoCommit]
  /\ sweep = <<>>
  /\ removed = FALSE

Goto(j, p) == at' = [at EXCEPT ![j] = p]

CloneFor(j) == CloneOf[RefOf[j]]
DirFor(j) == DirOf[RefOf[j]]

-----------------------------------------------------------------------------
(* lock_for: a lock lives as long as a request holds its Arc, waiting or not;
   dead entries are pruned on the way. *)

Strong(l) == \E k \in Jobs : lock[k] = l

(* Mutant of LockFor: the last holder of a lock does not count. *)
LockForDropsLast(j) ==
  LET Shared(l) == \E k, m \in Jobs : k # m /\ lock[k] = l /\ lock[m] = l
      live == [r \in Refs |-> IF Shared(flight[r]) THEN flight[r] ELSE NoLock]
      mine == IF live[RefOf[j]] = NoLock THEN j ELSE live[RefOf[j]]
  IN  /\ lock' = [lock EXCEPT ![j] = mine]
      /\ flight' = [live EXCEPT ![RefOf[j]] = mine]

LockFor(j) ==
  LET live == [r \in Refs |-> IF Strong(flight[r]) THEN flight[r] ELSE NoLock]
      mine == IF live[RefOf[j]] = NoLock THEN j ELSE live[RefOf[j]]
  IN  /\ lock' = [lock EXCEPT ![j] = mine]
      /\ flight' = [live EXCEPT ![RefOf[j]] = mine]

Unlock(j) == lock' = [lock EXCEPT ![j] = NoLock]

-----------------------------------------------------------------------------
(* PrepareWorktree::call and WorktreeManager::prepare. *)

Prepare(j) ==
  /\ at[j] = "idle"
  /\ LockFor(j)
  /\ Goto(j, "lock")

(* Mutant of Enter: the lock is made but not taken. *)
EnterUnlocked(j) ==
  /\ at[j] = "lock"
  /\ Goto(j, IF tree[DirFor(j)] = NoCommit THEN "fetchNew"
             ELSE IF want[j] # NoCommit THEN "compare" ELSE "fetch")
  /\ UNCHANGED <<origin, disk, flight, lock, want, got, eviction>>

(* The lock is free: is there a checkout, and is it said where it should be? *)
Enter(j) ==
  /\ at[j] = "lock"
  /\ \A k \in Jobs : lock[k] = lock[j] => at[k] \notin Critical
  /\ Goto(j, IF tree[DirFor(j)] = NoCommit THEN "fetchNew"
             ELSE IF want[j] # NoCommit THEN "compare" ELSE "fetch")
  /\ UNCHANGED <<origin, disk, flight, lock, want, got, eviction>>

(* The fast path: the caller knows the tip and the checkout is on it. *)
Compare(j) ==
  /\ at[j] = "compare"
  /\ Goto(j, IF tree[DirFor(j)] = want[j] THEN "register" ELSE "fetch")
  /\ UNCHANGED <<origin, disk, flight, lock, want, got, eviction>>

(* Mutant of Fetch: what has been fetched for the clone is not fetched again. *)
FetchOnce(j) ==
  /\ at[j] \in {"fetch", "fetchNew"}
  /\ fetchHead' = IF fetchHead[CloneFor(j)] # NoCommit THEN fetchHead
                  ELSE [fetchHead EXCEPT ![CloneFor(j)] = <<RefOf[j], origin[RefOf[j]]>>]
  /\ Goto(j, IF at[j] = "fetch" THEN "resolve" ELSE "add")
  /\ UNCHANGED <<origin, tree, lru, flight, lock, want, got, eviction>>

(* git fetch origin <ref> *)
Fetch(j) ==
  /\ at[j] \in {"fetch", "fetchNew"}
  /\ fetchHead' = [fetchHead EXCEPT ![CloneFor(j)] = <<RefOf[j], origin[RefOf[j]]>>]
  /\ Goto(j, IF at[j] = "fetch" THEN "resolve" ELSE "add")
  /\ UNCHANGED <<origin, tree, lru, flight, lock, want, got, eviction>>

(* git rev-parse FETCH_HEAD *)
Resolve(j) ==
  /\ at[j] = "resolve"
  /\ got' = [got EXCEPT ![j] = fetchHead[CloneFor(j)]]
  /\ Goto(j, "reset")
  /\ UNCHANGED <<origin, disk, flight, lock, want, eviction>>

(* git reset --hard, unless HEAD is there already *)
Reset(j) ==
  /\ at[j] = "reset" /\ tree[DirFor(j)] # NoCommit
  /\ tree' = [tree EXCEPT ![DirFor(j)] = got[j]]
  /\ Goto(j, "register")
  /\ UNCHANGED <<origin, fetchHead, lru, flight, lock, want, got, eviction>>

(* git worktree add --detach <path> FETCH_HEAD *)
Add(j) ==
  /\ at[j] = "add" /\ tree[DirFor(j)] = NoCommit
  /\ tree' = [tree EXCEPT ![DirFor(j)] = fetchHead[CloneFor(j)]]
  /\ Goto(j, "register")
  /\ UNCHANGED <<origin, fetchHead, lru, flight, lock, want, got, eviction>>

(* upsert_worktree makes the row the most recently used one; then prepare
   returns and gives the lock back. *)
Register(j) ==
  /\ at[j] = "register"
  /\ lru' = Append(SelectSeq(lru, LAMBDA d : d # DirFor(j)), DirFor(j))
  /\ Unlock(j)
  /\ Goto(j, "head")
  /\ UNCHANGED <<origin, fetchHead, tree, flight, want, got, eviction>>

(* head_sha, outside the lock; the answer goes out whatever it says. *)
ReadHead(j) ==
  /\ at[j] = "head"
  /\ got' = [got EXCEPT ![j] = tree[DirFor(j)]]
  /\ Goto(j, "done")
  /\ UNCHANGED <<origin, disk, flight, lock, want, eviction>>

(* A git command or the registry fails: the request ends with an error. *)
Fail(j) ==
  /\ at[j] \in Critical
  /\ Unlock(j)
  /\ Goto(j, "error")
  /\ UNCHANGED <<origin, disk, flight, want, got, eviction>>

Job(j) ==
  \/ Enter(j) \/ Compare(j) \/ Fetch(j) \/ Resolve(j) \/ Reset(j) \/ Add(j)
  \/ Register(j) \/ ReadHead(j) \/ Fail(j)

-----------------------------------------------------------------------------
(* evict: list the rows, measure, decide, then remove one by one. *)

(* Sizes are arbitrary, so any prefix of the least recently used may have to go. *)
SweepList ==
  /\ MayEvict /\ sweep = <<>>
  /\ \E n \in 1..Len(lru) : sweep' = SubSeq(lru, 1, n)
  /\ UNCHANGED <<origin, disk, jobs, removed>>

(* remove: git worktree remove --force, and what is left of the directory ... *)
SweepRemove ==
  /\ sweep # <<>> /\ ~removed
  /\ tree' = [tree EXCEPT ![Head(sweep)] = NoCommit]
  /\ removed' = TRUE
  /\ UNCHANGED <<origin, fetchHead, lru, jobs, sweep>>

(* ... then the row. *)
SweepDelete ==
  /\ removed
  /\ lru' = SelectSeq(lru, LAMBDA d : d # Head(sweep))
  /\ sweep' = Tail(sweep)
  /\ removed' = FALSE
  /\ UNCHANGED <<origin, fetchHead, tree, jobs>>

Sweep == SweepList \/ SweepRemove \/ SweepDelete

(* Somebody pushes to the ref. *)
Push(r) ==
  /\ origin[r] < MaxPushes
  /\ origin' = [origin EXCEPT ![r] = @ + 1]
  /\ UNCHANGED <<disk, jobs, eviction>>

(* The code daemon dies: what it was doing is lost, the disk stays. *)
CodeDaemonDies ==
  /\ at' = [j \in Jobs |-> IF at[j] \in Running THEN "error" ELSE at[j]]
  /\ lock' = [j \in Jobs |-> NoLock]
  /\ flight' = [r \in Refs |-> NoLock]
  /\ sweep' = <<>>
  /\ removed' = FALSE
  /\ UNCHANGED <<origin, disk, want, got>>

-----------------------------------------------------------------------------
(* What a client may state as its expected_sha: any commit that was a tip of its ref, or none. *)
PagesOf(r) == {NoCommit} \cup {<<r, n>> : n \in 1..origin[r]}

-----------------------------------------------------------------------------
(* Properties of the code daemon alone. *)

ManagerTypeOK ==
  /\ origin \in [Refs -> 1..MaxPushes]
  /\ fetchHead \in [Clones -> Commits \cup {NoCommit}]
  /\ tree \in [Dirs -> Commits \cup {NoCommit}]
  /\ lru \in Seq(Dirs)
  /\ flight \in [Refs -> Jobs \cup {NoLock}]
  /\ at \in [Jobs -> Running \cup {"idle", "done", "error"}]
  /\ lock \in [Jobs -> Jobs \cup {NoLock}]
  /\ want \in [Jobs -> Commits \cup {NoCommit}]
  /\ got \in [Jobs -> Commits \cup {NoCommit}]
  /\ sweep \in Seq(Dirs)
  /\ removed \in BOOLEAN

(* Preparing is single-flight per ref, as worktree.rs says, although its
   locks come and go with the requests that hold them. *)
OneFlight ==
  \A j, k \in Jobs :
    at[j] \in Critical /\ at[k] \in Critical /\ RefOf[j] = RefOf[k] => j = k

(* No other ref is spelt alike.  So it is for the refs that the extension's
   sessions have, pull/<n>/head. *)
OwnDir(r) == \A s \in Refs : DirOf[s] = DirOf[r] => s = r

(* A checkout never goes back along a ref: whatever ref's tip it is put on,
   no request puts back an earlier one that another had already passed.  It
   holds although FETCH_HEAD may be another ref's when it is read. *)
NeverBack ==
  [][\A r \in Refs : OwnDir(r) =>
       LET old == tree[DirOf[r]]
           new == tree'[DirOf[r]]
       IN  old # NoCommit /\ new # NoCommit /\ old[1] = new[1] => old[2] <= new[2]]_tree

(* A checkout is of the ref it was prepared for. *)
OwnRef == \A r \in Refs : OwnDir(r) /\ tree[DirOf[r]] # NoCommit => tree[DirOf[r]][1] = r

(* No two refs of one clone are prepared between a fetch and the read of its
   FETCH_HEAD at once. *)
Apart ==
  \A j, k \in Jobs :
    /\ at[j] \in {"resolve", "add"} /\ at[k] \in {"resolve", "add"}
    /\ CloneFor(j) = CloneFor(k)
    => RefOf[j] = RefOf[k]

(* That is all it takes: a checkout is of its own ref as long as requests for
   two refs of one clone stay apart, which no lock of the code sees to. *)
OwnRefIfApart == []Apart => []OwnRef

=============================================================================
