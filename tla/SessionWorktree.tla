--------------------------- MODULE SessionWorktree ---------------------------
(***************************************************************************)
(* How a session of the review daemon gets its checkout (worktree.rs, the    *)
(* session routes of server/routes.rs, three columns of the store), on top   *)
(* of the code daemon's worktrees.                                           *)
(*                                                                         *)
(* There is one session per pull request, hence per ref: sessions are named  *)
(* by their ref, and a prepare task by the request it will make.             *)
(***************************************************************************)
EXTENDS WorktreeManager

VARIABLES
  path,   \* sessions.worktree_path is set
  sha,    \* sessions.worktree_sha
  board,  \* SessionStatusBoard: none, pending, ready, failed
  task    \* each detached prepare_session task

session == <<path, sha, board>>
vars == <<manager, session, task>>

(* Earlier runs may have left a checkout that no session knows, or one whose
   sha was not recorded. *)
Init ==
  /\ ManagerInit
  /\ path \in {p \in [Refs -> BOOLEAN] : \A r \in Refs : p[r] => tree[DirOf[r]] # NoCommit}
  /\ sha \in {s \in [Refs -> Commits \cup {NoCommit}] :
               \A r \in Refs : s[r] = NoCommit \/ (path[r] /\ s[r] = tree[DirOf[r]])}
  /\ board = [r \in Refs |-> "none"]
  /\ task = [j \in Jobs |-> "idle"]

-----------------------------------------------------------------------------
(* create_session and get_session. *)

(* worktree_freshness for a page that shows `page`, or states no sha. *)
OpenReady(r, page) == path[r] /\ (page # NoCommit => sha[r] = page)

(* Mutant of Open: the sha the page shows is recorded at once. *)
OpenRecordsPage(j) ==
  /\ task[j] = "idle"
  /\ \E page \in PagesOf(RefOf[j]) :
       /\ ~OpenReady(RefOf[j], page)
       /\ want' = [want EXCEPT ![j] = page]
       /\ sha' = [sha EXCEPT ![RefOf[j]] = page]
  /\ board' = [board EXCEPT ![RefOf[j]] = "pending"]
  /\ task' = [task EXCEPT ![j] = "discover"]
  /\ UNCHANGED <<origin, disk, flight, at, lock, got, eviction, path>>

(* create_session of a page that is not ready: pending, and a task of its own,
   whether or not another one is under way.  (A ready one changes nothing.) *)
Open(j) ==
  /\ task[j] = "idle"
  /\ \E page \in PagesOf(RefOf[j]) :
       /\ ~OpenReady(RefOf[j], page)
       /\ want' = [want EXCEPT ![j] = page]
  /\ board' = [board EXCEPT ![RefOf[j]] = "pending"]
  /\ task' = [task EXCEPT ![j] = "discover"]
  /\ UNCHANGED <<origin, disk, flight, at, lock, got, eviction, path, sha>>

-----------------------------------------------------------------------------
(* prepare_session. *)

Step(j, t) == task' = [task EXCEPT ![j] = t]

(* Mutant of Failed: the task returns and leaves the board as it was. *)
FailedSilently(j) ==
  /\ Step(j, "end")
  /\ UNCHANGED board

Failed(j) ==
  /\ board' = [board EXCEPT ![RefOf[j]] = "failed"]
  /\ Step(j, "end")

(* discover_repo, or clone_repo on a miss; then prepare_worktree is called. *)
Discover(j) ==
  /\ task[j] = "discover"
  /\ \/ /\ Prepare(j)
        /\ Step(j, "waiting")
        /\ UNCHANGED <<origin, disk, want, got, eviction, session>>
     \/ /\ Failed(j)
        /\ UNCHANGED <<manager, path, sha>>

(* prepare_worktree answers; or the deadline it shares with the clone passes,
   or the code daemon is lost, while the request may go on. *)
Answered(j) ==
  /\ task[j] = "waiting"
  /\ \/ at[j] = "done" /\ Step(j, "path") /\ UNCHANGED board
     \/ Failed(j)
  /\ UNCHANGED <<manager, path, sha>>

SetWorktree(j) ==
  /\ task[j] = "path"
  /\ path' = [path EXCEPT ![RefOf[j]] = TRUE]
  /\ Step(j, "sha")
  /\ UNCHANGED <<manager, sha, board>>

SetWorktreeSha(j) ==
  /\ task[j] = "sha"
  /\ sha' = [sha EXCEPT ![RefOf[j]] = got[j]]
  /\ Step(j, "ready")
  /\ UNCHANGED <<manager, path, board>>

SetReady(j) ==
  /\ task[j] = "ready"
  /\ board' = [board EXCEPT ![RefOf[j]] = "ready"]
  /\ Step(j, "end")
  /\ UNCHANGED <<manager, path, sha>>

Task(j) == Discover(j) \/ Answered(j) \/ SetWorktree(j) \/ SetWorktreeSha(j) \/ SetReady(j)

-----------------------------------------------------------------------------
(* The review daemon restarts, and the code daemon, its child, with it. *)
Restart ==
  /\ CodeDaemonDies
  /\ task' = [j \in Jobs |-> IF task[j] = "idle" THEN "idle" ELSE "end"]
  /\ board' = [r \in Refs |-> "none"]
  /\ UNCHANGED <<path, sha>>

CodeDaemon ==
  /\ (\E j \in Jobs : Job(j)) \/ Sweep \/ CodeDaemonDies
  /\ UNCHANGED <<session, task>>

Next ==
  \/ CodeDaemon
  \/ \E j \in Jobs : Open(j) \/ Task(j)
  \/ \E r \in Refs : Push(r) /\ UNCHANGED <<session, task>>
  \/ Restart

Spec == Init /\ [][Next]_vars

(* A spawned task is polled and its calls end by their deadline.  Nothing is
   assumed of the code daemon. *)
FairSpec == Spec /\ \A j \in Jobs : WF_vars(Task(j))

-----------------------------------------------------------------------------
(* Properties. *)

TypeOK ==
  /\ ManagerTypeOK
  /\ path \in [Refs -> BOOLEAN]
  /\ sha \in [Refs -> Commits \cup {NoCommit}]
  /\ board \in [Refs -> {"none", "pending", "ready", "failed"}]
  /\ task \in [Jobs -> {"idle", "discover", "waiting", "path", "sha", "ready", "end"}]

(* The recorded sha never runs ahead of the checkout: as long as the two are
   of one ref, a page that is told it is ready is answered from the commit it
   shows or a later one, across overlapping prepares of one ref or of several,
   lost deadlines, evictions and restarts. *)
RecordedNotAhead ==
  \A r \in Refs : OwnDir(r) =>
    LET head == tree[DirOf[r]]
    IN  sha[r] # NoCommit /\ head # NoCommit /\ sha[r][1] = head[1] => sha[r][2] <= head[2]

(* A page that waits learns an outcome, whatever happens to the request. *)
PendingEnds == \A r \in Refs : board[r] = "pending" ~> board[r] # "pending"
=============================================================================
